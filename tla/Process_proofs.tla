--------------------------- MODULE Process_proofs ---------------------------
(***************************************************************************)
(* Proofs about processes.  The scheduler lock: a holder whose heartbeat   *)
(* is in time loses its row to the staleAfter = 0 retry only, and when no  *)
(* two processes share a host, which rules that retry out, at most one     *)
(* process runs a scheduler.  CrashRecovery implements that lock, so that  *)
(* the same holds of it, and from it follows that a scheduler finds no     *)
(* zombies.  The port scanner of a process gives back every slot of its    *)
(* breaker.                                                                *)
(***************************************************************************)
EXTENDS MCProcess, FiniteSetTheorems, TLAPS

\* Every variable of the lock keeps its type.
LEMMA TypeStep == TypeOK /\ [Next]_lockVars => TypeOK'
<1> SUFFICES ASSUME TypeOK, [Next]_lockVars PROVE TypeOK'
  OBVIOUS
<1> USE LockAssumption DEF TypeOK, Holding, Beating, Pcs, NoRow, MyRow
<1>1. CASE AgeRow
  <2>1. row'.owner = row.owner /\ row'.age \in 0..StaleAfter + 1
    BY <1>1, SMT DEF AgeRow
  <2> QED
    BY <1>1, <2>1 DEF AgeRow
<1>2. ASSUME NEW p \in Procs,
             Acquire(p) \/ Refused(p) \/ GiveUp(p) \/ JudgeDead(p) \/ TakeOver(p) \/ TakeOverFails(p)
      PROVE  TypeOK'
  <2>1. MyRow(p) \in [owner : Procs \cup {NoOne}, age : 0..StaleAfter + 1]
    BY SMT DEF MyRow
  <2> QED
    BY <1>2, <2>1 DEF Acquire, Refused, GiveUp, JudgeDead, TakeOver, TakeOverFails, MyRow
<1>3. ASSUME NEW p \in Procs,
             Boot(p) \/ BootFails(p) \/ Shutdown(p) \/ StopHeartbeat(p) \/ Exit(p) \/ Crash(p)
      PROVE  TypeOK'
  BY <1>3 DEF Boot, BootFails, Shutdown, StopHeartbeat, Exit, Crash
<1>4. ASSUME NEW p \in Procs, ReleaseRow(p) \/ Beat(p)
      PROVE  TypeOK'
  <2>1. {NoRow, MyRow(p)} \subseteq [owner : Procs \cup {NoOne}, age : 0..StaleAfter + 1]
    BY SMT DEF NoRow, MyRow
  <2> QED
    BY <1>4, <2>1 DEF ReleaseRow, Beat
<1>5. CASE UNCHANGED lockVars
  BY <1>5 DEF lockVars
<1> QED
  BY <1>1, <1>2, <1>3, <1>4, <1>5 DEF Next

\* The state of the row and of every process stays within its type in every
\* reachable state, for any processes, hosts and staleness limit.
THEOREM LockTypeCorrect == Spec => []TypeOK
<1>1. Init => TypeOK
  BY LockAssumption, SMT DEF Init, TypeOK, NoRow, Pcs
<1> QED
  BY <1>1, TypeStep, PTL DEF Spec

-----------------------------------------------------------------------------
(* With heartbeats in time *)

\* A live holder's row is not stale.
Fresh == \A p \in Procs : pc[p] \in Holding /\ row.owner = p => row.age <= StaleAfter

\* Freshness is kept by every step when heartbeats are in time.
LEMMA FreshStep ==
  ASSUME Timely, TypeOK, Fresh, [Next]_lockVars
  PROVE  Fresh'
<1> USE LockAssumption DEF TypeOK, Fresh, Holding, Beating, NoRow, MyRow
<1>1. CASE AgeRow
  BY <1>1, SMT DEF AgeRow
<1>2. ASSUME NEW p \in Procs,
             \/ Refused(p) \/ GiveUp(p) \/ JudgeDead(p) \/ TakeOverFails(p) \/ Boot(p) \/ BootFails(p)
             \/ Shutdown(p) \/ StopHeartbeat(p) \/ Exit(p) \/ Crash(p)
      PROVE  Fresh'
  BY <1>2 DEF Refused, GiveUp, JudgeDead, TakeOverFails, Boot, BootFails, Shutdown, StopHeartbeat,
              Exit, Crash
<1>3. ASSUME NEW p \in Procs, Acquire(p) \/ TakeOver(p) \/ Beat(p)
      PROVE  Fresh'
  BY <1>3, SMT DEF Acquire, TakeOver, Beat
<1>4. ASSUME NEW p \in Procs, ReleaseRow(p)
      PROVE  Fresh'
  BY <1>4 DEF ReleaseRow, Ours
<1>5. CASE UNCHANGED lockVars
  BY <1>5 DEF lockVars
<1> QED
  BY <1>1, <1>2, <1>3, <1>4, <1>5 DEF Next

\* One step: the row of a live holder changes hands in TakeOver only.
LEMMA KeptStep ==
  ASSUME TypeOK, Fresh, Next, NEW p \in Procs, ~Kept(p)
  PROVE  \E q \in Procs : pc[q] = "forcing" /\ row'.owner = q
<1> USE LockAssumption DEF TypeOK, Kept, Holding, Beating, NoRow, MyRow
<1>1. CASE AgeRow
  BY <1>1 DEF AgeRow
<1>2. ASSUME NEW q \in Procs, Acquire(q)
      PROVE  FALSE
  BY <1>2, SMT DEF Acquire, Reclaimable, Fresh
<1>3. ASSUME NEW q \in Procs, TakeOver(q)
      PROVE  pc[q] = "forcing" /\ row'.owner = q
  BY <1>3 DEF TakeOver
<1>4. ASSUME NEW q \in Procs, ReleaseRow(q)
      PROVE  FALSE
  BY <1>4 DEF ReleaseRow, Ours
<1>5. ASSUME NEW q \in Procs,
             \/ Refused(q) \/ GiveUp(q) \/ JudgeDead(q) \/ TakeOverFails(q) \/ Boot(q) \/ BootFails(q)
             \/ Shutdown(q) \/ StopHeartbeat(q) \/ Exit(q) \/ Beat(q) \/ Crash(q)
      PROVE  FALSE
  BY <1>5 DEF Refused, GiveUp, JudgeDead, TakeOverFails, Boot, BootFails, Shutdown, StopHeartbeat,
              Exit, Beat, Ours, Crash
<1> QED
  BY <1>1, <1>2, <1>3, <1>4, <1>5 DEF Next

\* A live holder that refreshes within staleAfter loses its row only to the
\* staleAfter = 0 retry (internal/cli/scheduler_lock.go:68-76): no plain acquire,
\* late release or failed boot of another process touches it.
THEOREM LostOnlyToTakeOver ==
  ASSUME Timely
  PROVE  Spec => LostToTakeOver
<1>1. Init => Fresh
  BY DEF Init, Fresh, Holding, Beating
<1>2. TypeOK /\ Fresh /\ [Next]_lockVars => Fresh'
  BY FreshStep
<1>3. TypeOK /\ Fresh /\ [Next]_lockVars =>
        [\A p \in Procs : ~Kept(p) => \E q \in Procs : pc[q] = "forcing" /\ row'.owner = q]_lockVars
  BY KeptStep
<1> QED
  BY <1>1, <1>2, <1>3, LockTypeCorrect, PTL DEF Spec, LostToTakeOver

-----------------------------------------------------------------------------
(* With every process on a host of its own *)

\* Every live holder owns the row, and nobody retries with staleAfter = 0.
Owned ==
  \A p \in Procs : /\ pc[p] \in Holding => row.owner = p
                   /\ pc[p] # "forcing"
                   /\ pc[p] = "probing" => saw[p] \in Procs

\* Ownership is kept by every step when heartbeats are in time and hosts differ.
LEMMA OwnedStep ==
  ASSUME TypeOK, Fresh, Owned, [Next]_lockVars,
         \A p, q \in Procs : HostOf[p] = HostOf[q] => p = q
  PROVE  Owned'
<1> USE LockAssumption DEF TypeOK, Owned, Holding, Beating, NoRow, MyRow
<1>1. CASE AgeRow
  BY <1>1 DEF AgeRow
<1>2. ASSUME NEW p \in Procs, Acquire(p)
      PROVE  Owned'
  <2>1. \A q \in Procs : pc[q] \notin Holding
    BY <1>2, SMT DEF Acquire, Reclaimable, Fresh
  <2> QED
    BY <1>2, <2>1 DEF Acquire
<1>3. ASSUME NEW p \in Procs, Refused(p)
      PROVE  Owned'
  BY <1>3 DEF Refused, Reclaimable
<1>4. ASSUME NEW p \in Procs, JudgeDead(p) \/ TakeOver(p) \/ TakeOverFails(p)
      PROVE  FALSE
  BY <1>4 DEF JudgeDead, TakeOver, TakeOverFails, Alive
<1>5. ASSUME NEW p \in Procs,
             \/ GiveUp(p) \/ Boot(p) \/ BootFails(p) \/ Shutdown(p) \/ StopHeartbeat(p)
             \/ Exit(p) \/ Beat(p) \/ Crash(p)
      PROVE  Owned'
  BY <1>5 DEF GiveUp, Boot, BootFails, Shutdown, StopHeartbeat, Exit, Beat, Ours, Crash
<1>6. ASSUME NEW p \in Procs, ReleaseRow(p)
      PROVE  Owned'
  BY <1>6 DEF ReleaseRow, Ours
<1>7. CASE UNCHANGED lockVars
  BY <1>7 DEF lockVars
<1> QED
  BY <1>1, <1>2, <1>3, <1>4, <1>5, <1>6, <1>7 DEF Next

\* When heartbeats are in time and no two processes share a host, so that nobody
\* can probe another's PID, at most one process runs a scheduler or reaps.
THEOREM OneSchedulerAcrossHosts ==
  ASSUME Timely, \A p, q \in Procs : HostOf[p] = HostOf[q] => p = q
  PROVE  Spec => []OneScheduler
<1>1. Init => Fresh /\ Owned
  BY DEF Init, Fresh, Owned, Holding, Beating
<1>2. TypeOK /\ Fresh /\ Owned /\ [Next]_lockVars => Fresh' /\ Owned'
  BY FreshStep, OwnedStep
<1>3. Owned => OneScheduler
  BY DEF Owned, OneScheduler, Holding
<1> QED
  BY <1>1, <1>2, <1>3, LockTypeCorrect, PTL DEF Spec

-----------------------------------------------------------------------------
(* The processes of CrashRecovery compete for this lock *)

Stage == {"start", "requested", "marked", "scanning", "succeeded", "errored", "linked", "done", "dead"}

\* Every step of CrashRecovery is one of the lock or leaves it alone.
LEMMA RecStepIsLockStep == [RecNext]_vars => [Next]_lockVars
  <1> SUFFICES ASSUME [RecNext]_vars PROVE [Next]_lockVars
    OBVIOUS
  <1>1. CASE LockStep
    BY <1>1 DEF LockStep, Next
  <1>2. CASE \E p \in Procs : Reap(p) \/ Drained(p) \/ ExitProc(p) \/ CrashProc(p)
    BY <1>2 DEF Reap, Drained, ExitProc, CrashProc, Next
  <1>3. CASE \E p \in Procs, s \in AdHoc : RequestAdHoc(p, s)
    BY <1>3 DEF RequestAdHoc
  <1>4. CASE \E s \in Scans : StartScan(s) \/ Progress(s) \/ FinishScan(s)
    BY <1>4 DEF StartScan, Progress, FinishScan
  <1>5. CASE \E s \in AdHoc : MarkRunning(s) \/ FailAdHoc(s) \/ AttachScan(s) \/ SettleAdHoc(s)
    BY <1>5 DEF MarkRunning, FailAdHoc, AttachScan, SettleAdHoc
  <1>6. CASE OutsiderDies
    BY <1>6 DEF OutsiderDies
  <1>7. CASE UNCHANGED vars
    BY <1>7 DEF vars
  <1> QED BY <1>1, <1>2, <1>3, <1>4, <1>5, <1>6, <1>7 DEF RecNext

\* Recovery implements the lock: what is proved of the lock holds with scans, reaps and exits around it.
THEOREM RecoveryImplementsLock == RecSpec => Spec
  <1>1. RecInit => Init
    BY DEF RecInit
  <1> QED BY <1>1, RecStepIsLockStep, PTL DEF RecSpec, Spec

\* What a step may do to the goroutines of scans.
LEMMA WorkTypes ==
  ASSUME RecTypeOK, [RecNext]_vars
  PROVE  work' \in [Scans -> [in : Procs \cup {NoOne, Outsider}, at : Stage]]
  <1> USE RecoveryAssumption
  <1> DEFINE W == [in : Procs \cup {NoOne, Outsider}, at : Stage]
  <1>0. work \in [Scans -> W]
    BY DEF RecTypeOK, Stage
  <1>a. ASSUME NEW s \in Scans, NEW far \in Stage, work' = [work EXCEPT ![s].at = far]
        PROVE  work' \in [Scans -> W]
    <2>1. [work[s] EXCEPT !.at = far] = [in |-> work[s].in, at |-> far]
      BY <1>0
    <2> QED BY <1>0, <1>a, <2>1
  <1>b. ASSUME NEW s \in Scans, NEW p \in Procs \cup {Outsider}, NEW far \in Stage,
               work' = [work EXCEPT ![s] = [in |-> p, at |-> far]]
        PROVE  work' \in [Scans -> W]
    BY <1>0, <1>b
  <1>c. ASSUME NEW p \in Procs \cup {Outsider}, Killed(p) PROVE work' \in [Scans -> W]
    BY <1>0, <1>c DEF Killed, Stage
  <1>d. {"requested", "marked", "scanning", "succeeded", "errored", "linked", "done"} \subseteq Stage
    BY DEF Stage
  <1>1. CASE UNCHANGED work
    BY <1>0, <1>1
  <1>2. ASSUME NEW p \in Procs, ExitProc(p) \/ CrashProc(p) PROVE work' \in [Scans -> W]
    BY <1>2, <1>c DEF ExitProc, CrashProc
  <1>3. ASSUME NEW p \in Procs, NEW s \in AdHoc, RequestAdHoc(p, s) PROVE work' \in [Scans -> W]
    BY <1>3, <1>b, <1>d DEF RequestAdHoc
  <1>4. ASSUME NEW s \in Scans, StartScan(s) PROVE work' \in [Scans -> W]
    BY <1>4, <1>a, <1>b, <1>d DEF StartScan, Step
  <1>5. ASSUME NEW s \in Scans, FinishScan(s) PROVE work' \in [Scans -> W]
    <2> PICK status \in Final : Step(s, IF s \notin AdHoc THEN "done"
                                       ELSE IF status = "completed" THEN "succeeded" ELSE "errored")
      BY <1>5 DEF FinishScan
    <2> QED BY <1>a, <1>d DEF Step
  <1>6. ASSUME NEW s \in AdHoc, MarkRunning(s) \/ FailAdHoc(s) \/ AttachScan(s) \/ SettleAdHoc(s)
        PROVE  work' \in [Scans -> W]
    BY <1>6, <1>a, <1>d DEF MarkRunning, FailAdHoc, AttachScan, SettleAdHoc, Step
  <1>7. CASE OutsiderDies
    BY <1>7, <1>c DEF OutsiderDies
  <1> QED BY <1>1, <1>2, <1>3, <1>4, <1>5, <1>6, <1>7
          DEF RecNext, LockStep, Reap, Drained, Progress, vars, recVars

\* Every variable of recovery keeps its type.
LEMMA RecTypeStep == RecTypeOK /\ [RecNext]_vars => RecTypeOK'
  <1> SUFFICES ASSUME RecTypeOK, [RecNext]_vars PROVE RecTypeOK'
    OBVIOUS
  <1> USE RecoveryAssumption
  <1>1. TypeOK'
    BY RecStepIsLockStep, TypeStep DEF RecTypeOK
  <1>2. scan' \in [Scans -> Final \cup {"none", "running"}]
    BY DEF RecTypeOK, RecNext, LockStep, Reap, Drained, ExitProc, CrashProc, RequestAdHoc, StartScan, Progress,
           FinishScan, MarkRunning, FailAdHoc, AttachScan, SettleAdHoc, OutsiderDies, MarkScansFailed, Final, vars, recVars
  <1>3. adhoc' \in [AdHoc -> {"none", "pending", "running", "completed", "failed"}]
    BY DEF RecTypeOK, RecNext, LockStep, Reap, Drained, ExitProc, CrashProc, RequestAdHoc, StartScan, Progress,
           FinishScan, MarkRunning, FailAdHoc, AttachScan, SettleAdHoc, OutsiderDies, MarkAdHocRunsFailed, vars, recVars
  <1>4. link' \subseteq AdHoc
    BY DEF RecTypeOK, RecNext, LockStep, Reap, Drained, ExitProc, CrashProc, RequestAdHoc, StartScan, Progress,
           FinishScan, MarkRunning, FailAdHoc, AttachScan, SettleAdHoc, OutsiderDies, vars, recVars
  <1> QED BY <1>1, <1>2, <1>3, <1>4, WorkTypes DEF RecTypeOK, Stage

\* Rows and goroutines stay within their types, whatever crashes and is reaped.
THEOREM RecoveryTypeCorrect == RecSpec => []RecTypeOK
  <1>1. RecInit => RecTypeOK
    <2> SUFFICES ASSUME RecInit PROVE RecTypeOK
      OBVIOUS
    <2>1. TypeOK
      BY LockAssumption, SMT DEF RecInit, Init, TypeOK, NoRow, Pcs
    <2> QED BY <2>1, RecoveryAssumption DEF RecInit, RecTypeOK, Idle
  <1> QED BY <1>1, RecTypeStep, PTL DEF RecSpec

-----------------------------------------------------------------------------
(* Ad-hoc runs *)

\* Only a completed scan is attached, and it stays completed; only an attached one completes its ad-hoc run.
Attached ==
  /\ \A s \in Scans : work[s].at = "succeeded" => scan[s] = "completed"
  /\ \A s \in link : scan[s] = "completed" /\ work[s].at \in {"linked", "done", "dead"}
  /\ \A s \in AdHoc : adhoc[s] = "completed" => s \in link

\* A scan that is attached, or about to be, is not written any more.
LEMMA AttachedStep ==
  ASSUME RecTypeOK, Attached, ~MayLoseWrite, [RecNext]_vars
  PROVE  Attached'
  <1> USE RecoveryAssumption DEF Attached
  <1>0. /\ work \in [Scans -> [in : Procs \cup {NoOne, Outsider}, at : Stage]] /\ link \subseteq Scans
        /\ scan \in [Scans -> Final \cup {"none", "running"}]
        /\ adhoc \in [AdHoc -> {"none", "pending", "running", "completed", "failed"}]
    BY DEF RecTypeOK, Stage
  <1>1. CASE UNCHANGED recVars
    BY <1>1 DEF recVars
  <1>2. ASSUME NEW p \in Procs, Reap(p) PROVE Attached'
    BY <1>0, <1>2 DEF Reap, MarkScansFailed, MarkAdHocRunsFailed
  <1>3. ASSUME NEW p \in Procs \cup {Outsider}, Killed(p), UNCHANGED <<scan, adhoc, link>> PROVE Attached'
    BY <1>0, <1>3 DEF Killed
  <1>4. ASSUME NEW p \in Procs, NEW s \in AdHoc, RequestAdHoc(p, s) PROVE Attached'
    BY <1>0, <1>4 DEF RequestAdHoc, Idle
  <1>5. ASSUME NEW s \in Scans, StartScan(s) PROVE Attached'
    <2>1. work[s].at \in {"start", "marked"} /\ work'[s].at = "scanning" /\ \A r \in Scans \ {s} : work'[r] = work[r]
      BY <1>0, <1>5 DEF StartScan, Step, Idle
    <2> QED BY <1>0, <1>5, <2>1 DEF StartScan
  <1>6. ASSUME NEW s \in Scans, Progress(s) PROVE Attached'
    BY <1>0, <1>6 DEF Progress
  <1>7. ASSUME NEW s \in Scans, FinishScan(s) PROVE Attached'
    <2> PICK status \in Final : /\ scan' = [scan EXCEPT ![s] = status]
                               /\ Step(s, IF s \notin AdHoc THEN "done"
                                          ELSE IF status = "completed" THEN "succeeded" ELSE "errored")
      BY <1>7 DEF FinishScan
    <2>1. work'[s].at \in {"done", "errored"} \/ (work'[s].at = "succeeded" /\ status = "completed")
      BY <1>0 DEF Step
    <2>2. s \notin link /\ \A r \in Scans \ {s} : work'[r] = work[r] /\ scan'[r] = scan[r]
      BY <1>0, <1>7 DEF FinishScan, Step
    <2> QED BY <1>0, <1>7, <2>1, <2>2 DEF FinishScan
  <1>8. ASSUME NEW s \in AdHoc, MarkRunning(s) \/ FailAdHoc(s) PROVE Attached'
    BY <1>0, <1>8 DEF MarkRunning, FailAdHoc, Step
  <1>9. ASSUME NEW s \in AdHoc, AttachScan(s) \/ SettleAdHoc(s) PROVE Attached'
    BY <1>0, <1>9 DEF AttachScan, SettleAdHoc, Step
  <1> QED BY <1>1, <1>2, <1>3, <1>4, <1>5, <1>6, <1>7, <1>8, <1>9
          DEF RecNext, LockStep, Drained, ExitProc, CrashProc, OutsiderDies, vars, recVars

\* If its last write is not lost, a completed ad-hoc run has a completed scan attached, on any hosts, with late
\* heartbeats, timeouts, crashes and reaps of running scans (intervalsched/scheduler.go:276-278).
THEOREM AdHocMatchesScanHolds ==
  ASSUME ~MayLoseWrite
  PROVE  RecSpec => []AdHocMatchesScan
  <1>1. RecInit => Attached
    BY RecoveryAssumption DEF RecInit, Attached, Idle
  <1>2. RecTypeOK /\ Attached /\ [RecNext]_vars => Attached'
    BY AttachedStep
  <1>3. Attached => AdHocMatchesScan
    BY DEF Attached, AdHocMatchesScan
  <1> QED BY <1>1, <1>2, <1>3, RecoveryTypeCorrect, PTL DEF RecSpec

-----------------------------------------------------------------------------
(* Zombies *)

\* A goroutine of a scan lives in a process whose scheduler runs or is being drained.
WorkIsHeld == \A s \in Scans : LiveWork(s) => work[s].in \in Procs /\ pc[work[s].in] \in {"running", "draining"}

\* Without scans outside of the lock, and with a Stop that waits for its scans, no goroutine outlives its lock.
LEMMA WorkIsHeldStep ==
  ASSUME RecTypeOK, WorkIsHeld, ~MayRunUnlocked, ~MayTimeOut, [RecNext]_vars
  PROVE  WorkIsHeld'
  <1> USE RecoveryAssumption, LockAssumption DEF WorkIsHeld
  <1>0. /\ work \in [Scans -> [in : Procs \cup {NoOne, Outsider}, at : Stage]]
        /\ pc \in [Procs -> Pcs]
    BY DEF RecTypeOK, Stage, TypeOK
  <1>1. CASE LockStep
    <2>1. UNCHANGED work /\ \A p \in Procs : pc[p] \in {"running", "draining"} => pc'[p] \in {"running", "draining"}
      BY <1>0, <1>1 DEF LockStep, recVars, AgeRow, Acquire, Refused, GiveUp, JudgeDead, TakeOver, TakeOverFails, BootFails,
                  Shutdown, ReleaseRow, Beat
    <2> QED BY <2>1 DEF LiveWork
  <1>2. ASSUME NEW p \in Procs, Reap(p) \/ Drained(p) PROVE WorkIsHeld'
    BY <1>0, <1>2 DEF Reap, Boot, Drained, StopHeartbeat, WorkOf, LiveWork, recVars
  <1>3. ASSUME NEW p \in Procs, ExitProc(p) \/ CrashProc(p) PROVE WorkIsHeld'
    <2>1. Killed(p) /\ \A q \in Procs \ {p} : pc'[q] = pc[q]
      BY <1>0, <1>3 DEF ExitProc, CrashProc, Exit, Crash
    <2>2. \A s \in Scans : LiveWork(s)' => LiveWork(s) /\ work'[s] = work[s] /\ work[s].in # p
      BY <2>1 DEF Killed, WorkOf, LiveWork
    <2> QED BY <2>1, <2>2
  <1>4. ASSUME NEW p \in Procs, NEW s \in AdHoc, RequestAdHoc(p, s) PROVE WorkIsHeld'
    BY <1>0, <1>4 DEF RequestAdHoc, LiveWork, lockVars
  <1>5. ASSUME NEW s \in Scans, StartScan(s) PROVE WorkIsHeld'
    BY <1>0, <1>5 DEF StartScan, LiveWork, Step, lockVars
  <1>6. ASSUME NEW s \in Scans,
               Progress(s) \/ FinishScan(s) \/ (s \in AdHoc /\ (MarkRunning(s) \/ FailAdHoc(s) \/ AttachScan(s) \/ SettleAdHoc(s)))
        PROVE  WorkIsHeld'
    <2>1. UNCHANGED pc /\ (LiveWork(s)' => LiveWork(s)) /\ work'[s].in = work[s].in
          /\ \A r \in Scans \ {s} : work'[r] = work[r]
      BY <1>0, <1>6 DEF Progress, FinishScan, MarkRunning, FailAdHoc, AttachScan, SettleAdHoc, Step, LiveWork, lockVars
    <2> QED BY <2>1 DEF LiveWork
  <1>7. CASE OutsiderDies
    <2>1. UNCHANGED pc /\ Killed(Outsider)
      BY <1>7 DEF OutsiderDies, lockVars
    <2> QED BY <1>0, <2>1 DEF Killed, WorkOf, LiveWork
  <1>8. CASE UNCHANGED vars
    BY <1>8 DEF vars, recVars, lockVars, LiveWork
  <1> QED BY <1>1, <1>2, <1>3, <1>4, <1>5, <1>6, <1>7, <1>8 DEF RecNext

\* A goroutine dies only with its process, and that is then the only one with a scheduler.
LEMMA NoZombiesStep ==
  ASSUME RecTypeOK, WorkIsHeld, OneScheduler, NoZombies, ~MayRunUnlocked, [RecNext]_vars
  PROVE  NoZombies'
  <1> USE RecoveryAssumption, LockAssumption
  <1>0. /\ work \in [Scans -> [in : Procs \cup {NoOne, Outsider}, at : Stage]]
        /\ pc \in [Procs -> Pcs] /\ scan \in [Scans -> Final \cup {"none", "running"}]
    BY DEF RecTypeOK, Stage, TypeOK
  <1> SUFFICES ASSUME NEW p \in Procs, pc'[p] = "running", NEW s \in Scans, scan'[s] = "running", work'[s].at = "dead"
               PROVE  FALSE
    BY DEF NoZombies
  <1>1. CASE LockStep
    <2>1. UNCHANGED recVars /\ (pc'[p] = "running" => pc[p] = "running")
      BY <1>0, <1>1 DEF LockStep, AgeRow, Acquire, Refused, GiveUp, JudgeDead, TakeOver, TakeOverFails, BootFails,
                  Shutdown, ReleaseRow, Beat
    <2> QED BY <2>1 DEF NoZombies, recVars
  <1>2. ASSUME NEW q \in Procs, Reap(q) PROVE FALSE
    BY <1>0, <1>2 DEF Reap, MarkScansFailed, Orphans
  <1>3. ASSUME NEW q \in Procs, Drained(q) PROVE FALSE
    BY <1>0, <1>3 DEF Drained, StopHeartbeat, NoZombies, recVars
  <1>4. ASSUME NEW q \in Procs, ExitProc(q) \/ CrashProc(q) PROVE FALSE
    <2>1. Killed(q) /\ scan' = scan /\ pc'[q] = "off" /\ p # q /\ pc[p] = "running"
      BY <1>0, <1>4 DEF ExitProc, CrashProc, Exit, Crash
    <2>2. work[s].at # "dead"
      BY <2>1 DEF NoZombies
    <2>3. LiveWork(s) /\ work[s].in = q
      BY <2>1, <2>2 DEF Killed, WorkOf
    <2>4. pc[q] \in Beating /\ pc[p] \in Beating
      BY <2>1, <2>3 DEF WorkIsHeld, Beating
    <2> QED BY <2>1, <2>4 DEF OneScheduler
  <1>5. ASSUME NEW q \in Procs, NEW r \in AdHoc, RequestAdHoc(q, r) PROVE FALSE
    BY <1>0, <1>5 DEF RequestAdHoc, NoZombies, lockVars
  <1>6. ASSUME NEW r \in Scans, StartScan(r) PROVE FALSE
    BY <1>0, <1>6 DEF StartScan, Step, NoZombies, lockVars
  <1>7. ASSUME NEW r \in Scans, Progress(r) \/ FinishScan(r) PROVE FALSE
    <2>1. UNCHANGED pc /\ work[r].at = "scanning" /\ work'[r].at # "dead"
          /\ \A q \in Scans \ {r} : work'[q] = work[q] /\ scan'[q] = scan[q]
      BY <1>0, <1>7 DEF Progress, FinishScan, Step, lockVars
    <2> QED BY <2>1 DEF NoZombies
  <1>8. ASSUME NEW r \in AdHoc, MarkRunning(r) \/ FailAdHoc(r) \/ AttachScan(r) \/ SettleAdHoc(r) PROVE FALSE
    BY <1>0, <1>8 DEF MarkRunning, FailAdHoc, AttachScan, SettleAdHoc, Step, NoZombies, lockVars
  <1>9. CASE OutsiderDies
    <2>1. \A r \in Scans : ~(LiveWork(r) /\ work[r].in = Outsider)
      BY DEF WorkIsHeld
    <2> QED BY <1>0, <1>9, <2>1 DEF OutsiderDies, WorkOf
  <1>10. CASE UNCHANGED vars
    BY <1>10 DEF vars, recVars, lockVars, NoZombies
  <1> QED BY <1>1, <1>2, <1>3, <1>4, <1>5, <1>6, <1>7, <1>8, <1>9, <1>10 DEF RecNext

\* With heartbeats in time, processes on distinct hosts, no scans outside of the lock and a Stop that waits for its
\* scans, a scheduler that is up finds no running row of a dead scan (docs/scheduling.md:376-377).
THEOREM NoZombiesHolds ==
  ASSUME Timely, \A p, q \in Procs : HostOf[p] = HostOf[q] => p = q, ~MayRunUnlocked, ~MayTimeOut
  PROVE  RecSpec => []NoZombies
  <1>1. RecInit => WorkIsHeld /\ NoZombies
    BY DEF RecInit, WorkIsHeld, LiveWork, NoZombies, Idle
  <1>2. RecTypeOK /\ WorkIsHeld /\ [RecNext]_vars => WorkIsHeld'
    BY WorkIsHeldStep
  <1>3. RecTypeOK /\ WorkIsHeld /\ OneScheduler /\ NoZombies /\ [RecNext]_vars => NoZombies'
    BY NoZombiesStep
  <1>4. RecSpec => []OneScheduler
    BY RecoveryImplementsLock, OneSchedulerAcrossHosts, PTL
  <1> QED BY <1>1, <1>2, <1>3, <1>4, RecoveryTypeCorrect, PTL DEF RecSpec

-----------------------------------------------------------------------------
(* Rows of scans that go on, and of scans that are over *)

\* A row says of its goroutine what it does, until the goroutine is over or dead.
RowsOfWork ==
  \A s \in Scans : /\ work[s].at = "scanning" => scan[s] = "running"
                   /\ work[s].at \in {"start", "requested", "marked"} => scan[s] = "none"

\* No one but its own goroutine changes the row of a scan that goes on, and none changes a final one.
LEMMA RowsStep ==
  ASSUME RecTypeOK, WorkIsHeld, OneScheduler, RowsOfWork, ~MayRunUnlocked, [RecNext]_vars
  PROVE  /\ RowsOfWork'
         /\ \A s \in Scans : work[s].at = "scanning" /\ work'[s].at = "scanning" => scan'[s] = scan[s]
         /\ \A s \in Scans : scan[s] \in Final => scan'[s] = scan[s]
  <1> USE RecoveryAssumption, LockAssumption
  <1> DEFINE RowsStay == \A s \in Scans : /\ work[s].at = "scanning" /\ work'[s].at = "scanning" => scan'[s] = scan[s]
                                          /\ scan[s] \in Final => scan'[s] = scan[s]
  <1>0. /\ work \in [Scans -> [in : Procs \cup {NoOne, Outsider}, at : Stage]]
        /\ pc \in [Procs -> Pcs] /\ scan \in [Scans -> Final \cup {"none", "running"}]
    BY DEF RecTypeOK, Stage, TypeOK
  <1> SUFFICES RowsOfWork' /\ RowsStay
    OBVIOUS
  <1>1. CASE UNCHANGED <<scan, work>>
    BY <1>1 DEF RowsOfWork
  <1>2. ASSUME NEW p \in Procs, Reap(p) PROVE RowsOfWork' /\ RowsStay
    <2>1. ASSUME NEW s \in Scans PROVE work[s].at # "scanning"
      <3> SUFFICES ASSUME work[s].at = "scanning" PROVE FALSE
        OBVIOUS
      <3>1. work[s].in \in Procs /\ pc[work[s].in] \in {"running", "draining"}
        BY DEF WorkIsHeld, LiveWork
      <3>2. pc[p] = "booted"
        BY <1>2 DEF Reap, Boot
      <3> QED BY <3>1, <3>2 DEF OneScheduler, Beating
    <2>2. \A s \in Scans : scan[s] # "running" => scan'[s] = scan[s]
      BY <1>2 DEF Reap, MarkScansFailed
    <2>3. work' = work
      BY <1>2 DEF Reap
    <2> QED BY <2>1, <2>2, <2>3 DEF RowsOfWork, Final
  <1>3. ASSUME NEW p \in Procs \cup {Outsider}, Killed(p), UNCHANGED scan PROVE RowsOfWork' /\ RowsStay
    <2>1. \A s \in Scans : work'[s] = work[s] \/ work'[s].at = "dead"
      BY <1>3 DEF Killed
    <2> QED BY <1>3, <2>1 DEF RowsOfWork
  <1>4. ASSUME NEW p \in Procs, NEW s \in AdHoc, RequestAdHoc(p, s) PROVE RowsOfWork' /\ RowsStay
    <2>1. scan' = scan /\ work[s].at = "start" /\ work'[s].at = "requested" /\ \A r \in Scans \ {s} : work'[r] = work[r]
      BY <1>0, <1>4 DEF RequestAdHoc, Idle
    <2> QED BY <2>1 DEF RowsOfWork
  <1>5. ASSUME NEW s \in Scans, StartScan(s) PROVE RowsOfWork' /\ RowsStay
    <2>1. /\ work[s].at \in {"start", "marked"} /\ work'[s].at = "scanning" /\ scan'[s] = "running"
          /\ \A r \in Scans \ {s} : work'[r] = work[r] /\ scan'[r] = scan[r]
      BY <1>0, <1>5 DEF StartScan, Step, Idle
    <2> QED BY <2>1 DEF RowsOfWork, Final
  <1>6. ASSUME NEW s \in Scans, Progress(s) PROVE RowsOfWork' /\ RowsStay
    BY <1>0, <1>6 DEF Progress, RowsOfWork, Final
  <1>7. ASSUME NEW s \in Scans, FinishScan(s) PROVE RowsOfWork' /\ RowsStay
    <2>1. /\ work[s].at = "scanning" /\ work'[s].at \in {"done", "succeeded", "errored"}
          /\ \A r \in Scans \ {s} : work'[r] = work[r] /\ scan'[r] = scan[r]
      BY <1>0, <1>7 DEF FinishScan, Step
    <2> QED BY <2>1 DEF RowsOfWork, Final
  <1>8. ASSUME NEW s \in AdHoc, MarkRunning(s) \/ FailAdHoc(s) \/ AttachScan(s) \/ SettleAdHoc(s)
        PROVE  RowsOfWork' /\ RowsStay
    <2>1. /\ scan' = scan
          /\ (work[s].at = "requested" /\ work'[s].at = "marked") \/ work'[s].at \in {"done", "linked"}
          /\ \A r \in Scans \ {s} : work'[r] = work[r]
      BY <1>0, <1>8 DEF MarkRunning, FailAdHoc, AttachScan, SettleAdHoc, Step
    <2> QED BY <2>1 DEF RowsOfWork
  <1> QED BY <1>1, <1>2, <1>3, <1>4, <1>5, <1>6, <1>7, <1>8
          DEF RecNext, LockStep, Drained, ExitProc, CrashProc, OutsiderDies, vars, recVars

\* Under the assumptions of NoZombiesHolds a reap fails no scan that goes on (zombie_reap.go:81-87).
THEOREM LiveScansKeptHolds ==
  ASSUME Timely, \A p, q \in Procs : HostOf[p] = HostOf[q] => p = q, ~MayRunUnlocked, ~MayTimeOut
  PROVE  RecSpec => LiveScansKept
  <1>1. RecInit => WorkIsHeld /\ RowsOfWork
    BY DEF RecInit, WorkIsHeld, LiveWork, RowsOfWork, Idle
  <1>2. RecTypeOK /\ WorkIsHeld /\ [RecNext]_vars => WorkIsHeld'
    BY WorkIsHeldStep
  <1>3. RecTypeOK /\ WorkIsHeld /\ OneScheduler /\ RowsOfWork /\ [RecNext]_vars
        => RowsOfWork' /\ [\A s \in Scans : work[s].at = "scanning" /\ work'[s].at = "scanning" => scan'[s] = scan[s]]_vars
    BY RowsStep
  <1>4. RecSpec => []OneScheduler
    BY RecoveryImplementsLock, OneSchedulerAcrossHosts, PTL
  <1> QED BY <1>1, <1>2, <1>3, <1>4, RecoveryTypeCorrect, PTL DEF RecSpec, LiveScansKept

\* Under the same assumptions a scan that is over is not reported as something else later.
THEOREM FinalRowsStayAcrossProcesses ==
  ASSUME Timely, \A p, q \in Procs : HostOf[p] = HostOf[q] => p = q, ~MayRunUnlocked, ~MayTimeOut
  PROVE  RecSpec => FinalStays
  <1>1. RecInit => WorkIsHeld /\ RowsOfWork
    BY DEF RecInit, WorkIsHeld, LiveWork, RowsOfWork, Idle
  <1>2. RecTypeOK /\ WorkIsHeld /\ [RecNext]_vars => WorkIsHeld'
    BY WorkIsHeldStep
  <1>3. RecTypeOK /\ WorkIsHeld /\ OneScheduler /\ RowsOfWork /\ [RecNext]_vars
        => RowsOfWork' /\ [\A s \in Scans : scan[s] \in Final => scan'[s] = scan[s]]_vars
    BY RowsStep
  <1>4. RecSpec => []OneScheduler
    BY RecoveryImplementsLock, OneSchedulerAcrossHosts, PTL
  <1> QED BY <1>1, <1>2, <1>3, <1>4, RecoveryTypeCorrect, PTL DEF RecSpec, FinalStays

-----------------------------------------------------------------------------
(* The inside of a process *)

\* How far everything in the process is.
RunnerSteps ==
  /\ main \in {"boot", "up", "draining", "stopping", "releasing", "exited"}
  /\ asked \in {"no", "signal", "server", "panic"} /\ stopCtx \in BOOLEAN
  /\ loop \in {"none", "idle", "load", "save", "last load", "last save", "await", "done"}
  /\ sched \in {"none", "running", "draining", "panicked", "noting", "calling", "sleeping", "done"}
  /\ lock \in {"held", "released", "left"} /\ exit \in 0..2

\* What its goroutines have loaded, and the state file.
CopyTyped == copy \in [{"loop", "sched"} -> BOOLEAN]
FileTyped == file \in [error : BOOLEAN, age : 0..(Stale + 1)]

\* Whatever the goroutines of the process do in whatever order, each keeps to its own steps.
LEMMA RunnerTypeStep == RunnerTypeOK /\ [RunnerNext]_runVars => RunnerTypeOK'
<1>1. SUFFICES ASSUME RunnerTypeOK, [RunnerNext]_runVars PROVE RunnerTypeOK'
  OBVIOUS
<1>2. RunnerSteps /\ CopyTyped /\ FileTyped
  BY <1>1 DEF RunnerTypeOK, RunnerSteps, CopyTyped, FileTyped
<1>3. Stale \in Nat /\ 0 \in 0..(Stale + 1)
  BY RunnerAssumption
<1>4. file.error \in BOOLEAN /\ \A w \in {"loop", "sched"} : copy[w] \in BOOLEAN
  BY <1>2 DEF CopyTyped, FileTyped
<1>5. ASSUME NEW error \in BOOLEAN, Save(error) PROVE FileTyped'
  BY <1>2, <1>3, <1>5 DEF Save, FileTyped
<1>6. RunnerSteps'
  <2>1. CASE Main
    BY <1>2, <2>1 DEF RunnerSteps, Main, StartRunner, SeeAsked, DrainHttp, StopReturns, Release
  <2>2. CASE LoopSteps
    BY <1>2, <2>2 DEF RunnerSteps, LoopSteps, SeeStopCtx, LoadState, SaveState, AwaitSched
  <2>3. CASE NoteLoad \/ NoteSave \/ CallBack
    BY <1>2, <2>3 DEF RunnerSteps, NoteLoad, NoteSave, CallBack
  <2>4. CASE AskStop \/ Heartbeat \/ DrainSched
    BY <1>2, <2>4 DEF RunnerSteps, AskStop, Heartbeat, DrainSched
  <2>5. CASE Panic \/ Age \/ UNCHANGED runVars
    BY <1>2, <2>5 DEF RunnerSteps, Panic, Age, runVars
  <2>6. CASE PanicExit \/ Abort
    <3>1. main' = "exited" /\ exit' \in 0..2 /\ UNCHANGED <<asked, stopCtx, loop, sched, lock>>
      BY <2>6 DEF PanicExit, Abort
    <3>2. QED
      BY <1>2, <3>1 DEF RunnerSteps
  <2>7. QED
    BY <1>1, <2>1, <2>2, <2>3, <2>4, <2>5, <2>6 DEF RunnerNext, Supervisor
<1>7. CopyTyped'
  <2>1. CASE LoadState \/ NoteLoad
    BY <1>2, <1>4, <2>1 DEF CopyTyped, LoadState, NoteLoad
  <2>2. CASE UNCHANGED copy
    BY <1>2, <2>2 DEF CopyTyped
  <2>3. QED
    BY <1>1, <2>1, <2>2
    DEF RunnerNext, Main, StartRunner, SeeAsked, DrainHttp, StopReturns, Release, LoopSteps, SeeStopCtx, SaveState,
        AwaitSched, Supervisor, NoteSave, CallBack, PanicExit, AskStop, Heartbeat, DrainSched, Panic, Abort, Age, runVars
<1>8. FileTyped'
  <2>1. CASE StartRunner \/ SaveState \/ NoteSave
    BY <1>4, <1>5, <2>1 DEF StartRunner, SaveState, NoteSave
  <2>2. CASE Age
    <3>1. file.age \in 0..(Stale + 1) /\ file.age <= Stale
      BY <1>2, <2>2 DEF Age, FileTyped
    <3>2. file.age + 1 \in 0..(Stale + 1)
      BY <1>3, <3>1
    <3>3. QED
      BY <1>2, <2>2, <3>2 DEF Age, FileTyped
  <2>3. CASE UNCHANGED file
    BY <1>2, <2>3 DEF FileTyped
  <2>4. QED
    BY <1>1, <2>1, <2>2, <2>3
    DEF RunnerNext, Main, SeeAsked, DrainHttp, StopReturns, Release, LoopSteps, SeeStopCtx, LoadState,
        AwaitSched, Supervisor, NoteLoad, CallBack, PanicExit, AskStop, Heartbeat, DrainSched, Panic, Abort, runVars
<1>9. QED
  BY <1>6, <1>7, <1>8 DEF RunnerTypeOK, RunnerSteps, CopyTyped, FileTyped

-----------------------------------------------------------------------------
(* The port scanner *)

\* The goroutines that are counted in inflight.
Counted == {p \in ProbeIds : at[p] \in {"undo"} \cup Admitted}

\* PortTypeOK but for the count, which the goroutines themselves bound.
PortTypes ==
  /\ next \in 1..(Probes + 1) /\ alive \in BOOLEAN /\ at \in [ProbeIds -> Steps] /\ limit \in [ProbeIds -> 0..Rate]
  /\ cap \in 1..Rate
  /\ ring \in Seq(BOOLEAN) /\ Len(ring) <= Window /\ halvings \in Nat
  /\ outcome \in [ProbeIds -> ProbeOutcomes] /\ cancelled \in BOOLEAN /\ returned \in BOOLEAN

\* The loop has come past every probe that was begun, and past another one only if the scan is cancelled; what is over
\* has an outcome.
Begun ==
  /\ alive => next <= Probes
  /\ \A p \in ProbeIds : p >= next => at[p] = "none"
  /\ \A p \in ProbeIds : at[p] = "none" => p >= next \/ cancelled
  /\ \A p \in ProbeIds : at[p] = "over" <=> outcome[p] # "none"
  /\ returned => next > Probes /\ Tokens = {}

\* The inductive invariant of the scanner.
PortInv == PortTypes /\ inflight = Cardinality(Counted) /\ Begun

\* The numbers that the scanner is set up with.
LEMMA PortConstants ==
  /\ Probes \in Nat /\ Rate \in Nat /\ Rate >= 1 /\ RetryCap \in Nat /\ Window \in Nat /\ Window >= 1
  /\ Floor \in Nat /\ Floor >= 1
  BY PortScanAssumption

\* No more goroutines are counted than there are probes.
LEMMA CountedFinite ==
  IsFiniteSet(Counted) /\ Cardinality(Counted) \in 0..Probes
<1>1. IsFiniteSet(1..Probes) /\ Cardinality(1..Probes) = Probes
  BY PortConstants, FS_Interval
<1>2. Counted \in SUBSET (1..Probes)
  BY DEF Counted, ProbeIds
<1>3. IsFiniteSet(Counted) /\ Cardinality(Counted) <= Cardinality(1..Probes)
  BY <1>1, <1>2, FS_Subset
<1>4. QED
  BY <1>1, <1>3, FS_CardinalityType, PortConstants

\* The same after a step.
LEMMA CountedFiniteNext == IsFiniteSet(Counted') /\ Cardinality(Counted') \in Nat
<1>1. IsFiniteSet(1..Probes)
  BY PortConstants, FS_Interval
<1>2. Counted' \in SUBSET (1..Probes)
  BY DEF Counted, ProbeIds
<1>3. QED
  BY <1>1, <1>2, FS_Subset, FS_CardinalityType

\* The count of a set of goroutines when one joins or leaves it.
LEMMA CountMoves ==
  ASSUME NEW p \in ProbeIds
  PROVE  /\ p \notin Counted => Cardinality(Counted \cup {p}) = Cardinality(Counted) + 1
         /\ p \in Counted => Cardinality(Counted \ {p}) = Cardinality(Counted) - 1
  BY CountedFinite, FS_AddElement, FS_RemoveElement

\* Nothing is counted before the first probe.
LEMMA PortInitInv == PortInit => PortInv
<1>1. SUFFICES ASSUME PortInit PROVE PortInv
  OBVIOUS
<1>2. PortTypes
  <2>1. at \in [ProbeIds -> Steps] /\ outcome \in [ProbeIds -> ProbeOutcomes] /\ limit \in [ProbeIds -> 0..Rate]
    BY <1>1, PortConstants DEF PortInit, Steps, ProbeOutcomes
  <2>2. next \in 1..(Probes + 1) /\ cap \in 1..Rate
    BY <1>1, PortConstants DEF PortInit
  <2>3. ring \in Seq(BOOLEAN) /\ Len(ring) <= Window
    <3>1. ring = <<>> /\ Len(<<>>) = 0
      BY <1>1 DEF PortInit
    <3>2. QED
      BY <3>1, PortConstants
  <2>4. QED
    BY <1>1, <2>1, <2>2, <2>3 DEF PortInit, PortTypes
<1>3. Counted = {} /\ Begun
  BY <1>1, PortConstants DEF PortInit, Counted, Admitted, ProbeIds, Begun
<1>4. QED
  BY <1>1, <1>2, <1>3, FS_EmptySet DEF PortInit, PortInv

\* The breaker keeps its ring within the window and its cap between the floor and the rate.
LEMMA BreakerTypes ==
  ASSUME PortTypes, NEW timedOut \in BOOLEAN, RecordResult(timedOut)
  PROVE  ring' \in Seq(BOOLEAN) /\ Len(ring') <= Window /\ cap' \in 1..Rate /\ halvings' \in Nat
<1>1. ring \in Seq(BOOLEAN) /\ Len(ring) <= Window /\ Len(ring) \in Nat /\ cap \in 1..Rate /\ halvings \in Nat
  BY DEF PortTypes
<1>2. PICK full : full = IF Len(ring) = Window THEN Tail(ring) ELSE ring
  OBVIOUS
<1>3. full \in Seq(BOOLEAN) /\ Len(full) \in Nat /\ Len(full) < Window
  <2>1. CASE Len(ring) = Window
    <3>1. ring # <<>>
      BY <1>1, <2>1, PortConstants
    <3>2. Tail(ring) \in Seq(BOOLEAN) /\ Len(Tail(ring)) = Len(ring) - 1
      BY <1>1, <3>1
    <3>3. QED
      BY <1>1, <1>2, <2>1, <3>2, PortConstants
  <2>2. CASE Len(ring) # Window
    BY <1>1, <1>2, <2>2, PortConstants
  <2>3. QED
    BY <2>1, <2>2
<1>4. PICK r : r = Append(full, timedOut)
  OBVIOUS
<1>5. r \in Seq(BOOLEAN) /\ Len(r) = Len(full) + 1
  BY <1>3, <1>4
<1>6. Len(r) <= Window
  BY <1>3, <1>5, PortConstants
<1>7. /\ ring' = r /\ cap' = (IF Halves(r) THEN Halved ELSE IF Restores(r) THEN Rate ELSE cap)
      /\ halvings' = (IF Halves(r) THEN halvings + 1 ELSE halvings)
  BY <1>2, <1>4, Zenon DEF RecordResult
<1>8. Halves(r) => Halved \in 1..Rate
  <2>1. SUFFICES ASSUME cap > Floor PROVE Halved \in 1..Rate
    BY DEF Halves
  <2>2. cap \div 2 \in Nat /\ cap \div 2 <= cap
    BY <1>1
  <2>3. QED
    BY <1>1, <2>1, <2>2, PortConstants DEF Halved
<1>9. Rate \in 1..Rate
  BY PortConstants
<1>10. cap' \in 1..Rate /\ halvings' \in Nat
  BY <1>1, <1>7, <1>8, <1>9
<1>11. QED
  BY <1>5, <1>6, <1>7, <1>10

\* The loop.
LEMMA LoopKeeps ==
  ASSUME PortInv, Loop \/ CancelScan \/ UNCHANGED portVars
  PROVE  PortInv'
<1>1. PortTypes /\ Begun /\ inflight = Cardinality(Counted)
  BY DEF PortInv
<1>2. CASE Spawn
  <2>1. next \in ProbeIds /\ next + 1 \in 1..(Probes + 1) /\ at' = [at EXCEPT ![next] = "waiting"] /\ at[next] = "none"
    BY <1>1, <1>2, PortConstants DEF Spawn, Go, PortTypes, Begun, ProbeIds
  <2>2. PortTypes'
    BY <1>1, <1>2, <2>1 DEF PortTypes, Spawn, Steps
  <2>3. Counted' = Counted
    BY <1>1, <2>1 DEF Counted, Admitted, PortTypes
  <2>4. Begun'
    <3>1. ~returned
      BY <1>1, <2>1, PortConstants DEF Begun, ProbeIds, PortTypes
    <3>2. \A p \in ProbeIds : p >= next + 1 => p >= next /\ p # next
      BY <2>1 DEF ProbeIds
    <3>3. \A p \in ProbeIds : p >= next => p = next \/ p >= next + 1
      BY <2>1 DEF ProbeIds
    <3>4. at[next] # "over" /\ at'[next] = "waiting" /\ \A p \in ProbeIds \ {next} : at'[p] = at[p]
      BY <1>1, <2>1 DEF PortTypes
    <3>5. next' = next + 1 /\ alive' = FALSE /\ UNCHANGED <<outcome, cancelled, returned>>
      BY <1>2 DEF Spawn
    <3>6. QED
      BY <1>1, <3>1, <3>2, <3>3, <3>4, <3>5 DEF Begun
  <2>5. QED
    BY <1>1, <1>2, <2>2, <2>3, <2>4 DEF PortInv, Spawn
<1>3. CASE CheckCtx \/ BreakOff \/ Return \/ CancelScan \/ UNCHANGED portVars
  <2>1. UNCHANGED <<at, limit, inflight, cap, ring, halvings, outcome>>
    BY <1>3 DEF CheckCtx, BreakOff, Return, CancelScan, portVars
  <2>2. Counted' = Counted /\ Tokens' = Tokens
    BY <2>1 DEF Counted, Tokens
  <2>3. PortTypes'
    <3>1. next' \in 1..(Probes + 1) /\ alive' \in BOOLEAN /\ cancelled' \in BOOLEAN /\ returned' \in BOOLEAN
      <4>1. Probes + 1 \in 1..(Probes + 1)
        BY PortConstants
      <4>2. /\ next' \in {next, Probes + 1} /\ alive' \in {alive, TRUE}
            /\ cancelled' \in {cancelled, TRUE} /\ returned' \in {returned, TRUE}
        BY <1>3 DEF CheckCtx, BreakOff, Return, CancelScan, portVars
      <4>3. next \in 1..(Probes + 1) /\ alive \in BOOLEAN /\ cancelled \in BOOLEAN /\ returned \in BOOLEAN
        BY <1>1 DEF PortTypes
      <4>4. QED
        BY <4>1, <4>2, <4>3
    <3>2. QED
      BY <1>1, <2>1, <3>1 DEF PortTypes
  <2>4. Begun'
    <3>1. CASE BreakOff
      <4>1. \A p \in ProbeIds : ~(p >= Probes + 1)
        BY PortConstants DEF ProbeIds
      <4>2. ~returned
        BY <1>1, <3>1, PortConstants DEF Begun, BreakOff, PortTypes
      <4>3. QED
        BY <1>1, <2>1, <3>1, <4>1, <4>2 DEF Begun, BreakOff
    <3>2. CASE CheckCtx \/ Return \/ CancelScan \/ UNCHANGED portVars
      BY <1>1, <2>1, <2>2, <3>2 DEF Begun, CheckCtx, Return, CancelScan, portVars
    <3>3. QED
      BY <1>3, <3>1, <3>2
  <2>5. QED
    BY <1>1, <2>1, <2>2, <2>3, <2>4 DEF PortInv
<1>4. QED
  BY <1>2, <1>3 DEF Loop

\* A goroutine moves on: it is counted as inflight says, and its outcome is recorded when it is over.
LEMMA GoroutineMoves ==
  ASSUME PortInv, NEW p \in ProbeIds, NEW where \in Steps \ {"none"}, at[p] \notin {"none", "over"}, Go(p, where),
         UNCHANGED <<next, alive, cancelled, returned>>,
         inflight' = IF p \in Counted
                     THEN IF where \in {"undo"} \cup Admitted THEN inflight ELSE inflight - 1
                     ELSE IF where \in {"undo"} \cup Admitted THEN inflight + 1 ELSE inflight,
         IF where = "over" THEN \E o \in ProbeOutcomes \ {"none"} : outcome' = [outcome EXCEPT ![p] = o]
                           ELSE outcome' = outcome
  PROVE  inflight' = Cardinality(Counted') /\ Begun' /\ at' \in [ProbeIds -> Steps] /\ outcome' \in [ProbeIds -> ProbeOutcomes]
<1>1. PortTypes /\ Begun /\ inflight = Cardinality(Counted)
  BY DEF PortInv
<1>2. /\ at \in [ProbeIds -> Steps] /\ at' = [at EXCEPT ![p] = where] /\ outcome \in [ProbeIds -> ProbeOutcomes]
      /\ \A q \in ProbeIds \ {p} : at'[q] = at[q] /\ outcome'[q] = outcome[q]
  BY <1>1 DEF PortTypes, Go
<1>3. at'[p] = where /\ at' \in [ProbeIds -> Steps] /\ outcome' \in [ProbeIds -> ProbeOutcomes]
  BY <1>2
<1>4. inflight' = Cardinality(Counted')
  <2>1. CASE where \in {"undo"} \cup Admitted
    <3>1. Counted' = Counted \cup {p}
      BY <1>2, <1>3, <2>1 DEF Counted
    <3>2. p \in Counted => Counted \cup {p} = Counted
      OBVIOUS
    <3>3. QED
      BY <1>1, <2>1, <3>1, <3>2, CountMoves
  <2>2. CASE where \notin {"undo"} \cup Admitted
    <3>1. Counted' = Counted \ {p}
      BY <1>2, <1>3, <2>2 DEF Counted
    <3>2. p \notin Counted => Counted \ {p} = Counted
      OBVIOUS
    <3>3. QED
      BY <1>1, <2>2, <3>1, <3>2, CountMoves
  <2>3. QED
    BY <2>1, <2>2
<1>5. Begun'
  <2>1. p \in Tokens
    BY DEF Tokens
  <2>2. ~returned /\ ~(p >= next)
    BY <1>1, <2>1 DEF Begun
  <2>3. at'[p] = "over" <=> outcome'[p] # "none"
    BY <1>1, <1>2, <1>3 DEF Begun
  <2>4. QED
    BY <1>1, <1>2, <1>3, <2>2, <2>3 DEF Begun
<1>6. QED
  BY <1>3, <1>4, <1>5

\* A goroutine that has dialled leaves the count once, with an outcome.
LEMMA SettleKeeps ==
  ASSUME PortInv, NEW p \in ProbeIds, NEW o \in DialOutcomes, at[p] \in Admitted, Settle(p, o),
         UNCHANGED <<next, alive, limit, cancelled, returned>>
  PROVE  PortInv'
<1>1. p \in Counted
  BY DEF Counted
<1>2. o \in ProbeOutcomes \ {"none"}
  BY DEF DialOutcomes, ProbeOutcomes
<1>3. "over" \in Steps \ {"none"} /\ "over" \notin {"undo"} \cup Admitted /\ at[p] \notin {"none", "over"}
  BY DEF Steps, Admitted
<1>4. Go(p, "over") /\ outcome' = [outcome EXCEPT ![p] = o] /\ inflight' = inflight - 1 /\ RecordResult(o = "timeout")
  BY DEF Settle
<1>5. inflight' = Cardinality(Counted') /\ Begun' /\ at' \in [ProbeIds -> Steps] /\ outcome' \in [ProbeIds -> ProbeOutcomes]
  BY <1>1, <1>2, <1>3, <1>4, GoroutineMoves
<1>6. PortTypes
  BY DEF PortInv
<1>7. ring' \in Seq(BOOLEAN) /\ Len(ring') <= Window /\ cap' \in 1..Rate /\ halvings' \in Nat
  BY <1>4, <1>6, BreakerTypes
<1>8. QED
  BY <1>5, <1>6, <1>7 DEF PortInv, PortTypes

\* Every step of a goroutine keeps the count.
LEMMA GoroutineKeeps ==
  ASSUME PortInv, NEW p \in ProbeIds, Goroutine(p)
  PROVE  PortInv'
<1>1. PortTypes
  BY DEF PortInv
<1>2. {"waiting", "adding", "undo", "dialing", "retry", "redialing", "over"} \subseteq Steps \ {"none"}
  BY DEF Steps
<1>3. CASE ReadCap(p)
  <2>1. at[p] = "waiting" /\ Go(p, "adding") /\ inflight' = inflight /\ outcome' = outcome /\ p \notin Counted
    BY <1>3 DEF ReadCap, Counted, Admitted
  <2>2. UNCHANGED <<next, alive, cancelled, returned, cap, ring, halvings>> /\ limit' = [limit EXCEPT ![p] = cap]
    BY <1>3 DEF ReadCap
  <2>3. inflight' = Cardinality(Counted') /\ Begun' /\ at' \in [ProbeIds -> Steps] /\ outcome' \in [ProbeIds -> ProbeOutcomes]
    <3>1. "adding" \notin {"undo"} \cup Admitted
      BY DEF Admitted
    <3>2. QED
      BY <1>2, <2>1, <2>2, <3>1, GoroutineMoves
  <2>4. cap \in 0..Rate
    BY <1>1, PortConstants DEF PortTypes
  <2>5. QED
    BY <1>1, <2>2, <2>3, <2>4 DEF PortInv, PortTypes
<1>4. CASE Add(p)
  <2>1. at[p] = "adding" /\ inflight' = inflight + 1 /\ outcome' = outcome /\ p \notin Counted
        /\ UNCHANGED <<next, alive, cancelled, returned, cap, ring, halvings, limit>>
    BY <1>4 DEF Add, Counted, Admitted
  <2>2. PICK where \in {"dialing", "undo"} : Go(p, where)
    BY <1>4 DEF Add
  <2>3. where \in {"undo"} \cup Admitted /\ where # "over" /\ where \in Steps \ {"none"}
    BY <1>2 DEF Admitted
  <2>4. inflight' = Cardinality(Counted') /\ Begun' /\ at' \in [ProbeIds -> Steps] /\ outcome' \in [ProbeIds -> ProbeOutcomes]
    BY <2>1, <2>2, <2>3, GoroutineMoves
  <2>5. QED
    BY <1>1, <2>1, <2>4 DEF PortInv, PortTypes
<1>5. CASE Undo(p)
  <2>1. at[p] = "undo" /\ inflight' = inflight - 1 /\ p \in Counted
        /\ UNCHANGED <<next, alive, cancelled, returned, cap, ring, halvings, limit>>
    BY <1>5 DEF Undo, Counted
  <2>2. PICK where \in {"waiting", "over"} :
          Go(p, where) /\ outcome' = IF where = "over" THEN [outcome EXCEPT ![p] = "given up"] ELSE outcome
    BY <1>5 DEF Undo
  <2>3. where \notin {"undo"} \cup Admitted /\ where \in Steps \ {"none"} /\ "given up" \in ProbeOutcomes \ {"none"}
    BY <1>2 DEF Admitted, ProbeOutcomes
  <2>4. inflight' = Cardinality(Counted') /\ Begun' /\ at' \in [ProbeIds -> Steps] /\ outcome' \in [ProbeIds -> ProbeOutcomes]
    BY <2>1, <2>2, <2>3, GoroutineMoves
  <2>5. QED
    BY <1>1, <2>1, <2>4 DEF PortInv, PortTypes
<1>6. CASE Dial(p)
  <2>1. UNCHANGED <<next, alive, limit, cancelled, returned>> /\ at[p] = "dialing" /\ at[p] \in Admitted /\ p \in Counted
    BY <1>6 DEF Dial, Counted, Admitted
  <2>2. CASE Go(p, "retry") /\ UNCHANGED <<inflight, cap, ring, halvings, outcome>>
    <3>1. "retry" \in {"undo"} \cup Admitted
      BY DEF Admitted
    <3>2. inflight' = Cardinality(Counted') /\ Begun' /\ at' \in [ProbeIds -> Steps] /\ outcome' \in [ProbeIds -> ProbeOutcomes]
      BY <1>2, <2>1, <2>2, <3>1, GoroutineMoves
    <3>3. QED
      BY <1>1, <2>1, <2>2, <3>2 DEF PortInv, PortTypes
  <2>3. CASE \E o \in DialOutcomes : Settle(p, o)
    BY <2>1, <2>3, SettleKeeps
  <2>4. QED
    BY <1>6, <2>2, <2>3 DEF Dial, DialOutcomes
<1>7. CASE Retry(p)
  <2>1. at[p] = "retry" /\ Go(p, "redialing") /\ inflight' = inflight /\ outcome' = outcome /\ p \in Counted
        /\ UNCHANGED <<next, alive, cancelled, returned, cap, ring, halvings, limit>>
    BY <1>7 DEF Retry, Counted, Admitted
  <2>2. "redialing" \in {"undo"} \cup Admitted
    BY DEF Admitted
  <2>3. inflight' = Cardinality(Counted') /\ Begun' /\ at' \in [ProbeIds -> Steps] /\ outcome' \in [ProbeIds -> ProbeOutcomes]
    BY <1>2, <2>1, <2>2, GoroutineMoves
  <2>4. QED
    BY <1>1, <2>1, <2>3 DEF PortInv, PortTypes
<1>8. CASE Redial(p)
  <2>1. UNCHANGED <<next, alive, limit, cancelled, returned>> /\ at[p] \in Admitted
    BY <1>8 DEF Redial, Admitted
  <2>2. PICK o \in DialOutcomes : Settle(p, o)
    BY <1>8 DEF Redial, DialOutcomes
  <2>3. QED
    BY <2>1, <2>2, SettleKeeps
<1>9. QED
  BY <1>3, <1>4, <1>5, <1>6, <1>7, <1>8 DEF Goroutine

\* So does every step of the scanner.
LEMMA PortStep == PortInv /\ [PortNext]_portVars => PortInv'
  BY LoopKeeps, GoroutineKeeps DEF PortNext

\* It is typed.
LEMMA PortInvTyped == PortInv => PortTypeOK
  BY CountedFinite DEF PortInv, PortTypes, PortTypeOK

\* When the scanner has returned, every slot of the breaker is given back, and every probe has an outcome unless the
\* scan was cancelled before it began: what RunReturns promises, without that it returns.
NothingPending ==
  returned => inflight = 0 /\ \A p \in ProbeIds : outcome[p] # "none" \/ (cancelled /\ at[p] = "none")

\* A port scan that returns has left the breaker empty, and has an outcome for every probe that was not cancelled
\* before it began, whichever goroutines collided, timed out or waited for a retry (naabu.go:224-395, breaker.go).
THEOREM ScannerSettles == PortSpec => []NothingPending
<1>1. PortInv => NothingPending
  <2>1. SUFFICES ASSUME PortInv, returned PROVE NothingPending
    BY DEF NothingPending
  <2>2. next > Probes /\ Tokens = {} /\ Begun /\ at \in [ProbeIds -> Steps] /\ next \in Nat
    BY <2>1, PortConstants DEF PortInv, Begun, PortTypes
  <2>3. \A p \in ProbeIds : at[p] \in {"none", "over"}
    BY <2>2 DEF Tokens
  <2>4. Counted = {}
    BY <2>3 DEF Counted, Admitted
  <2>5. inflight = 0
    BY <2>1, <2>4, FS_EmptySet DEF PortInv
  <2>6. \A p \in ProbeIds : ~(p >= next)
    BY <2>2, PortConstants DEF ProbeIds
  <2>7. QED
    BY <2>2, <2>3, <2>5, <2>6 DEF Begun, NothingPending
<1>2. QED
  BY <1>1, PortInitInv, PortStep, PTL DEF PortSpec

\* A probe is let through to its dial only while the dials, its own included, are no more than the cap that its goroutine
\* has read, however admissions collide and whatever the breaker makes of the cap meanwhile (tryAdmit in breaker.go).
AdmitsWithinCap ==
  [][\A p \in ProbeIds : at[p] = "adding" /\ at'[p] = "dialing"
       => Cardinality({q \in ProbeIds : at'[q] \in Admitted}) <= limit[p]]_portVars

\* The breaker's cap limits the dials for any number of probes, any rate and any window.
THEOREM AdmissionsHold == PortSpec => AdmitsWithinCap
<1>1. ASSUME PortInv, PortInv', [PortNext]_portVars, NEW p \in ProbeIds, at[p] = "adding", at'[p] = "dialing"
      PROVE  Cardinality({q \in ProbeIds : at'[q] \in Admitted}) <= limit[p]
  <2>1. Add(p)
    <3>1. /\ at \in [ProbeIds -> Steps]
          /\ ~UNCHANGED at
      BY <1>1 DEF PortInv, PortTypes
    <3>2. ASSUME NEW q \in ProbeIds, NEW where, at' = [at EXCEPT ![q] = where] PROVE q = p /\ where = "dialing"
      BY <1>1, <3>1, <3>2
    <3>3. PICK q \in ProbeIds : Goroutine(q)
      <4>1. ~(CheckCtx \/ BreakOff \/ Return \/ CancelScan \/ UNCHANGED portVars)
        BY <3>1 DEF CheckCtx, BreakOff, Return, CancelScan, portVars
      <4>2. ~Spawn
        <5>1. ASSUME Spawn PROVE next \in ProbeIds
          BY <1>1, <5>1, PortConstants DEF Spawn, PortInv, PortTypes, Begun, ProbeIds
        <5>2. QED
          BY <3>2, <5>1 DEF Spawn, Go
      <4>3. QED
        BY <1>1, <4>1, <4>2 DEF PortNext, Loop
    <3>4. ASSUME NEW where \in {"adding", "waiting", "retry", "redialing", "over"}, Go(q, where) PROVE FALSE
      BY <3>2, <3>4 DEF Go
    <3>5. ~(ReadCap(q) \/ Undo(q) \/ Retry(q) \/ Dial(q) \/ Redial(q))
      BY <3>4 DEF ReadCap, Undo, Retry, Dial, Redial, Settle
    <3>6. Add(q) /\ q = p
      BY <3>2, <3>3, <3>5 DEF Goroutine, Add, Go
    <3>7. QED
      BY <3>6
  <2>2. inflight' = inflight + 1 /\ inflight + 1 <= limit[p]
    <3>1. at' = [at EXCEPT ![p] = IF inflight + 1 <= limit[p] THEN "dialing" ELSE "undo"] /\ inflight' = inflight + 1
      BY <2>1 DEF Add, Go
    <3>2. at \in [ProbeIds -> Steps]
      BY <1>1 DEF PortInv, PortTypes
    <3>3. QED
      BY <1>1, <3>1, <3>2
  <2>3. PICK dialing : dialing = {q \in ProbeIds : at'[q] \in Admitted}
    OBVIOUS
  <2>4. inflight' = Cardinality(Counted') /\ dialing \subseteq Counted'
    BY <1>1, <2>3 DEF PortInv, Counted
  <2>5. IsFiniteSet(Counted') /\ Cardinality(Counted') \in Nat
    BY CountedFiniteNext
  <2>6. IsFiniteSet(dialing) /\ Cardinality(dialing) <= Cardinality(Counted')
    BY <2>4, <2>5, FS_Subset
  <2>7. Cardinality(dialing) \in Nat /\ inflight \in Nat /\ limit[p] \in Nat
    <3>1. Cardinality(Counted) \in 0..Probes
      BY CountedFinite
    <3>2. inflight \in Nat /\ limit[p] \in Nat
      BY <1>1, <3>1, PortConstants DEF PortInv, PortTypes
    <3>3. QED
      BY <2>6, <3>2, FS_CardinalityType
  <2>8. QED
    BY <2>2, <2>3, <2>4, <2>5, <2>6, <2>7
<1>2. PortInv /\ PortInv' /\ [PortNext]_portVars
      => \A p \in ProbeIds : at[p] = "adding" /\ at'[p] = "dialing"
           => Cardinality({q \in ProbeIds : at'[q] \in Admitted}) <= limit[p]
  BY <1>1
<1>3. QED
  BY <1>2, PortInitInv, PortStep, PTL DEF PortSpec, AdmitsWithinCap

-----------------------------------------------------------------------------
(* The parts together *)

\* A step of one part is a step of it, and a stutter of the others.
LEMMA ProcStep ==
  ASSUME [ProcNext]_procVars
  PROVE  [RecNext]_vars /\ [RunnerNext]_runVars /\ [PortNext]_portVars
  BY DEF ProcNext, InRecovery, InRunner, InPorts, procVars

\* Each behaviour of the composition is one of its parts', so what is proved of a part holds of it.
THEOREM ProcPartsAreBehaviours == ProcLiveSpec => RecSpec /\ PortSpec
<1>1. ProcInit => RecInit /\ PortInit
  BY DEF ProcInit
<1>2. QED
  BY <1>1, ProcStep, PTL DEF ProcLiveSpec, RecSpec, PortSpec

\* Every part of a process is well typed, whichever of them a behaviour is about.
THEOREM ProcTypeCorrect == ProcLiveSpec => []ProcTypeOK
<1>1. ProcInit => RecInit /\ RunnerTypeOK /\ PortInv
  <2>1. SUFFICES ASSUME ProcInit PROVE RunnerTypeOK
    BY PortInitInv DEF ProcInit
  <2>2. 0 \in 0..(Stale + 1) /\ Stale + 1 \in 0..(Stale + 1)
    BY RunnerAssumption
  <2>3. QED
    <3>1. RunnerSteps /\ CopyTyped
      <4>1. /\ main = "boot" /\ asked = "no" /\ stopCtx = FALSE /\ loop = "none" /\ sched = "none" /\ lock = "held"
            /\ exit = 0 /\ copy = [w \in {"loop", "sched"} |-> FALSE]
        BY <2>1 DEF ProcInit, RunnerInit
      <4>2. 0 \in 0..2
        OBVIOUS
      <4>3. QED
        BY <4>1, <4>2 DEF RunnerSteps, CopyTyped
    <3>2. FileTyped
      BY <2>1, <2>2 DEF ProcInit, RunnerInit, FileTyped
    <3>3. QED
      BY <3>1, <3>2 DEF RunnerTypeOK, RunnerSteps, CopyTyped, FileTyped
<1>2. ProcLiveSpec => []PortInv /\ []RunnerTypeOK
  BY <1>1, ProcStep, PortStep, RunnerTypeStep, PTL DEF ProcLiveSpec
<1>3. QED
  BY <1>2, ProcPartsAreBehaviours, PortInvTyped, RecoveryTypeCorrect, PTL DEF ProcTypeOK
=============================================================================
