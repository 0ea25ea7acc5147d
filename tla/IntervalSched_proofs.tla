------------------------ MODULE IntervalSched_proofs ------------------------
(***************************************************************************)
(* Proofs about IntervalSched for every set of schedules, ad-hoc runs,     *)
(* targets and workers, every blackout and recurrence rule: the state is   *)
(* well typed, a target never has two jobs, and a lock is held exactly     *)
(* while some job is answerable for it.                                    *)
(***************************************************************************)
EXTENDS IntervalSched, SequenceTheorems, FiniteSetTheorems, TLAPS

(* Frames: what the groups of UNCHANGED variables mean. *)

LEMMA FreeType == Free \in Int
  <1>1. IsFiniteSet(Workers)
    BY SchedAssumption
  <1>2. Active \subseteq Workers
    BY DEF Active
  <1>3. IsFiniteSet(Active)
    BY <1>1, <1>2, FS_Subset
  <1> QED
    BY <1>1, <1>3, FS_CardinalityType DEF Free, Size

LEMMA JobOfCopy ==
  ASSUME NEW r \in Copy
  PROVE  SchedCopy(r) \in Job
  BY DEF SchedCopy, Copy, Job, Ids

LEMMA JobOfCall ==
  ASSUME NEW c \in Callers
  PROVE  AdHocJob(c) \in Job
  BY DEF AdHocJob, Job, Ids

(* An UPDATE of a schedule row keeps the table well typed. *)
RowsOK(r) == DOMAIN r \subseteq Schedules /\ r \in [DOMAIN r -> Row]

LEMMA RecordRunType ==
  ASSUME RowsOK(rows), NEW ok \in BOOLEAN, NEW s, NEW status \in RunStatus,
         RecordRun(ok, s, status)
  PROVE  RowsOK(rows')
  BY DEF RowsOK, RecordRun, Row

LEMMA SetNextRunAtType ==
  ASSUME RowsOK(rows), NEW ok \in BOOLEAN, NEW s, NEW next \in Instants \cup {None},
         SetNextRunAt(ok, s, next)
  PROVE  RowsOK(rows')
  BY DEF RowsOK, SetNextRunAt, Row

LEMMA AdvanceRowType ==
  ASSUME RowsOK(rows), cache \subseteq Windows, windows \subseteq Windows,
         NEW j, AdvanceRow(j)
  PROVE  RowsOK(rows') /\ cache' \subseteq Windows
  <1>1. cache' \subseteq Windows
    BY DEF AdvanceRow, EnsureFresh
  <1>2. PICK next \in Instants \cup {None, Saturated}, ok \in RunCtxOutcomes :
           IF next = Saturated THEN UNCHANGED rows ELSE SetNextRunAt(ok, j.id, next)
    BY DEF AdvanceRow
  <1>3. ok \in BOOLEAN
    BY DEF RunCtxOutcomes, Fault
  <1> QED
    BY <1>1, <1>2, <1>3, SetNextRunAtType DEF RowsOK

LEMMA InitTypeOK == Init => TypeOK
  <1> SUFFICES ASSUME Init PROVE TypeOK
    OBVIOUS
  <1>1. IdleWorker \in WorkerState /\ IdleWorker.pc \notin HoldingPCs
    BY DEF IdleWorker, WorkerState, WorkerPCs, HoldingPCs
  <1>2. rows \in [DOMAIN rows -> Row] /\ DOMAIN rows = Schedules
    BY SchedAssumption DEF Init
  <1>3. queue \in Seq(Job)
    BY EmptySeq DEF Init
  <1>4. 0 \in Instants
    BY RecurrenceAssumption DEF Instants
  <1> QED
    BY <1>1, <1>2, <1>3, <1>4, SchedAssumption
       DEF Init, TypeOK, TickState, CallPCs

LEMMA TickTypeOK == TypeOK /\ Ticker => TypeOK'
  <1> SUFFICES ASSUME TypeOK, Ticker PROVE TypeOK'
    OBVIOUS
  <1> USE DEF tickVars, callVars, poolVars, storeVars
  <1>0. tick \in TickState
    BY DEF TypeOK
  <1>1. CASE TickStart
    <2>1. PICK now \in tick.now..clock : tick' = [tick EXCEPT !.pc = "listing", !.now = now]
      BY <1>1 DEF TickStart
    <2>2. now \in Instants
      BY <1>0, RecurrenceAssumption DEF TypeOK, TickState, Instants
    <2>3. tick' \in TickState /\ tick'.pc = "listing"
      BY <1>0, <2>1, <2>2 DEF TickState
    <2>4. /\ worker' \in [Workers -> WorkerState]
          /\ \A w \in Workers : worker'[w].pc = worker[w].pc /\ worker'[w].job = worker[w].job
      <3>1. PICK at \in tick.now..clock :
               worker' = [w \in Workers |->
                 IF /\ worker[w].cause = "none"
                    /\ \E e \in inflight :
                         /\ e.worker = w
                         /\ IsActive(cache', TargetOf[e.id], at)
                         /\ ~IsActive(cache', TargetOf[e.id], e.since)
                 THEN [worker[w] EXCEPT !.cause = "blackout"] ELSE worker[w]]
        BY <1>1 DEF TickStart
      <3>2. ASSUME NEW w \in Workers
            PROVE  /\ worker'[w] \in WorkerState
                   /\ worker'[w].pc = worker[w].pc /\ worker'[w].job = worker[w].job
        <4>1. worker'[w] = worker[w] \/ worker'[w] = [worker[w] EXCEPT !.cause = "blackout"]
          BY <3>1
        <4>2. worker[w] \in WorkerState
          BY DEF TypeOK
        <4> QED
          BY <4>1, <4>2 DEF WorkerState
      <3>3. worker' = [w \in Workers |-> worker'[w]]
        BY <3>1
      <3> QED
        BY <3>2, <3>3
    <2> QED
      BY <1>1, <2>3, <2>4 DEF TickStart, TypeOK, EnsureFresh
  <1>2. CASE TickList
    <2>1. due' \subseteq Copy
      <3>1. \A s \in DueRows(tick.now) : CopyOf(s) \in Copy
        BY DEF DueRows, CopyOf, Copy, TypeOK, Row
      <3>2. \A D \in ListDue(tick.now, Free + Overhead) : D \subseteq Copy
        BY <3>1 DEF ListDue
      <3>3. due' = due \/ due' \in ListDue(tick.now, Free + Overhead)
        BY <1>2 DEF TickList
      <3> QED
        BY <3>2, <3>3 DEF TypeOK
    <2> QED
      BY <1>2, <2>1, FreeType DEF TickList, TypeOK, TickState
  <1>3. CASE TickClaim
    <2>1. PICK r \in due : /\ due' = due \ {r}
                           /\ \/ UNCHANGED <<locks, tick>>
                              \/ /\ locks' = locks \cup {TargetOf[r.id]}
                                 /\ tick' = [tick EXCEPT !.pc = "claimed", !.row = r]
      BY <1>3 DEF Busy, TickClaim
    <2>2. r \in Copy /\ TargetOf[r.id] \in Targets
      BY SchedAssumption DEF TypeOK, Copy, Ids
    <2>3. tick' \in TickState /\ (tick' = tick \/ tick'.row = r)
      BY <1>0, <2>1, <2>2 DEF TickState
    <2>4. locks' \subseteq Targets /\ due' \subseteq Copy
      BY <2>1, <2>2 DEF TypeOK
    <2> QED
      BY <1>3, <2>2, <2>3, <2>4 DEF Busy, TickClaim, TypeOK
  <1>4. CASE TickBlackout
    BY <1>4 DEF Release, TickBlackout, TypeOK, TickState, EnsureFresh
  <1>5. CASE TickDispatch
    <2>1. SchedCopy(tick.row) \in Job
      BY <1>5, JobOfCopy DEF Release, TickDispatch, TypeOK
    <2>2. queue' \in Seq(Job)
      BY <1>5, <2>1, AppendProperties DEF Release, TickDispatch, TypeOK
    <2>3. tick' \in TickState
      <3>1. tick.quota - 1 \in Int
        BY <1>0 DEF TickState
      <3>2. \/ tick' = [tick EXCEPT !.pc = "looping", !.quota = tick.quota - 1, !.row = NoJob]
            \/ tick' = [tick EXCEPT !.pc = "looping", !.row = NoJob]
        BY <1>5 DEF Release, TickDispatch
      <3> QED
        BY <1>0, <3>1, <3>2 DEF TickState
    <2>4. cache' \subseteq Windows /\ locks' \subseteq Targets /\ due' \subseteq Copy
      BY <1>5 DEF Release, TickDispatch, TypeOK, EnsureFresh
    <2>5. tick'.pc \notin {"claimed", "skipping", "skipped"}
      BY <1>5 DEF Release, TickDispatch, TypeOK, TickState
    <2> QED
      BY <1>5, <2>2, <2>3, <2>4, <2>5 DEF Release, TickDispatch, TypeOK
  <1>6. CASE TickSkipRecord
    <2>1. RowsOK(rows')
      <3>1. PICK ok \in RunCtxOutcomes : RecordRun(ok, tick.row.id, "skipped_blackout")
        BY <1>6 DEF TickSkipRecord
      <3>2. ok \in BOOLEAN /\ RowsOK(rows) /\ "skipped_blackout" \in RunStatus
        BY DEF RunCtxOutcomes, Fault, TypeOK, RowsOK, RunStatus
      <3> QED
        BY <3>1, <3>2, RecordRunType
    <2> QED
      BY <1>6, <2>1 DEF TickSkipRecord, TypeOK, TickState, RowsOK
  <1>7. CASE TickSkipAdvance
    <2>1. RowsOK(rows') /\ cache' \subseteq Windows
      BY <1>7, AdvanceRowType DEF TickSkipAdvance, TypeOK, RowsOK
    <2> QED
      BY <1>7, <2>1 DEF TickSkipAdvance, TypeOK, TickState, RowsOK
  <1>8. CASE TickEnd
    <2>1. tick' \in TickState /\ tick'.pc = "idle"
      <3>1. tick' = [tick EXCEPT !.pc = "idle", !.quota = 0]
        BY <1>8 DEF TickEnd
      <3>2. 0 \in Int
        OBVIOUS
      <3> QED
        BY <1>0, <3>1, <3>2 DEF TickState
    <2> QED
      BY <1>8, <2>1 DEF TickEnd, TypeOK
  <1>9. CASE TickExit
    BY <1>9 DEF TickExit, TypeOK, TickState
  <1> QED
    BY <1>1, <1>2, <1>3, <1>4, <1>5, <1>6, <1>7, <1>8, <1>9 DEF Ticker

LEMMA WorkTypeOK ==
  ASSUME TypeOK, NEW w \in Workers, Work(w)
  PROVE  TypeOK'
  <1> USE DEF tickVars, callVars, poolVars, storeVars
  <1>0. worker[w] \in WorkerState /\ (worker[w].pc \in HoldingPCs => worker[w].job \in Job)
    BY DEF TypeOK
  <1>1. CASE WorkerTake(w)
    <2>1. Head(queue) \in Job /\ Tail(queue) \in Seq(Job)
      BY <1>1, HeadTailProperties DEF WorkerTake, TypeOK
    <2>2. PICK fresh \in WorkerState : /\ fresh.job \in Job
                                       /\ worker' = [worker EXCEPT ![w] = fresh]
      <3>1. [IdleWorker EXCEPT !.pc = "taken", !.job = Head(queue)] \in WorkerState
        BY <2>1 DEF IdleWorker, WorkerState, WorkerPCs, HoldingPCs
      <3>2. [IdleWorker EXCEPT !.pc = "taken", !.job = Head(queue)].job = Head(queue)
        BY DEF IdleWorker
      <3> QED
        BY <1>1, <2>1, <3>1, <3>2 DEF WorkerTake
    <2> QED
      BY <1>1, <2>1, <2>2 DEF WorkerTake, TypeOK
  <1>2. CASE WorkerActivate(w)
    BY <1>2 DEF WorkerActivate, Goto, TypeOK, WorkerState, WorkerPCs, HoldingPCs
  <1>3. CASE WorkerRegister(w)
    <2>1. worker[w].job.id \in Ids
      BY <1>0, <1>3 DEF Untracked, WorkerRegister, HoldingPCs, Job
    <2>2. inflight' \subseteq [id : Ids, worker : Workers, since : Instants]
      BY <1>3, <2>1 DEF Untracked, WorkerRegister, TypeOK
    <2>3. /\ worker' \in [Workers -> WorkerState]
          /\ \A v \in Workers : worker'[v].pc \in HoldingPCs => worker'[v].job \in Job
      BY <1>0, <1>3 DEF Untracked, WorkerRegister, TypeOK, WorkerState, WorkerPCs, HoldingPCs
    <2> QED
      BY <1>3, <2>2, <2>3 DEF Untracked, WorkerRegister, TypeOK
  <1>4. CASE WorkerScanEnds(w)
    <2>1. PICK out \in {"ok", "failed", "canceled"} :
             worker' = [worker EXCEPT ![w].pc = "ended", ![w].outcome = out]
      BY <1>4 DEF WorkerScanEnds
    <2>2. /\ worker' \in [Workers -> WorkerState]
          /\ \A v \in Workers : worker'[v].pc \in HoldingPCs => worker'[v].job \in Job
      BY <1>0, <1>4, <2>1 DEF WorkerScanEnds, TypeOK, WorkerState, WorkerPCs, HoldingPCs
    <2> QED
      BY <1>4, <2>2 DEF WorkerScanEnds, TypeOK
  <1>5. CASE WorkerRecord(w)
    <2>1. RowsOK(rows')
      <3>1. ASSUME NEW ok \in RunCtxOutcomes, NEW status \in RunStatus,
                   RecordRun(ok, worker[w].job.id, status)
            PROVE  RowsOK(rows')
        <4>1. ok \in BOOLEAN /\ RowsOK(rows)
          BY DEF RunCtxOutcomes, Fault, TypeOK, RowsOK
        <4> QED
          BY <3>1, <4>1, RecordRunType
      <3> QED
        BY <1>5, <3>1 DEF WorkerRecord, TypeOK, RowsOK, RunStatus
    <2>2. adhoc' \in [Callers -> {"none", "pending", "running", "completed", "failed"}]
      BY <1>5 DEF WorkerRecord, UpdateStatus, TypeOK
    <2>3. /\ worker' \in [Workers -> WorkerState]
          /\ \A v \in Workers : worker'[v].pc \in HoldingPCs => worker'[v].job \in Job
      BY <1>0, <1>5 DEF WorkerRecord, Goto, TypeOK, WorkerState, WorkerPCs, HoldingPCs
    <2> QED
      BY <1>5, <2>1, <2>2, <2>3 DEF WorkerRecord, TypeOK, RowsOK
  <1>6. CASE WorkerAdvance(w)
    <2>1. RowsOK(rows') /\ cache' \subseteq Windows
      BY <1>6, AdvanceRowType DEF WorkerAdvance, TypeOK, RowsOK
    <2> QED
      BY <1>0, <1>6, <2>1
         DEF WorkerAdvance, Goto, TypeOK, WorkerState, WorkerPCs, HoldingPCs, RowsOK
  <1>7. CASE WorkerReply(w)
    BY <1>7 DEF WorkerReply, Goto, TypeOK, WorkerState, WorkerPCs, HoldingPCs
  <1>8. CASE WorkerRefuse(w)
    BY <1>8, SchedAssumption DEF WorkerRefuse, Goto, TypeOK, WorkerState, WorkerPCs, HoldingPCs
  <1>9. CASE WorkerFail(w)
    BY <1>9 DEF WorkerFail, UpdateStatus, Goto, TypeOK, WorkerState, WorkerPCs, HoldingPCs
  <1>10. CASE WorkerUntrack(w)
    BY <1>10 DEF Untracked, WorkerUntrack, Goto, TypeOK, WorkerState, WorkerPCs, HoldingPCs
  <1>11. CASE WorkerRelease(w)
    BY <1>11 DEF Release, WorkerRelease, TypeOK, WorkerState, WorkerPCs, HoldingPCs, IdleWorker
  <1>12. CASE WorkerLeave(w)
    BY <1>12 DEF WorkerLeave, Goto, TypeOK, WorkerState, WorkerPCs, HoldingPCs
  <1>13. CASE WorkerExit(w)
    BY <1>13 DEF WorkerExit, Goto, TypeOK, WorkerState, WorkerPCs, HoldingPCs
  <1> QED
    BY <1>1, <1>2, <1>3, <1>4, <1>5, <1>6, <1>7, <1>8, <1>9, <1>10, <1>11, <1>12, <1>13
       DEF Work

LEMMA CallTypeOK ==
  ASSUME TypeOK, NEW c \in Callers, CallSubmit(c) \/ Caller(c) \/ HangUp(c)
  PROVE  TypeOK'
  <1> USE DEF tickVars, callVars, poolVars, storeVars
  <1>0. /\ call \in [Callers -> CallPCs]
        /\ adhoc \in [Callers -> {"none", "pending", "running", "completed", "failed"}]
    BY DEF TypeOK
  <1>1. CASE CallSubmit(c)
    BY <1>0, <1>1 DEF CallSubmit, CallTo, TypeOK, CallPCs
  <1>2. CASE CallClaim(c)
    <2>1. TargetOf[c] \in Targets
      BY SchedAssumption DEF Ids
    <2> QED
      BY <1>0, <1>2, <2>1 DEF Busy, CallClaim, CallTo, TypeOK, CallPCs
  <1>3. CASE CallBlackout(c)
    BY <1>0, <1>3 DEF Release, CallBlackout, CallTo, TypeOK, CallPCs, EnsureFresh
  <1>4. CASE CallMark(c)
    BY <1>0, <1>4 DEF CallMark, CallTo, TypeOK, CallPCs, EnsureFresh, UpdateStatus
  <1>5. CASE CallCheckPool(c)
    BY <1>0, <1>5 DEF CallCheckPool, CallTo, TypeOK, CallPCs
  <1>6. CASE CallSend(c)
    <2>1. queue' \in Seq(Job)
      BY <1>6, JobOfCall, AppendProperties DEF CallSend, TypeOK
    <2>2. call' \in [Callers -> CallPCs]
      BY <1>0, <1>6 DEF CallSend, CallTo, CallPCs
    <2> QED
      BY <1>6, <2>1, <2>2 DEF CallSend, TypeOK
  <1>7. CASE CallReject(c)
    BY <1>0, <1>7 DEF Release, CallReject, CallTo, TypeOK, CallPCs, UpdateStatus
  <1>8. CASE CallReturn(c)
    BY <1>0, <1>8 DEF CallReturn, CallTo, TypeOK, CallPCs
  <1>9. CASE HangUp(c)
    BY <1>9 DEF HangUp, TypeOK
  <1> QED
    BY <1>1, <1>2, <1>3, <1>4, <1>5, <1>6, <1>7, <1>8, <1>9 DEF Caller

Stopping == StopCancel \/ StopPool \/ StopDone \/ StopExpire
Around == AdvanceClock \/ EditBlackout

LEMMA StopTypeOK == TypeOK /\ (Stopping \/ Around) => TypeOK'
  <1> SUFFICES ASSUME TypeOK, Stopping \/ Around PROVE TypeOK'
    OBVIOUS
  <1> USE DEF tickVars, callVars, poolVars, storeVars
  <1>1. CASE StopCancel
    BY <1>1 DEF StopCancel, TypeOK, WorkerState
  <1>2. CASE StopPool \/ StopDone \/ StopExpire
    BY <1>2 DEF StopPool, StopDone, StopExpire, TypeOK
  <1>3. CASE AdvanceClock
    <2>1. clock' \in Instants
      BY <1>3, RecurrenceAssumption DEF AdvanceClock, TypeOK, Instants
    <2> QED
      BY <1>3, <2>1 DEF AdvanceClock, TypeOK
  <1>4. CASE EditBlackout
    BY <1>4 DEF EditBlackout, TypeOK
  <1> QED
    BY <1>1, <1>2, <1>3, <1>4 DEF Stopping, Around

LEMMA NextCases ==
  ASSUME Next
  PROVE  \/ Ticker
         \/ \E w \in Workers : Work(w)
         \/ \E c \in Callers : CallSubmit(c) \/ Caller(c) \/ HangUp(c)
         \/ Stopping \/ Around
  BY DEF Next, Stopping, Around

LEMMA NextTypeOK == TypeOK /\ [Next]_vars => TypeOK'
  <1> SUFFICES ASSUME TypeOK, [Next]_vars PROVE TypeOK'
    OBVIOUS
  <1>1. CASE Next
    BY <1>1, NextCases, TickTypeOK, WorkTypeOK, CallTypeOK, StopTypeOK
  <1>2. CASE UNCHANGED vars
    BY <1>2 DEF vars, TypeOK
  <1> QED
    BY <1>1, <1>2

\* Every reachable state of the scheduler is well typed; in particular a worker
\* that holds a lock has a job, and every queued job is a schedule or an ad-hoc
\* run (WorkerPool.jobs, scanJobRunner's type switch on the payload).
THEOREM TypeCorrect == Spec => []TypeOK
  BY InitTypeOK, NextTypeOK, PTL DEF Spec

-----------------------------------------------------------------------------
(* The discipline of the target locks: LockInv says it place by place -     *)
(* workers, the queue, the handlers and the ticker.                         *)

Held(w) == worker[w].pc \in HoldingPCs
WT(w)   == TargetOf[worker[w].job.id]
QT(i)   == TargetOf[queue[i].id]
Asks(c) == call[c] \in CallHoldPCs
TH      == tick.pc = "claimed"
TT      == TargetOf[tick.row.id]
Slots   == 1..Len(queue)

\* No two places hold a claim on one target.
Apart ==
  /\ \A v, w \in Workers : Held(v) /\ Held(w) /\ WT(v) = WT(w) => v = w
  /\ \A i, j \in Slots : QT(i) = QT(j) => i = j
  /\ \A c, d \in Callers : Asks(c) /\ Asks(d) /\ TargetOf[c] = TargetOf[d] => c = d
  /\ \A w \in Workers, i \in Slots : Held(w) => WT(w) # QT(i)
  /\ \A w \in Workers, c \in Callers : Held(w) /\ Asks(c) => WT(w) # TargetOf[c]
  /\ \A i \in Slots, c \in Callers : Asks(c) => QT(i) # TargetOf[c]
  /\ TH => /\ \A w \in Workers : Held(w) => WT(w) # TT
           /\ \A i \in Slots : QT(i) # TT
           /\ \A c \in Callers : Asks(c) => TargetOf[c] # TT

\* Every claim has the lock of its target.
Locked ==
  /\ \A w \in Workers : Held(w) => WT(w) \in locks
  /\ \A i \in Slots : QT(i) \in locks
  /\ \A c \in Callers : Asks(c) => TargetOf[c] \in locks
  /\ TH => TT \in locks

\* Every lock has a claim.
Claimed ==
  \A t \in locks :
    \/ \E w \in Workers : Held(w) /\ WT(w) = t
    \/ \E i \in Slots : QT(i) = t
    \/ \E c \in Callers : Asks(c) /\ TargetOf[c] = t
    \/ TH /\ TT = t

LockInv == TypeOK /\ Apart /\ Locked /\ Claimed

-----------------------------------------------------------------------------
(* Steps that move no claim *)

LEMMA Frame ==
  ASSUME LockInv, TypeOK', UNCHANGED <<queue, locks>>,
         \A w \in Workers : Held(w)' <=> Held(w),
         \A w \in Workers : Held(w) => worker'[w].job = worker[w].job,
         \A c \in Callers : Asks(c)' <=> Asks(c),
         TH' <=> TH,
         TH => tick'.row = tick.row
  PROVE  LockInv'
  <1>1. \A w \in Workers : Held(w) => WT(w)' = WT(w)
    BY DEF WT
  <1>2. TH => TT' = TT
    BY DEF TT
  <1>3. Slots' = Slots /\ \A i \in Slots : QT(i)' = QT(i)
    BY DEF Slots, QT
  <1>4. Apart'
    BY <1>1, <1>2, <1>3 DEF LockInv, Apart
  <1>5. Locked'
    BY <1>1, <1>2, <1>3 DEF LockInv, Locked
  <1>6. Claimed'
    BY <1>1, <1>2, <1>3 DEF LockInv, Claimed
  <1> QED
    BY <1>4, <1>5, <1>6 DEF LockInv

LEMMA InitLockInv == Init => LockInv
  <1> SUFFICES ASSUME Init PROVE LockInv
    OBVIOUS
  <1>1. /\ \A w \in Workers : ~Held(w)
        /\ \A c \in Callers : ~Asks(c)
        /\ ~TH /\ Slots = {} /\ locks = {}
    BY DEF Init, Held, Asks, TH, Slots, IdleWorker, HoldingPCs, CallHoldPCs
  <1>2. Apart /\ Locked /\ Claimed
    BY <1>1 DEF Apart, Locked, Claimed
  <1> QED
    BY <1>2, InitTypeOK DEF LockInv

-----------------------------------------------------------------------------
(* The ticker *)

LEMMA TickClaimLock == LockInv /\ TypeOK' /\ TickClaim => LockInv'
  <1> SUFFICES ASSUME LockInv, TypeOK', TickClaim PROVE LockInv'
    OBVIOUS
  <1>1. PICK r \in due :
           IF TargetOf[r.id] \in locks
           THEN UNCHANGED <<locks, tick>>
           ELSE /\ locks' = locks \cup {TargetOf[r.id]}
                /\ tick' = [tick EXCEPT !.pc = "claimed", !.row = r]
    BY DEF Busy, TickClaim
  <1>2. /\ UNCHANGED <<call, queue, worker>> /\ tick.pc = "looping"
    BY DEF Busy, TickClaim, callVars, poolVars
  <1>3. CASE TargetOf[r.id] \in locks
    BY <1>1, <1>2, <1>3, Frame DEF Held, Asks, TH
  <1>4. CASE TargetOf[r.id] \notin locks
    <2>1. /\ locks' = locks \cup {TargetOf[r.id]}
          /\ tick' = [tick EXCEPT !.pc = "claimed", !.row = r]
      BY <1>1, <1>4
    <2>2. tick \in TickState
      BY DEF LockInv, TypeOK
    <2>3. TH' /\ TT' = TargetOf[r.id] /\ ~TH
      BY <1>2, <2>1, <2>2 DEF TH, TT, TickState
    <2>4. /\ \A w \in Workers : Held(w)' = Held(w) /\ WT(w)' = WT(w)
          /\ \A c \in Callers : Asks(c)' = Asks(c)
          /\ Slots' = Slots /\ \A i \in Slots : QT(i)' = QT(i)
      BY <1>2 DEF Held, WT, Asks, Slots, QT
    <2>5. Locked'
      BY <2>1, <2>3, <2>4 DEF LockInv, Locked
    <2>6. Apart'
      BY <1>4, <2>3, <2>4 DEF LockInv, Apart, Locked
    <2>7. Claimed'
      BY <2>1, <2>3, <2>4 DEF LockInv, Claimed
    <2> QED
      BY <2>5, <2>6, <2>7 DEF LockInv
  <1> QED
    BY <1>1, <1>3, <1>4

LEMMA TickBlackoutLock == LockInv /\ TypeOK' /\ TickBlackout => LockInv'
  <1> SUFFICES ASSUME LockInv, TypeOK', TickBlackout PROVE LockInv'
    OBVIOUS
  <1>1. /\ UNCHANGED <<call, queue, worker>> /\ locks' = locks \ {TT}
        /\ TH /\ ~TH'
    BY DEF Release, TickBlackout, callVars, poolVars, TH, TT, LockInv, TypeOK, TickState
  <1>2. /\ \A w \in Workers : Held(w)' = Held(w) /\ WT(w)' = WT(w)
        /\ \A c \in Callers : Asks(c)' = Asks(c)
        /\ Slots' = Slots /\ \A i \in Slots : QT(i)' = QT(i)
    BY <1>1 DEF Held, WT, Asks, Slots, QT
  <1>3. Apart'
    BY <1>1, <1>2 DEF LockInv, Apart
  <1>4. Locked'
    BY <1>1, <1>2 DEF LockInv, Locked, Apart
  <1>5. Claimed'
    BY <1>1, <1>2 DEF LockInv, Claimed
  <1> QED
    BY <1>3, <1>4, <1>5 DEF LockInv

(* A job sent to the channel is its last element. *)
LEMMA AppendSlots ==
  ASSUME queue \in Seq(Job), NEW j \in Job, queue' = Append(queue, j)
  PROVE  \E n : /\ n \notin Slots /\ Slots' = Slots \cup {n}
                /\ \A i \in Slots : QT(i)' = QT(i)
                /\ QT(n)' = TargetOf[j.id]
  <1>1. PICK n : n = Len(queue) + 1
    OBVIOUS
  <1>2. Len(queue) \in Nat /\ Len(queue') = n
    BY <1>1, AppendProperties
  <1>3. queue'[n] = j /\ \A i \in Slots : queue'[i] = queue[i]
    BY <1>1, AppendProperties DEF Slots
  <1>4. n \notin Slots /\ Slots' = Slots \cup {n}
    BY <1>1, <1>2 DEF Slots
  <1> QED
    BY <1>3, <1>4 DEF QT

LEMMA TickDispatchLock == LockInv /\ TypeOK' /\ TickDispatch => LockInv'
  <1> SUFFICES ASSUME LockInv, TypeOK', TickDispatch PROVE LockInv'
    OBVIOUS
  <1>1. /\ UNCHANGED <<call, worker>> /\ TH /\ ~TH'
    BY DEF Release, TickDispatch, callVars, TH, LockInv, TypeOK, TickState
  <1>2. /\ \A w \in Workers : Held(w)' = Held(w) /\ WT(w)' = WT(w)
        /\ \A c \in Callers : Asks(c)' = Asks(c)
    BY <1>1 DEF Held, WT, Asks
  <1>3. CASE queue' = Append(queue, SchedCopy(tick.row)) /\ UNCHANGED locks
    <2>1. SchedCopy(tick.row) \in Job /\ SchedCopy(tick.row).id = tick.row.id
      BY <1>1, JobOfCopy DEF LockInv, TypeOK, TH, SchedCopy
    <2>2. PICK n : /\ n \notin Slots /\ Slots' = Slots \cup {n}
                   /\ \A i \in Slots : QT(i)' = QT(i)
                   /\ QT(n)' = TargetOf[SchedCopy(tick.row).id]
      BY <1>3, <2>1, AppendSlots DEF LockInv, TypeOK
    <2>3. QT(n)' = TT
      BY <2>1, <2>2 DEF TT
    <2>7. Apart'
      BY <1>1, <1>2, <2>2, <2>3 DEF LockInv, Apart
    <2>8. Locked'
      BY <1>1, <1>2, <1>3, <2>2, <2>3 DEF LockInv, Locked
    <2>9. Claimed'
      BY <1>1, <1>2, <1>3, <2>2, <2>3 DEF LockInv, Claimed
    <2> QED
      BY <2>7, <2>8, <2>9 DEF LockInv
  <1>4. CASE locks' = locks \ {TT} /\ UNCHANGED queue
    <2>1. Slots' = Slots /\ \A i \in Slots : QT(i)' = QT(i)
      BY <1>4 DEF Slots, QT
    <2>2. Apart'
      BY <1>1, <1>2, <2>1 DEF LockInv, Apart
    <2>3. Locked'
      BY <1>1, <1>2, <1>4, <2>1 DEF LockInv, Locked, Apart
    <2>4. Claimed'
      BY <1>1, <1>2, <1>4, <2>1 DEF LockInv, Claimed
    <2> QED
      BY <2>2, <2>3, <2>4 DEF LockInv
  <1> QED
    BY <1>3, <1>4 DEF Release, TickDispatch, TT

LEMMA TickLock == LockInv /\ TypeOK' /\ Ticker => LockInv'
  <1> SUFFICES ASSUME LockInv, TypeOK', Ticker PROVE LockInv'
    OBVIOUS
  <1> USE DEF tickVars, callVars, poolVars, storeVars
  <1>0. tick \in TickState /\ worker \in [Workers -> WorkerState]
    BY DEF LockInv, TypeOK
  <1>1. CASE TickStart
    <2>1. \A w \in Workers : worker'[w].pc = worker[w].pc /\ worker'[w].job = worker[w].job
      BY <1>0, <1>1 DEF TickStart, WorkerState
    <2>2. ~TH /\ ~TH'
      BY <1>0, <1>1 DEF TickStart, TH, TickState
    <2>3. UNCHANGED <<call, queue, locks>>
      BY <1>1 DEF TickStart
    <2> QED
      BY <2>1, <2>2, <2>3, Frame DEF Held, Asks
  <1>2. CASE TickList \/ TickSkipRecord \/ TickSkipAdvance \/ TickEnd \/ TickExit
    <2>1. ~TH /\ ~TH'
      BY <1>0, <1>2
         DEF TickList, TickSkipRecord, TickSkipAdvance, TickEnd, TickExit, TH, TickState
    <2>2. UNCHANGED <<call, queue, locks, worker>>
      BY <1>2 DEF TickList, TickSkipRecord, TickSkipAdvance, TickEnd, TickExit
    <2> QED
      BY <2>1, <2>2, Frame DEF Held, Asks
  <1> QED
    BY <1>1, <1>2, TickClaimLock, TickBlackoutLock, TickDispatchLock DEF Ticker

-----------------------------------------------------------------------------
(* A worker *)

\* A job taken from the channel was its first element.
LEMMA WorkerTakeLock ==
  ASSUME LockInv, TypeOK', NEW w \in Workers, WorkerTake(w)
  PROVE  LockInv'
  <1>1. /\ UNCHANGED <<call, tick, locks>> /\ queue # <<>> /\ queue \in Seq(Job)
        /\ queue' = Tail(queue) /\ ~Held(w)
    BY DEF WorkerTake, callVars, tickVars, LockInv, TypeOK, Held, HoldingPCs
  <1>2. /\ Len(queue) \in Nat /\ Len(queue) > 0 /\ Len(queue') = Len(queue) - 1
        /\ Head(queue) = queue[1]
        /\ \A i \in 1..Len(queue') : queue'[i] = queue[i+1]
    BY <1>1, HeadTailProperties, EmptySeq
  <1>3. worker'[w].pc = "taken" /\ worker'[w].job = queue[1]
    <2>1. worker' = [worker EXCEPT ![w] = [IdleWorker EXCEPT !.pc = "taken", !.job = Head(queue)]]
      BY DEF WorkerTake
    <2>2. worker'[w] = [IdleWorker EXCEPT !.pc = "taken", !.job = Head(queue)]
      BY <2>1 DEF LockInv, TypeOK
    <2> QED
      BY <1>2, <2>2 DEF IdleWorker
  <1>4. Held(w)' /\ WT(w)' = QT(1) /\ 1 \in Slots
    BY <1>2, <1>3 DEF Held, WT, QT, HoldingPCs, Slots
  <1>5. \A v \in Workers \ {w} : Held(v)' = Held(v) /\ WT(v)' = WT(v)
    BY DEF WorkerTake, Held, WT, LockInv, TypeOK
  <1>6. \A i \in Slots' : i + 1 \in Slots /\ i + 1 # 1 /\ QT(i)' = QT(i+1)
    BY <1>2 DEF Slots, QT
  <1>7. \A i \in Slots : i = 1 \/ \E k \in Slots' : i = k + 1
    <2>1. SUFFICES ASSUME NEW i \in Slots, i # 1 PROVE \E k \in Slots' : i = k + 1
      OBVIOUS
    <2>2. i - 1 \in Slots' /\ i = (i - 1) + 1
      BY <1>2, <2>1 DEF Slots
    <2> QED
      BY <2>2
  <1>8. /\ \A c \in Callers : Asks(c)' = Asks(c)
        /\ TH' = TH /\ TT' = TT
    BY <1>1 DEF Asks, TH, TT
  <1>9. Apart'
    <2>1. \A i, j \in Slots' : QT(i)' = QT(j)' => i = j
      <3>1. SUFFICES ASSUME NEW i \in Slots', NEW j \in Slots', QT(i)' = QT(j)' PROVE i = j
        OBVIOUS
      <3>2. i + 1 = j + 1
        BY <1>6, <3>1 DEF LockInv, Apart
      <3> QED
        BY <3>1, <3>2, <1>2 DEF Slots
    <2>2. \A v, u \in Workers : Held(v)' /\ Held(u)' /\ WT(v)' = WT(u)' => v = u
      BY <1>4, <1>5 DEF LockInv, Apart
    <2>3. \A v \in Workers, i \in Slots' : Held(v)' => WT(v)' # QT(i)'
      BY <1>4, <1>5, <1>6 DEF LockInv, Apart
    <2>4. \A v \in Workers, c \in Callers : Held(v)' /\ Asks(c)' => WT(v)' # TargetOf[c]
      BY <1>4, <1>5, <1>8 DEF LockInv, Apart
    <2>5. \A i \in Slots', c \in Callers : Asks(c)' => QT(i)' # TargetOf[c]
      BY <1>6, <1>8 DEF LockInv, Apart
    <2>6. TH' => /\ \A v \in Workers : Held(v)' => WT(v)' # TT'
                 /\ \A i \in Slots' : QT(i)' # TT'
                 /\ \A c \in Callers : Asks(c)' => TargetOf[c] # TT'
      BY <1>4, <1>5, <1>6, <1>8 DEF LockInv, Apart
    <2> QED
      BY <1>8, <2>1, <2>2, <2>3, <2>4, <2>5, <2>6 DEF LockInv, Apart
  <1>10. Locked'
    BY <1>1, <1>4, <1>5, <1>6, <1>8 DEF LockInv, Locked
  <1>11. Claimed'
    <2>1. SUFFICES ASSUME NEW t \in locks
                   PROVE  \/ \E v \in Workers : Held(v)' /\ WT(v)' = t
                          \/ \E i \in Slots' : QT(i)' = t
                          \/ \E c \in Callers : Asks(c)' /\ TargetOf[c] = t
                          \/ TH' /\ TT' = t
      BY <1>1 DEF Claimed
    <2>2. CASE \E v \in Workers : Held(v) /\ WT(v) = t
      BY <1>1, <1>5, <2>2
    <2>3. CASE \E i \in Slots : QT(i) = t
      BY <1>4, <1>6, <1>7, <2>3
    <2>4. CASE (\E c \in Callers : Asks(c) /\ TargetOf[c] = t) \/ (TH /\ TT = t)
      BY <1>8, <2>4
    <2> QED
      BY <2>1, <2>2, <2>3, <2>4 DEF LockInv, Claimed
  <1> QED
    BY <1>9, <1>10, <1>11 DEF LockInv

LEMMA WorkerReleaseLock ==
  ASSUME LockInv, TypeOK', NEW w \in Workers, WorkerRelease(w)
  PROVE  LockInv'
  <1>1. /\ UNCHANGED <<call, tick, queue>> /\ locks' = locks \ {WT(w)} /\ Held(w)
    BY DEF Release, WorkerRelease, callVars, tickVars, WT, Held, HoldingPCs
  <1>2. ~Held(w)'
    <2>1. worker'[w].pc = "leaving"
      BY DEF Release, WorkerRelease, LockInv, TypeOK, IdleWorker
    <2> QED
      BY <2>1 DEF Held, HoldingPCs
  <1>3. \A v \in Workers \ {w} : Held(v)' = Held(v) /\ WT(v)' = WT(v)
    BY DEF Release, WorkerRelease, Held, WT, LockInv, TypeOK
  <1>4. /\ \A c \in Callers : Asks(c)' = Asks(c)
        /\ TH' = TH /\ TT' = TT
        /\ Slots' = Slots /\ \A i \in Slots : QT(i)' = QT(i)
    BY <1>1 DEF Asks, TH, TT, Slots, QT
  <1>5. Apart'
    BY <1>2, <1>3, <1>4 DEF LockInv, Apart
  <1>6. Locked'
    BY <1>1, <1>2, <1>3, <1>4 DEF LockInv, Locked, Apart
  <1>7. Claimed'
    BY <1>1, <1>2, <1>3, <1>4 DEF LockInv, Claimed
  <1> QED
    BY <1>5, <1>6, <1>7 DEF LockInv

\* Every other step of a worker keeps its job and its claim.
LEMMA WorkLock ==
  ASSUME LockInv, TypeOK', NEW w \in Workers, Work(w)
  PROVE  LockInv'
  <1> USE DEF callVars, tickVars
  <1>0. worker \in [Workers -> WorkerState]
    BY DEF LockInv, TypeOK
  <1>1. CASE ~WorkerTake(w) /\ ~WorkerRelease(w)
    <2>1. UNCHANGED <<call, tick, locks, queue>>
      BY <1>1 DEF Untracked, Work, WorkerActivate, WorkerRegister, WorkerScanEnds, WorkerRecord,
           WorkerAdvance, WorkerReply, WorkerRefuse, WorkerFail, WorkerUntrack,
           WorkerLeave, WorkerExit
    <2>2. \A v \in Workers : Held(v)' = Held(v) /\ worker'[v].job = worker[v].job
      <3> USE DEF Held, HoldingPCs, Goto, WorkerState
      <3>1. CASE WorkerActivate(w) \/ WorkerRegister(w)
        BY <1>0, <3>1 DEF Untracked, WorkerActivate, WorkerRegister
      <3>2. CASE WorkerScanEnds(w)
        BY <1>0, <3>2 DEF WorkerScanEnds
      <3>3. CASE WorkerRecord(w) \/ WorkerAdvance(w) \/ WorkerReply(w)
        BY <1>0, <3>3 DEF WorkerRecord, WorkerAdvance, WorkerReply
      <3>4. CASE WorkerRefuse(w) \/ WorkerFail(w) \/ WorkerUntrack(w)
        BY <1>0, <3>4 DEF Untracked, WorkerRefuse, WorkerFail, WorkerUntrack
      <3>5. CASE WorkerLeave(w) \/ WorkerExit(w)
        BY <1>0, <3>5 DEF WorkerLeave, WorkerExit
      <3> QED
        BY <1>1, <3>1, <3>2, <3>3, <3>4, <3>5 DEF Work
    <2> QED
      BY <2>1, <2>2, Frame DEF Asks, TH
  <1> QED
    BY <1>1, WorkerTakeLock, WorkerReleaseLock

-----------------------------------------------------------------------------
(* An ad-hoc request *)

LEMMA CallClaimLock ==
  ASSUME LockInv, TypeOK', NEW c \in Callers, CallClaim(c)
  PROVE  LockInv'
  <1>1. UNCHANGED <<worker, tick, queue>> /\ ~Asks(c)
    BY DEF Busy, CallClaim, poolVars, tickVars, Asks, CallHoldPCs
  <1>2. \A d \in Callers \ {c} : Asks(d)' = Asks(d)
    BY DEF Busy, CallClaim, CallTo, Asks, LockInv, TypeOK
  <1>3. CASE TargetOf[c] \in locks
    <2>1. ~Asks(c)' /\ UNCHANGED locks
      BY <1>3 DEF Busy, CallClaim, CallTo, Asks, CallHoldPCs, LockInv, TypeOK
    <2> QED
      BY <1>1, <1>2, <2>1, Frame DEF Held, TH
  <1>4. CASE TargetOf[c] \notin locks
    <2>1. Asks(c)' /\ locks' = locks \cup {TargetOf[c]}
      BY <1>4 DEF Busy, CallClaim, CallTo, Asks, CallHoldPCs, LockInv, TypeOK
    <2>2. /\ \A w \in Workers : Held(w)' = Held(w) /\ WT(w)' = WT(w)
          /\ TH' = TH /\ TT' = TT
          /\ Slots' = Slots /\ \A i \in Slots : QT(i)' = QT(i)
      BY <1>1 DEF Held, WT, TH, TT, Slots, QT
    <2>3. Apart'
      BY <1>1, <1>2, <1>4, <2>1, <2>2 DEF LockInv, Apart, Locked
    <2>4. Locked'
      BY <1>1, <1>2, <2>1, <2>2 DEF LockInv, Locked
    <2>5. Claimed'
      BY <1>1, <1>2, <2>1, <2>2 DEF LockInv, Claimed
    <2> QED
      BY <2>3, <2>4, <2>5 DEF LockInv
  <1> QED
    BY <1>3, <1>4

\* A handler that gives its lock back.
LEMMA CallFreeLock ==
  ASSUME LockInv, TypeOK', NEW c \in Callers, CallBlackout(c) \/ CallReject(c)
  PROVE  LockInv'
  <1>1. /\ UNCHANGED <<worker, tick, queue>> /\ Asks(c) /\ ~Asks(c)'
        /\ locks' = locks \ {TargetOf[c]}
    BY DEF Release, CallBlackout, CallReject, CallTo, poolVars, tickVars, Asks, CallHoldPCs,
           LockInv, TypeOK
  <1>2. \A d \in Callers \ {c} : Asks(d)' = Asks(d)
    BY DEF Release, CallBlackout, CallReject, CallTo, Asks, LockInv, TypeOK
  <1>3. /\ \A w \in Workers : Held(w)' = Held(w) /\ WT(w)' = WT(w)
        /\ TH' = TH /\ TT' = TT
        /\ Slots' = Slots /\ \A i \in Slots : QT(i)' = QT(i)
    BY <1>1 DEF Held, WT, TH, TT, Slots, QT
  <1>4. Apart'
    BY <1>1, <1>2, <1>3 DEF LockInv, Apart
  <1>5. Locked'
    BY <1>1, <1>2, <1>3 DEF LockInv, Locked, Apart
  <1>6. Claimed'
    BY <1>1, <1>2, <1>3 DEF LockInv, Claimed
  <1> QED
    BY <1>4, <1>5, <1>6 DEF LockInv

LEMMA CallSendLock ==
  ASSUME LockInv, TypeOK', NEW c \in Callers, CallSend(c)
  PROVE  LockInv'
  <1>1. UNCHANGED <<worker, tick, locks>> /\ Asks(c)
    BY DEF CallSend, tickVars, Asks, CallHoldPCs
  <1>2. \A d \in Callers \ {c} : Asks(d)' = Asks(d)
    BY DEF CallSend, CallTo, Asks, LockInv, TypeOK
  <1>3. CASE UNCHANGED queue /\ Asks(c)'
    BY <1>1, <1>2, <1>3, Frame DEF Held, TH
  <1>4. CASE ~Asks(c)' /\ queue' = Append(queue, AdHocJob(c))
    <2>1. AdHocJob(c) \in Job /\ AdHocJob(c).id = c
      BY JobOfCall DEF AdHocJob
    <2>2. PICK n : /\ n \notin Slots /\ Slots' = Slots \cup {n}
                   /\ \A i \in Slots : QT(i)' = QT(i)
                   /\ QT(n)' = TargetOf[AdHocJob(c).id]
      BY <1>4, <2>1, AppendSlots DEF LockInv, TypeOK
    <2>3. QT(n)' = TargetOf[c]
      BY <2>1, <2>2
    <2>4. /\ \A w \in Workers : Held(w)' = Held(w) /\ WT(w)' = WT(w)
          /\ TH' = TH /\ TT' = TT
      BY <1>1 DEF Held, WT, TH, TT
    <2>5. Apart'
      BY <1>1, <1>2, <1>4, <2>2, <2>3, <2>4 DEF LockInv, Apart
    <2>6. Locked'
      BY <1>1, <1>2, <1>4, <2>2, <2>3, <2>4 DEF LockInv, Locked
    <2>7. Claimed'
      BY <1>1, <1>2, <1>4, <2>2, <2>3, <2>4 DEF LockInv, Claimed
    <2> QED
      BY <2>5, <2>6, <2>7 DEF LockInv
  <1> QED
    BY <1>3, <1>4 DEF CallSend, CallTo, Asks, CallHoldPCs, LockInv, TypeOK

LEMMA CallLock ==
  ASSUME LockInv, TypeOK', NEW c \in Callers, CallSubmit(c) \/ Caller(c) \/ HangUp(c)
  PROVE  LockInv'
  <1> USE DEF callVars, tickVars, poolVars
  <1>1. CASE CallSubmit(c) \/ CallMark(c) \/ CallCheckPool(c) \/ CallReturn(c) \/ HangUp(c)
    <2>1. UNCHANGED <<worker, tick, queue, locks>>
      BY <1>1 DEF CallSubmit, CallMark, CallCheckPool, CallReturn, HangUp
    <2>2. \A d \in Callers : Asks(d)' = Asks(d)
      BY <1>1 DEF CallSubmit, CallMark, CallCheckPool, CallReturn, HangUp, CallTo, Asks,
                  CallHoldPCs, LockInv, TypeOK
    <2> QED
      BY <2>1, <2>2, Frame DEF Held, TH
  <1> QED
    BY <1>1, CallClaimLock, CallFreeLock, CallSendLock DEF Caller

-----------------------------------------------------------------------------
(* Shutdown, time and blackouts, and the invariant *)

LEMMA StopLock == LockInv /\ TypeOK' /\ (Stopping \/ Around) => LockInv'
  <1> SUFFICES ASSUME LockInv, TypeOK', Stopping \/ Around PROVE LockInv'
    OBVIOUS
  <1>1. UNCHANGED <<call, tick, queue, locks>>
    BY DEF Stopping, Around, StopCancel, StopPool, StopDone, StopExpire, AdvanceClock,
           EditBlackout, callVars, tickVars, poolVars
  <1>2. \A w \in Workers : worker'[w].pc = worker[w].pc /\ worker'[w].job = worker[w].job
    <2>1. CASE StopCancel
      BY <2>1 DEF StopCancel, LockInv, TypeOK, WorkerState
    <2>2. CASE ~StopCancel
      BY <2>2 DEF Stopping, Around, StopPool, StopDone, StopExpire, AdvanceClock,
                  EditBlackout, poolVars
    <2> QED
      BY <2>1, <2>2
  <1> QED
    BY <1>1, <1>2, Frame DEF Held, Asks, TH

LEMMA NextLockInv == LockInv /\ [Next]_vars => LockInv'
  <1> SUFFICES ASSUME LockInv, [Next]_vars PROVE LockInv'
    OBVIOUS
  <1>1. TypeOK'
    BY NextTypeOK DEF LockInv
  <1>2. CASE Next
    BY <1>1, <1>2, NextCases, TickLock, WorkLock, CallLock, StopLock
  <1>3. CASE UNCHANGED vars
    BY <1>1, <1>3, Frame DEF vars, Held, Asks, TH
  <1> QED
    BY <1>2, <1>3

\* The state of every reachable step, place by place.
LEMMA LockInvariant == Spec => []LockInv
  BY InitLockInv, NextLockInv, PTL DEF Spec

\* Claims(t) collects the claims the four places hold on t.
LEMMA ClaimCases ==
  ASSUME NEW t, NEW a \in Claims(t)
  PROVE  \/ \E w \in Workers : a = <<"worker", w>> /\ Held(w) /\ WT(w) = t
         \/ \E i \in Slots : a = <<"queue", i>> /\ QT(i) = t
         \/ \E c \in Callers : a = <<"call", c>> /\ Asks(c) /\ TargetOf[c] = t
         \/ a = <<"tick", tick.row>> /\ TH /\ TT = t
  BY DEF Claims, Held, WT, Slots, QT, Asks, TH, TT

LEMMA ApartIsOneJob == LockInv => OneJobPerTarget
  <1> SUFFICES ASSUME LockInv, NEW t \in Targets, NEW a \in Claims(t), NEW b \in Claims(t)
               PROVE  a = b
    BY DEF OneJobPerTarget
  <1>1. CASE \E w \in Workers : a = <<"worker", w>> /\ Held(w) /\ WT(w) = t
    BY <1>1, ClaimCases DEF LockInv, Apart
  <1>2. CASE \E i \in Slots : a = <<"queue", i>> /\ QT(i) = t
    BY <1>2, ClaimCases DEF LockInv, Apart
  <1>3. CASE \E c \in Callers : a = <<"call", c>> /\ Asks(c) /\ TargetOf[c] = t
    BY <1>3, ClaimCases DEF LockInv, Apart
  <1>4. CASE a = <<"tick", tick.row>> /\ TH /\ TT = t
    BY <1>4, ClaimCases DEF LockInv, Apart
  <1> QED
    BY <1>1, <1>2, <1>3, <1>4, ClaimCases

LEMMA LocksAreClaims == LockInv => LockAccounted
  <1> SUFFICES ASSUME LockInv, NEW t \in Targets
               PROVE  t \in locks <=> Claims(t) # {}
    BY DEF LockAccounted
  <1>1. ASSUME t \in locks PROVE Claims(t) # {}
    <2>1. CASE \E w \in Workers : Held(w) /\ WT(w) = t
      BY <2>1 DEF Claims, Held, WT
    <2>2. CASE \E i \in Slots : QT(i) = t
      BY <2>2 DEF Claims, Slots, QT
    <2>3. CASE \E c \in Callers : Asks(c) /\ TargetOf[c] = t
      BY <2>3 DEF Claims, Asks
    <2>4. CASE TH /\ TT = t
      BY <2>4 DEF Claims, TH, TT
    <2> QED
      BY <1>1, <2>1, <2>2, <2>3, <2>4 DEF LockInv, Claimed
  <1>2. ASSUME NEW a \in Claims(t) PROVE t \in locks
    BY ClaimCases DEF LockInv, Locked
  <1> QED
    BY <1>1, <1>2

\* A target has at most one job between TryAcquire and Release, for every number
\* of schedules, ad-hoc requests, workers and targets, and whatever fails or is
\* shut down on the way: the guarantee of TargetLockIndex (locks.go:5-8).
THEOREM MutualExclusion == Spec => []OneJobPerTarget
  BY LockInvariant, ApartIsOneJob, PTL

\* A target's lock is held exactly while the ticker, a handler, the queue or a
\* worker has a job of the target: a rejected dispatch, a blackout, a failed
\* store or an unresolvable config leaks no lock and releases no one else's.
THEOREM LocksBalanced == Spec => []LockAccounted
  BY LockInvariant, LocksAreClaims, PTL

=============================================================================
