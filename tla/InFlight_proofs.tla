-------------------------- MODULE InFlight_proofs --------------------------
(***************************************************************************)
(* What the scheduler owes to the lock discipline, for every number of     *)
(* schedules, requests, workers and targets: the in-flight table is exact  *)
(* (no two workers have a job of one target), blackout skips and shutdown  *)
(* are quiet, an ad-hoc run is finished by one writer, and each target is  *)
(* served by one job after the other (TargetSerial).                       *)
(***************************************************************************)
EXTENDS IntervalSched_proofs, SchedRefinement

Tracked(w) == worker[w].pc \in TrackedPCs
Runs(e)    == Tracked(e.worker) /\ worker[e.worker].job.id = e.id
Entered(w) == \E e \in inflight : e.worker = w /\ e.id = worker[w].job.id

\* Every entry is a running scan's and every running scan has one.
TrackInv ==
  /\ \A e \in inflight : Runs(e)
  /\ \A w \in Workers : Tracked(w) => Entered(w)

\* Whoever Stop waited for stays gone.
QuietInv ==
  /\ PoolStopped => tick.pc = "exited"
  /\ stop = "stopped" => \A w \in Workers : worker[w].pc = "exited"

FlightInv == LockInv /\ TrackInv /\ SkipIsIdle /\ QuietInv

(* Two workers never have the same job: they would have the same target. *)
LEMMA JobsDiffer ==
  ASSUME LockInv, NEW v \in Workers, NEW w \in Workers, Held(v), Held(w),
         worker[v].job.id = worker[w].job.id
  PROVE  v = w
  BY DEF LockInv, Apart, WT

LEMMA InitFlight == Init => FlightInv
  <1> SUFFICES ASSUME Init PROVE FlightInv
    OBVIOUS
  <1>1. TrackInv
    BY DEF Init, TrackInv, Tracked, TrackedPCs, IdleWorker
  <1>2. SkipIsIdle /\ QuietInv
    BY DEF Init, SkipIsIdle, QuietInv, PoolStopped
  <1> QED
    BY <1>1, <1>2, InitLockInv DEF FlightInv

-----------------------------------------------------------------------------
(* The in-flight table *)

(* A step that leaves the table, the jobs and the phase of every scan alone. *)
LEMMA TrackFrame ==
  ASSUME LockInv, TrackInv, UNCHANGED inflight,
         \A w \in Workers : Tracked(w)' = Tracked(w),
         \A w \in Workers : Tracked(w) => worker'[w].job = worker[w].job
  PROVE  TrackInv'
  <1>1. \A e \in inflight : e.worker \in Workers
    BY DEF LockInv, TypeOK
  <1>2. \A e \in inflight : Runs(e)'
    BY <1>1 DEF TrackInv, Runs
  <1>3. \A w \in Workers : Tracked(w)' => Entered(w)'
    BY DEF TrackInv, Entered
  <1> QED
    BY <1>2, <1>3 DEF TrackInv

LEMMA RegisterTracks ==
  ASSUME LockInv, TrackInv, NEW w \in Workers, WorkerRegister(w)
  PROVE  TrackInv'
  <1> DEFINE id == worker[w].job.id
  <1>0. PICK new : new = [id |-> id, worker |-> w, since |-> clock]
    OBVIOUS
  <1>1. Held(w) /\ ~Tracked(w) /\ worker \in [Workers -> WorkerState]
    BY DEF Untracked, WorkerRegister, Held, Tracked, HoldingPCs, TrackedPCs, LockInv, TypeOK
  <1>2. \A e \in inflight : e.worker \in Workers /\ e.worker # w /\ e.id # id
    <2>1. SUFFICES ASSUME NEW e \in inflight
                   PROVE  e.worker \in Workers /\ e.worker # w /\ e.id # id
      OBVIOUS
    <2>2. e.worker \in Workers /\ Runs(e)
      BY DEF LockInv, TypeOK, TrackInv
    <2>3. e.worker # w /\ Held(e.worker)
      BY <1>1, <2>2 DEF Runs, Held, Tracked, HoldingPCs, TrackedPCs
    <2> QED
      BY <1>1, <2>2, <2>3, JobsDiffer DEF Runs
  <1>3. inflight' = inflight \cup {new}
    BY <1>0, <1>2 DEF Untracked, WorkerRegister
  <1>4. worker'[w].pc = "scanning" /\ worker'[w].job = worker[w].job
    BY <1>1 DEF Untracked, WorkerRegister, WorkerState
  <1>5. \A v \in Workers \ {w} : worker'[v] = worker[v]
    BY <1>1 DEF Untracked, WorkerRegister
  <1>6. Tracked(w)' /\ Runs(new)' /\ Entered(w)'
    <2>1. Tracked(w)'
      BY <1>4 DEF Tracked, TrackedPCs
    <2>2. new \in inflight' /\ new.worker = w /\ new.id = worker'[w].job.id
      BY <1>0, <1>3, <1>4
    <2> QED
      BY <2>1, <2>2, <1>4 DEF Runs, Entered, Tracked
  <1>7. \A e \in inflight : Runs(e)'
    BY <1>2, <1>5 DEF TrackInv, Runs, Tracked
  <1>8. \A v \in Workers \ {w} : Tracked(v)' => Entered(v)'
    BY <1>3, <1>5 DEF TrackInv, Entered, Tracked
  <1> QED
    BY <1>3, <1>6, <1>7, <1>8 DEF TrackInv

LEMMA UntrackTracks ==
  ASSUME LockInv, TrackInv, NEW w \in Workers, WorkerUntrack(w)
  PROVE  TrackInv'
  <1>1. Held(w) /\ Tracked(w) /\ worker \in [Workers -> WorkerState]
    BY DEF Untracked, WorkerUntrack, Held, Tracked, HoldingPCs, TrackedPCs, LockInv, TypeOK
  <1>2. inflight' = {e \in inflight : e.id # worker[w].job.id}
    BY DEF Untracked, WorkerUntrack
  <1>3. ~Tracked(w)' /\ \A v \in Workers \ {w} : worker'[v] = worker[v]
    BY <1>1 DEF Untracked, WorkerUntrack, Goto, Tracked, TrackedPCs, WorkerState
  <1>4. \A e \in inflight' : e.worker \in Workers \ {w} /\ Runs(e)
    BY <1>2 DEF LockInv, TypeOK, TrackInv, Runs
  <1>5. \A e \in inflight' : Runs(e)'
    BY <1>3, <1>4 DEF Runs, Tracked
  <1>6. ASSUME NEW v \in Workers, Tracked(v)' PROVE Entered(v)'
    <2>1. v # w /\ worker'[v] = worker[v] /\ Tracked(v) /\ Held(v)
      BY <1>3, <1>6 DEF Tracked, Held, TrackedPCs, HoldingPCs
    <2>2. PICK e \in inflight : e.worker = v /\ e.id = worker[v].job.id
      BY <2>1 DEF TrackInv, Entered
    <2>3. e.id # worker[w].job.id
      BY <1>1, <2>1, <2>2, JobsDiffer
    <2> QED
      BY <1>2, <2>1, <2>2, <2>3 DEF Entered
  <1> QED
    BY <1>5, <1>6 DEF TrackInv

(* Every other step of a worker. *)
LEMMA WorkTracks ==
  ASSUME LockInv, TrackInv, NEW w \in Workers, Work(w)
  PROVE  TrackInv'
  <1>0. worker \in [Workers -> WorkerState]
    BY DEF LockInv, TypeOK
  <1>1. CASE ~WorkerRegister(w) /\ ~WorkerUntrack(w)
    <2>1. UNCHANGED inflight
      BY <1>1 DEF Release, Work, WorkerTake, WorkerActivate, WorkerScanEnds, WorkerRecord,
           WorkerAdvance, WorkerReply, WorkerRefuse, WorkerFail, WorkerRelease,
           WorkerLeave, WorkerExit
    <2>2. \A v \in Workers : /\ Tracked(v)' = Tracked(v)
                             /\ Tracked(v) => worker'[v].job = worker[v].job
      <3> USE DEF Tracked, TrackedPCs, Goto, WorkerState
      <3>1. CASE WorkerTake(w)
        <4>1. worker' = [worker EXCEPT ![w] = [IdleWorker EXCEPT !.pc = "taken", !.job = Head(queue)]]
          BY <3>1 DEF WorkerTake
        <4>2. worker'[w].pc = "taken" /\ \A v \in Workers \ {w} : worker'[v] = worker[v]
          BY <1>0, <4>1 DEF IdleWorker
        <4> QED
          BY <3>1, <4>2 DEF WorkerTake
      <3>2. CASE WorkerActivate(w) \/ WorkerRefuse(w) \/ WorkerFail(w)
        BY <1>0, <3>2 DEF WorkerActivate, WorkerRefuse, WorkerFail
      <3>3. CASE WorkerScanEnds(w)
        BY <1>0, <3>3 DEF WorkerScanEnds
      <3>4. CASE WorkerRecord(w) \/ WorkerAdvance(w) \/ WorkerReply(w)
        BY <1>0, <3>4 DEF WorkerRecord, WorkerAdvance, WorkerReply
      <3>5. CASE WorkerRelease(w)
        <4>1. worker'[w].pc = "leaving" /\ \A v \in Workers \ {w} : worker'[v] = worker[v]
          BY <1>0, <3>5 DEF Release, WorkerRelease, IdleWorker
        <4> QED
          BY <3>5, <4>1 DEF Release, WorkerRelease
      <3>6. CASE WorkerLeave(w) \/ WorkerExit(w)
        BY <1>0, <3>6 DEF WorkerLeave, WorkerExit
      <3> QED
        BY <1>1, <3>1, <3>2, <3>3, <3>4, <3>5, <3>6 DEF Work
    <2> QED
      BY <2>1, <2>2, TrackFrame
  <1> QED
    BY <1>1, RegisterTracks, UntrackTracks

LEMMA NextTrack == LockInv /\ TrackInv /\ [Next]_vars => TrackInv'
  <1> SUFFICES ASSUME LockInv, TrackInv, [Next]_vars PROVE TrackInv'
    OBVIOUS
  <1>0. worker \in [Workers -> WorkerState]
    BY DEF LockInv, TypeOK
  <1> USE DEF poolVars
  <1>1. CASE Ticker
    <2>1. UNCHANGED inflight
      BY <1>1 DEF Busy, Release, Ticker, TickStart, TickList, TickClaim, TickBlackout, TickDispatch,
           TickSkipRecord, TickSkipAdvance, TickEnd, TickExit
    <2>2. \A w \in Workers : worker'[w].pc = worker[w].pc /\ worker'[w].job = worker[w].job
      <3>1. CASE TickStart
        BY <1>0, <3>1 DEF TickStart, WorkerState
      <3>2. CASE ~TickStart
        BY <1>1, <3>2 DEF Busy, Release, Ticker, TickList, TickClaim, TickBlackout, TickDispatch,
             TickSkipRecord, TickSkipAdvance, TickEnd, TickExit
      <3> QED
        BY <3>1, <3>2
    <2> QED
      BY <2>1, <2>2, TrackFrame DEF Tracked
  <1>2. CASE \E w \in Workers : Work(w)
    BY <1>2, WorkTracks
  <1>3. CASE \E c \in Callers : CallSubmit(c) \/ Caller(c) \/ HangUp(c)
    <2>1. UNCHANGED <<inflight, worker>>
      BY <1>3 DEF Busy, Release, CallSubmit, Caller, HangUp, CallClaim, CallBlackout, CallMark, CallCheckPool,
           CallSend, CallReject, CallReturn
    <2> QED
      BY <2>1, TrackFrame DEF Tracked
  <1>4. CASE Stopping \/ Around
    <2>1. UNCHANGED inflight
      BY <1>4 DEF Stopping, Around, StopCancel, StopPool, StopDone, StopExpire, AdvanceClock,
           EditBlackout
    <2>2. \A w \in Workers : worker'[w].pc = worker[w].pc /\ worker'[w].job = worker[w].job
      <3>1. CASE StopCancel
        BY <1>0, <3>1 DEF StopCancel, WorkerState
      <3>2. CASE ~StopCancel
        BY <1>4, <3>2 DEF Stopping, Around, StopPool, StopDone, StopExpire, AdvanceClock,
                          EditBlackout
      <3> QED
        BY <3>1, <3>2
    <2> QED
      BY <2>1, <2>2, TrackFrame DEF Tracked
  <1>5. CASE UNCHANGED vars
    BY <1>5, TrackFrame DEF vars, Tracked
  <1> QED
    BY <1>1, <1>2, <1>3, <1>4, <1>5, NextCases

-----------------------------------------------------------------------------
(* Blackout skips *)

(* What SkipIsIdle excludes cannot appear when the skip goes on and no job is new. *)
LEMMA SkipFrame ==
  ASSUME SkipIsIdle,
         tick'.pc \in {"skipping", "skipped"} =>
           tick.pc \in {"skipping", "skipped"} /\ tick'.row = tick.row,
         UNCHANGED queue,
         \A w \in Workers : Held(w)' => Held(w) /\ worker'[w].job = worker[w].job
  PROVE  SkipIsIdle'
  BY DEF SkipIsIdle, Held

LEMMA TickSkip == LockInv /\ SkipIsIdle /\ Ticker => SkipIsIdle'
  <1> SUFFICES ASSUME LockInv, SkipIsIdle, Ticker PROVE SkipIsIdle'
    OBVIOUS
  <1>0. tick \in TickState /\ worker \in [Workers -> WorkerState]
    BY DEF LockInv, TypeOK
  <1> USE DEF poolVars
  <1>1. CASE TickBlackout
    <2>1. TH /\ tick'.row = tick.row /\ UNCHANGED <<queue, worker>>
      BY <1>0, <1>1 DEF Release, TickBlackout, TH, TickState
    <2>2. \A w \in Workers : Held(w) => worker[w].job.id # tick.row.id
      BY <2>1 DEF LockInv, Apart, WT, TT
    <2>3. \A i \in Slots : queue[i].id # tick.row.id
      BY <2>1 DEF LockInv, Apart, QT, TT
    <2> QED
      BY <2>1, <2>2, <2>3 DEF SkipIsIdle, Held, Slots
  <1>2. CASE TickStart
    <2>1. /\ \A w \in Workers : worker'[w].pc = worker[w].pc /\ worker'[w].job = worker[w].job
          /\ UNCHANGED queue /\ tick'.pc = "listing"
      BY <1>0, <1>2 DEF TickStart, WorkerState, TickState
    <2> QED
      BY <2>1, SkipFrame DEF Held
  <1>3. CASE TickDispatch \/ TickClaim \/ TickList \/ TickEnd \/ TickExit \/ TickSkipAdvance
    <2>1. tick'.pc \notin {"skipping", "skipped"}
      BY <1>0, <1>3 DEF Busy, Release, TickDispatch, TickClaim, TickList, TickEnd, TickExit, TickSkipAdvance,
                        TickState
    <2> QED
      BY <2>1 DEF SkipIsIdle
  <1>4. CASE TickSkipRecord
    <2>1. UNCHANGED <<queue, worker>> /\ tick.pc = "skipping" /\ tick'.row = tick.row
      BY <1>0, <1>4 DEF TickSkipRecord, TickState
    <2> QED
      BY <2>1, SkipFrame DEF Held
  <1> QED
    BY <1>1, <1>2, <1>3, <1>4 DEF Ticker

LEMMA WorkSkip ==
  ASSUME LockInv, SkipIsIdle, NEW w \in Workers, Work(w)
  PROVE  SkipIsIdle'
  <1>0. worker \in [Workers -> WorkerState] /\ queue \in Seq(Job)
    BY DEF LockInv, TypeOK
  <1> USE DEF tickVars
  <1>1. CASE WorkerTake(w)
    <2>1. /\ Len(queue) \in Nat /\ Len(queue) > 0 /\ Len(queue') = Len(queue) - 1
          /\ Head(queue) = queue[1]
          /\ \A i \in 1..Len(queue') : queue'[i] = queue[i+1]
      BY <1>0, <1>1, HeadTailProperties, EmptySeq DEF WorkerTake
    <2>2. worker' = [worker EXCEPT ![w] = [IdleWorker EXCEPT !.pc = "taken", !.job = Head(queue)]]
      BY <1>1 DEF WorkerTake
    <2>3. worker'[w].job = queue[1] /\ \A v \in Workers \ {w} : worker'[v] = worker[v]
      BY <1>0, <2>1, <2>2 DEF IdleWorker
    <2>4. UNCHANGED tick
      BY <1>1 DEF WorkerTake
    <2>5. 1 \in 1..Len(queue) /\ \A i \in 1..Len(queue') : i + 1 \in 1..Len(queue)
      BY <2>1
    <2> QED
      BY <2>1, <2>3, <2>4, <2>5 DEF SkipIsIdle
  <1>2. CASE ~WorkerTake(w)
    <2>1. UNCHANGED <<tick, queue>>
      BY <1>2 DEF Release, Untracked, Work, WorkerActivate, WorkerRegister, WorkerScanEnds, WorkerRecord,
           WorkerAdvance, WorkerReply, WorkerRefuse, WorkerFail, WorkerUntrack,
           WorkerRelease, WorkerLeave, WorkerExit
    <2>2. \A v \in Workers : Held(v)' => Held(v) /\ worker'[v].job = worker[v].job
      <3> USE DEF Held, HoldingPCs, Goto, WorkerState
      <3>1. CASE WorkerActivate(w) \/ WorkerRegister(w) \/ WorkerScanEnds(w)
        BY <1>0, <3>1 DEF Untracked, WorkerActivate, WorkerRegister, WorkerScanEnds
      <3>2. CASE WorkerRecord(w) \/ WorkerAdvance(w) \/ WorkerReply(w)
        BY <1>0, <3>2 DEF WorkerRecord, WorkerAdvance, WorkerReply
      <3>3. CASE WorkerRefuse(w) \/ WorkerFail(w) \/ WorkerUntrack(w)
        BY <1>0, <3>3 DEF Untracked, WorkerRefuse, WorkerFail, WorkerUntrack
      <3>4. CASE WorkerRelease(w)
        <4>1. worker'[w].pc = "leaving" /\ \A v \in Workers \ {w} : worker'[v] = worker[v]
          BY <1>0, <3>4 DEF Release, WorkerRelease, IdleWorker
        <4> QED
          BY <4>1
      <3>5. CASE WorkerLeave(w) \/ WorkerExit(w)
        BY <1>0, <3>5 DEF WorkerLeave, WorkerExit
      <3> QED
        BY <1>2, <3>1, <3>2, <3>3, <3>4, <3>5 DEF Work
    <2> QED
      BY <2>1, <2>2, SkipFrame
  <1> QED
    BY <1>1, <1>2

(* An ad-hoc job is no schedule's. *)
LEMMA CallSkip ==
  ASSUME LockInv, SkipIsIdle, NEW c \in Callers, CallSubmit(c) \/ Caller(c) \/ HangUp(c)
  PROVE  SkipIsIdle'
  <1> USE DEF tickVars, poolVars
  <1>1. UNCHANGED <<worker, tick>>
    BY DEF Busy, Release, CallSubmit, Caller, HangUp, CallClaim, CallBlackout, CallMark, CallCheckPool,
           CallSend, CallReject, CallReturn
  <1>2. CASE UNCHANGED queue
    BY <1>1, <1>2, SkipFrame DEF Held
  <1>3. CASE queue' = Append(queue, AdHocJob(c))
    <2>1. queue \in Seq(Job) /\ AdHocJob(c) \in Job /\ AdHocJob(c).id = c
      BY JobOfCall DEF LockInv, TypeOK, AdHocJob
    <2>2. ASSUME NEW i \in 1..Len(queue')
          PROVE  queue'[i].id = c \/ (i \in 1..Len(queue) /\ queue'[i] = queue[i])
      <3>1. /\ Len(queue) \in Nat /\ Len(queue') = Len(queue) + 1
            /\ queue'[Len(queue) + 1] = AdHocJob(c)
            /\ \A k \in 1..Len(queue) : queue'[k] = queue[k]
        BY <1>3, <2>1, AppendProperties
      <3>2. i \in 1..Len(queue) \/ i = Len(queue) + 1
        BY <3>1
      <3> QED
        BY <2>1, <3>1, <3>2
    <2>3. tick.pc \in {"skipping", "skipped"} => c # tick.row.id
      BY SchedAssumption DEF LockInv, TypeOK, Copy
    <2> QED
      BY <1>1, <2>1, <2>2, <2>3 DEF SkipIsIdle
  <1> QED
    BY <1>2, <1>3 DEF Busy, Release, CallSubmit, Caller, HangUp, CallClaim, CallBlackout, CallMark,
                      CallCheckPool, CallSend, CallReject, CallReturn

LEMMA NextSkip == LockInv /\ SkipIsIdle /\ [Next]_vars => SkipIsIdle'
  <1> SUFFICES ASSUME LockInv, SkipIsIdle, [Next]_vars PROVE SkipIsIdle'
    OBVIOUS
  <1>1. CASE Stopping \/ Around
    <2>1. UNCHANGED <<tick, queue>>
      BY <1>1 DEF Stopping, Around, StopCancel, StopPool, StopDone, StopExpire, AdvanceClock,
           EditBlackout, tickVars, poolVars
    <2>2. \A w \in Workers : worker'[w].pc = worker[w].pc /\ worker'[w].job = worker[w].job
      <3>1. CASE StopCancel
        BY <3>1 DEF StopCancel, WorkerState, LockInv, TypeOK
      <3>2. CASE ~StopCancel
        BY <1>1, <3>2 DEF Stopping, Around, StopPool, StopDone, StopExpire, AdvanceClock,
                          EditBlackout, poolVars
      <3> QED
        BY <3>1, <3>2
    <2> QED
      BY <2>1, <2>2, SkipFrame DEF Held
  <1>2. CASE UNCHANGED vars
    BY <1>2, SkipFrame DEF vars, Held
  <1> QED
    BY <1>1, <1>2, NextCases, TickSkip, WorkSkip, CallSkip

-----------------------------------------------------------------------------
(* Shutdown *)

LEMMA NextQuiet == LockInv /\ QuietInv /\ [Next]_vars => QuietInv'
  <1> SUFFICES ASSUME LockInv, QuietInv, [Next]_vars PROVE QuietInv'
    OBVIOUS
  <1>0. worker \in [Workers -> WorkerState] /\ tick \in TickState
    BY DEF LockInv, TypeOK
  <1> USE DEF tickVars, poolVars
  <1>1. CASE Ticker
    <2>1. UNCHANGED stop /\ tick.pc # "exited"
      BY <1>1 DEF Busy, Release, Ticker, TickStart, TickList, TickClaim, TickBlackout, TickDispatch,
           TickSkipRecord, TickSkipAdvance, TickEnd, TickExit
    <2>2. ~PoolStopped
      BY <2>1 DEF QuietInv
    <2> QED
      BY <2>1, <2>2 DEF QuietInv, PoolStopped
  <1>2. CASE \E w \in Workers : Work(w)
    <2>1. PICK w \in Workers : Work(w)
      BY <1>2
    <2>2. UNCHANGED <<stop, tick>> /\ worker[w].pc # "exited"
      BY <2>1 DEF Release, Untracked, Work, WorkerTake, WorkerActivate, WorkerRegister, WorkerScanEnds,
           WorkerRecord, WorkerAdvance, WorkerReply, WorkerRefuse, WorkerFail,
           WorkerUntrack, WorkerRelease, WorkerLeave, WorkerExit
    <2> QED
      BY <2>2 DEF QuietInv, PoolStopped
  <1>3. CASE \E c \in Callers : CallSubmit(c) \/ Caller(c) \/ HangUp(c)
    <2>1. UNCHANGED <<stop, tick, worker>>
      BY <1>3 DEF Busy, Release, CallSubmit, Caller, HangUp, CallClaim, CallBlackout, CallMark,
           CallCheckPool, CallSend, CallReject, CallReturn
    <2> QED
      BY <2>1 DEF QuietInv, PoolStopped
  <1>4. CASE Stopping \/ Around
    <2>1. CASE StopCancel
      BY <2>1 DEF StopCancel, QuietInv, PoolStopped
    <2>2. CASE StopPool
      BY <2>2 DEF StopPool, QuietInv, PoolStopped
    <2>3. CASE StopDone \/ StopExpire
      BY <2>3 DEF StopDone, StopExpire, QuietInv, PoolStopped
    <2>4. CASE Around
      BY <2>4 DEF Around, AdvanceClock, EditBlackout, QuietInv, PoolStopped
    <2> QED
      BY <1>4, <2>1, <2>2, <2>3, <2>4 DEF Stopping
  <1>5. CASE UNCHANGED vars
    BY <1>5 DEF vars, QuietInv, PoolStopped
  <1> QED
    BY <1>1, <1>2, <1>3, <1>4, <1>5, NextCases

-----------------------------------------------------------------------------
(* The theorems *)

LEMMA NextFlight == FlightInv /\ [Next]_vars => FlightInv'
  BY NextLockInv, NextTrack, NextSkip, NextQuiet DEF FlightInv

LEMMA FlightInvariant == Spec => []FlightInv
  BY InitFlight, NextFlight, PTL DEF Spec

LEMMA TrackInvMeans == FlightInv => ScansTracked
  <1> SUFFICES ASSUME FlightInv PROVE ScansTracked
    OBVIOUS
  <1>1. ASSUME NEW e \in inflight
        PROVE  /\ e.worker \in Workers /\ worker[e.worker].pc \in TrackedPCs
               /\ worker[e.worker].job.id = e.id
    BY DEF FlightInv, LockInv, TypeOK, TrackInv, Runs, Tracked
  <1>2. ASSUME NEW w \in Workers, worker[w].pc \in TrackedPCs
        PROVE  \E e \in inflight : e.id = worker[w].job.id /\ e.worker = w
    BY <1>2 DEF FlightInv, TrackInv, Tracked, Entered
  <1> QED
    BY <1>1, <1>2 DEF ScansTracked

LEMMA QuietInvMeans == FlightInv => StoppedIsQuiet
  <1> SUFFICES ASSUME FlightInv, stop = "stopped" PROVE inflight = {}
    BY DEF FlightInv, QuietInv, StoppedIsQuiet
  <1>1. \A w \in Workers : ~Tracked(w)
    BY DEF FlightInv, QuietInv, Tracked, TrackedPCs
  <1>2. \A e \in inflight : e.worker \in Workers /\ Tracked(e.worker)
    BY DEF FlightInv, LockInv, TypeOK, TrackInv, Runs
  <1> QED
    BY <1>1, <1>2

\* The in-flight table is exactly the scans that run, each with the worker whose
\* context it cancels, for every number of workers, schedules and ad-hoc runs
\* (scanJobRunner, evaluateInFlightBlackouts): the deletion by id at the end of
\* one job never removes the entry of another.
THEOREM InFlightExact == Spec => []ScansTracked
  BY FlightInvariant, TrackInvMeans, PTL

\* A blackout skip is recorded only while no run of the schedule is queued or
\* executing, although the ticker has already released the target's lock
\* (handleBlackoutSkip).
THEOREM SkipsAreIdle == Spec => []SkipIsIdle
  BY FlightInvariant, PTL DEF FlightInv

\* When Stop has returned without a timeout, no scan runs and no goroutine of
\* the scheduler is left, whatever was queued or running when it was called.
THEOREM StopIsQuiet == Spec => []StoppedIsQuiet
  BY FlightInvariant, QuietInvMeans, PTL

-----------------------------------------------------------------------------
(* A job sent to the channel is its last element, and the others stay. *)

Appended(n, j) ==
  /\ n \notin Slots /\ Slots' = Slots \cup {n}
  /\ queue'[n] = j
  /\ \A i \in Slots : queue'[i] = queue[i]

LEMMA AppendIds ==
  ASSUME queue \in Seq(Job), NEW j \in Job, queue' = Append(queue, j)
  PROVE  \E n : Appended(n, j)
<1>1. PICK n : n = Len(queue) + 1
  OBVIOUS
<1>2. Len(queue) \in Nat /\ Len(queue') = n
  BY <1>1, AppendProperties
<1>3. queue'[n] = j /\ \A i \in Slots : queue'[i] = queue[i]
  BY <1>1, AppendProperties DEF Slots
<1>4. n \notin Slots /\ Slots' = Slots \cup {n}
  BY <1>1, <1>2 DEF Slots
<1>5. QED
  BY <1>3, <1>4 DEF Appended

-----------------------------------------------------------------------------
(* The final status of an ad-hoc run *)

Answering == {"waiting", "answered", "gone"}
Writing   == {"taken", "active", "scanning", "ended", "refused"}
Settled   == {"completed", "failed"}

\* Once an ad-hoc run is queued its handler only waits for the answer.
HandedOver ==
  /\ \A w \in Workers : Held(w) /\ worker[w].job.id \in Callers => call[worker[w].job.id] \in Answering
  /\ \A i \in Slots : queue[i].id \in Callers => call[queue[i].id] \in Answering

\* Nobody is left to write the row of a run that has its final status.
NobodyWrites(c) ==
  /\ call[c] \notin {"idle", "submitted", "claimed", "marked", "sending", "refused"}
  /\ \A w \in Workers : worker[w].pc \in Writing => worker[w].job.id # c
  /\ \A i \in Slots : queue[i].id # c

AdHocInv == HandedOver /\ \A c \in Callers : adhoc[c] \in Settled => NobodyWrites(c)

\* A step that queues and dequeues nothing, gives no worker a job and lets no worker write again.
LEMMA AdHocFrame ==
  ASSUME LockInv, AdHocInv, UNCHANGED queue,
         \A w \in Workers : /\ Held(w)' => Held(w) /\ worker'[w].job = worker[w].job
                            /\ worker'[w].pc \in Writing => worker[w].pc \in Writing,
         \A c \in Callers : call[c] \in Answering => call'[c] \in Answering,
         \A c \in Callers : adhoc'[c] \in Settled =>
           \/ /\ adhoc[c] \in Settled
              /\ call'[c] = call[c] \/ call'[c] \in Answering \cup {"rejected", "panicked", "busy", "in_blackout"}
           \/ NobodyWrites(c)'
  PROVE  AdHocInv'
<1>1. Slots' = Slots
  BY DEF Slots
<1>2. \A w \in Workers : worker'[w].pc \in Writing => Held(w)'
  BY DEF Writing, Held, HoldingPCs
<1>3. HandedOver'
  BY <1>1 DEF AdHocInv, HandedOver
<1>4. ASSUME NEW c \in Callers, adhoc'[c] \in Settled
      PROVE  NobodyWrites(c)'
  BY <1>1, <1>2, <1>4 DEF AdHocInv, NobodyWrites, Answering
<1>5. QED
  BY <1>3, <1>4 DEF AdHocInv

\* The status of a run that a worker or a handler has is nobody else's to write.
LEMMA OneWriter ==
  ASSUME LockInv, AdHocInv, NEW c \in Callers
  PROVE  /\ Asks(c) => /\ \A w \in Workers : Held(w) => worker[w].job.id # c
                       /\ \A i \in Slots : queue[i].id # c
         /\ \A w \in Workers : Held(w) /\ worker[w].job.id = c =>
              /\ call[c] \in Answering
              /\ \A v \in Workers \ {w} : Held(v) => worker[v].job.id # c
              /\ \A i \in Slots : queue[i].id # c
<1>1. ASSUME Asks(c)
      PROVE  /\ \A w \in Workers : Held(w) => worker[w].job.id # c
             /\ \A i \in Slots : queue[i].id # c
  BY <1>1 DEF LockInv, Apart, WT, QT
<1>2. ASSUME NEW w \in Workers, Held(w), worker[w].job.id = c
      PROVE  /\ call[c] \in Answering
             /\ \A v \in Workers \ {w} : Held(v) => worker[v].job.id # c
             /\ \A i \in Slots : queue[i].id # c
  BY <1>2 DEF LockInv, Apart, WT, QT, AdHocInv, HandedOver
<1>3. QED
  BY <1>1, <1>2

\* The ticker queues schedules only.
LEMMA TickAdHoc ==
  ASSUME LockInv, AdHocInv, Ticker
  PROVE  AdHocInv' /\ UNCHANGED adhoc
<1>0. worker \in [Workers -> WorkerState] /\ queue \in Seq(Job) /\ tick \in TickState
  BY DEF LockInv, TypeOK
<1> USE DEF callVars, storeVars, poolVars
<1>a. CASE TickStart
  <2>1. UNCHANGED <<adhoc, call, queue>>
    BY <1>a DEF TickStart
  <2>2. \A w \in Workers : worker'[w].pc = worker[w].pc /\ worker'[w].job = worker[w].job
    BY <1>0, <1>a DEF TickStart, WorkerState
  <2>3. QED
    BY <2>1, <2>2, AdHocFrame DEF Held
<1>b. CASE TickList \/ TickClaim \/ TickBlackout \/ TickSkipRecord \/ TickSkipAdvance \/ TickEnd \/ TickExit
  <2>1. UNCHANGED <<adhoc, call, queue, worker>>
    <3>1. CASE TickList \/ TickEnd \/ TickExit
      BY <3>1 DEF TickList, TickEnd, TickExit
    <3>2. CASE TickClaim \/ TickBlackout
      <4>1. CASE TickClaim
        BY <4>1 DEF TickClaim
      <4>2. CASE TickBlackout
        BY <4>2 DEF TickBlackout
      <4>3. QED
        BY <3>2, <4>1, <4>2
    <3>3. CASE TickSkipRecord \/ TickSkipAdvance
      BY <3>3 DEF TickSkipRecord, TickSkipAdvance
    <3>4. QED
      BY <1>b, <3>1, <3>2, <3>3
  <2>2. QED
    BY <2>1, AdHocFrame DEF Held
<1>c. CASE TickDispatch
  <2>0. UNCHANGED <<adhoc, call, worker>>
    BY <1>c DEF TickDispatch
  <2>1. CASE UNCHANGED queue
    BY <2>0, <2>1, AdHocFrame DEF Held
  <2>2. CASE queue' = Append(queue, SchedCopy(tick.row))
    <3>1. SchedCopy(tick.row) \in Job /\ SchedCopy(tick.row).id \notin Callers
      <4>1. tick.row \in Copy
        BY <1>c DEF TickDispatch, LockInv, TypeOK
      <4>2. SchedCopy(tick.row).id = tick.row.id /\ tick.row.id \in Schedules
        BY <4>1 DEF SchedCopy, Copy
      <4>3. QED
        BY <4>1, <4>2, JobOfCopy, SchedAssumption DEF SchedCopy
    <3>2. PICK n : Appended(n, SchedCopy(tick.row))
      BY <1>0, <2>2, <3>1, AppendIds
    <3>3. HandedOver'
      BY <2>0, <3>1, <3>2 DEF AdHocInv, HandedOver, Held, Appended
    <3>4. \A c \in Callers : adhoc'[c] \in Settled => NobodyWrites(c)'
      BY <2>0, <3>1, <3>2 DEF AdHocInv, NobodyWrites, Appended
    <3>5. QED
      BY <2>0, <3>3, <3>4 DEF AdHocInv
  <2>3. QED
    BY <1>c, <2>1, <2>2 DEF TickDispatch
<1>d. QED
  BY <1>a, <1>b, <1>c DEF Ticker

\* A job that a worker takes was in the queue.
LEMMA TakeAdHoc ==
  ASSUME LockInv, AdHocInv, NEW w \in Workers, WorkerTake(w)
  PROVE  AdHocInv' /\ UNCHANGED adhoc
<1>0. worker \in [Workers -> WorkerState] /\ queue \in Seq(Job)
  BY DEF LockInv, TypeOK
<1>1. UNCHANGED <<adhoc, call>> /\ queue # <<>> /\ queue' = Tail(queue)
  BY DEF WorkerTake, callVars, storeVars
<1>2. /\ Len(queue) \in Nat /\ Len(queue) > 0 /\ Len(queue') = Len(queue) - 1
      /\ Head(queue) = queue[1]
      /\ \A i \in 1..Len(queue') : queue'[i] = queue[i+1]
  BY <1>0, <1>1, HeadTailProperties, EmptySeq
<1>3. 1 \in Slots /\ \A i \in Slots' : i + 1 \in Slots /\ queue'[i] = queue[i+1]
  BY <1>2 DEF Slots
<1>4. worker'[w].pc = "taken" /\ worker'[w].job = queue[1]
  <2>1. worker'[w] = [IdleWorker EXCEPT !.pc = "taken", !.job = Head(queue)]
    BY <1>0 DEF WorkerTake
  <2>2. QED
    BY <1>2, <2>1 DEF IdleWorker
<1>5. \A v \in Workers \ {w} : worker'[v] = worker[v]
  BY <1>0 DEF WorkerTake
<1>6. HandedOver'
  BY <1>1, <1>3, <1>4, <1>5 DEF AdHocInv, HandedOver, Held
<1>7. ASSUME NEW c \in Callers, adhoc'[c] \in Settled PROVE NobodyWrites(c)'
  <2>1. NobodyWrites(c)
    BY <1>1, <1>7 DEF AdHocInv
  <2>2. \A i \in Slots' : queue'[i].id # c
    BY <1>3, <2>1 DEF NobodyWrites
  <2>3. worker'[w].job.id # c
    BY <1>3, <1>4, <2>1 DEF NobodyWrites
  <2>4. \A v \in Workers : worker'[v].pc \in Writing => worker'[v].job.id # c
    BY <1>5, <2>1, <2>3 DEF NobodyWrites
  <2>5. QED
    BY <1>1, <2>1, <2>2, <2>4 DEF NobodyWrites
<1>8. QED
  BY <1>1, <1>6, <1>7 DEF AdHocInv

\* A worker writes the status of its own run, once, and then cannot any more.
LEMMA WorkAdHoc ==
  ASSUME LockInv, AdHocInv, NEW w \in Workers, Work(w)
  PROVE  AdHocInv' /\ \A c \in Callers : adhoc[c] \in Settled => adhoc'[c] = adhoc[c]
<1>0. worker \in [Workers -> WorkerState] /\ adhoc \in [Callers -> {"none", "pending", "running", "completed", "failed"}]
  BY DEF LockInv, TypeOK
<1>1. CASE WorkerTake(w)
  BY <1>1, TakeAdHoc
<1>2. CASE ~WorkerTake(w)
  <2>1. UNCHANGED <<call, queue>>
    BY <1>2 DEF Work, WorkerActivate, WorkerRegister, WorkerScanEnds, WorkerRecord, WorkerAdvance, WorkerReply,
                WorkerRefuse, WorkerFail, WorkerUntrack, WorkerRelease, WorkerLeave, WorkerExit, callVars
  <2>2. \A v \in Workers : /\ Held(v)' => Held(v) /\ worker'[v].job = worker[v].job
                           /\ worker'[v].pc \in Writing => worker[v].pc \in Writing
    <3> USE DEF Held, HoldingPCs, Goto, WorkerState, Writing
    <3>1. CASE WorkerActivate(w) \/ WorkerRegister(w)
      BY <1>0, <3>1 DEF WorkerActivate, WorkerRegister
    <3>2. CASE WorkerScanEnds(w)
      BY <1>0, <3>2 DEF WorkerScanEnds
    <3>3. CASE WorkerRecord(w) \/ WorkerAdvance(w) \/ WorkerReply(w)
      BY <1>0, <3>3 DEF WorkerRecord, WorkerAdvance, WorkerReply
    <3>4. CASE WorkerRefuse(w) \/ WorkerFail(w) \/ WorkerUntrack(w)
      BY <1>0, <3>4 DEF WorkerRefuse, WorkerFail, WorkerUntrack
    <3>5. CASE WorkerLeave(w) \/ WorkerExit(w)
      BY <1>0, <3>5 DEF WorkerLeave, WorkerExit
    <3>6. CASE WorkerRelease(w)
      BY <1>0, <3>6 DEF WorkerRelease, IdleWorker
    <3> QED
      BY <1>2, <3>1, <3>2, <3>3, <3>4, <3>5, <3>6 DEF Work
  <2>3. CASE UNCHANGED adhoc
    BY <2>1, <2>2, <2>3, AdHocFrame
  <2>4. CASE ~UNCHANGED adhoc
    <3>0. PICK c : c = worker[w].job.id
      OBVIOUS
    <3>1. /\ worker[w].pc \in Writing /\ Held(w) /\ worker'[w].pc \in {"recorded", "releasing"}
          /\ \E status \in Settled : adhoc' = [adhoc EXCEPT ![c] = status]
      <4>1. CASE WorkerRecord(w)
        BY <1>0, <2>4, <3>0, <4>1 DEF WorkerRecord, UpdateStatus, Goto, Writing, Held, HoldingPCs, Settled
      <4>2. CASE WorkerFail(w)
        BY <1>0, <2>4, <3>0, <4>2 DEF WorkerFail, UpdateStatus, Goto, Writing, Held, HoldingPCs, Settled
      <4>3. QED
        BY <1>2, <2>4, <4>1, <4>2 DEF Work, WorkerActivate, WorkerRegister, WorkerScanEnds, WorkerAdvance, WorkerReply,
             WorkerRefuse, WorkerUntrack, WorkerRelease, WorkerLeave, WorkerExit, storeVars
    <3>2. c \in Callers
      <4>1. CASE c \notin DOMAIN adhoc
        BY <1>0, <2>4, <3>1, <4>1
      <4>2. QED
        BY <1>0, <4>1
    <3>3. adhoc[c] \notin Settled
      BY <3>0, <3>1, <3>2 DEF AdHocInv, NobodyWrites
    <3>4. NobodyWrites(c)'
      <4>1. /\ call[c] \in Answering
            /\ \A v \in Workers \ {w} : Held(v) => worker[v].job.id # c
            /\ \A i \in Slots : queue[i].id # c
        BY <3>0, <3>1, <3>2, OneWriter
      <4>2. Slots' = Slots
        BY <2>1 DEF Slots
      <4>3. worker'[w].pc \notin Writing
        BY <3>1 DEF Writing
      <4>4. \A v \in Workers : worker'[v].pc \in Writing => Held(v) /\ worker'[v].job = worker[v].job
        BY <2>2 DEF Writing, Held, HoldingPCs
      <4>5. \A v \in Workers : worker'[v].pc \in Writing => worker'[v].job.id # c
        BY <4>1, <4>3, <4>4
      <4>6. \A i \in Slots' : queue'[i].id # c
        BY <2>1, <4>1, <4>2
      <4>7. QED
        BY <2>1, <4>1, <4>5, <4>6 DEF NobodyWrites, Answering
    <3>5. \A d \in Callers \ {c} : adhoc'[d] = adhoc[d]
      BY <1>0, <3>1
    <3>6. \A d \in Callers : adhoc'[d] \in Settled => adhoc[d] \in Settled \/ NobodyWrites(d)'
      <4>1. SUFFICES ASSUME NEW d \in Callers, d # c, adhoc'[d] \in Settled PROVE adhoc[d] \in Settled
        BY <3>4
      <4>2. QED
        BY <3>5, <4>1
    <3>7. AdHocInv'
      BY <2>1, <2>2, <3>6, AdHocFrame
    <3>8. QED
      BY <3>3, <3>5, <3>7
  <2>5. QED
    BY <2>3, <2>4
<1>3. QED
  BY <1>1, <1>2

\* A handler writes a final status only before the run is queued.
LEMMA CallAdHoc ==
  ASSUME LockInv, AdHocInv, NEW c \in Callers, CallSubmit(c) \/ Caller(c) \/ HangUp(c)
  PROVE  AdHocInv' /\ \A d \in Callers : adhoc[d] \in Settled => adhoc'[d] = adhoc[d]
<1>0. /\ call \in [Callers -> CallPCs] /\ queue \in Seq(Job)
      /\ adhoc \in [Callers -> {"none", "pending", "running", "completed", "failed"}]
  BY DEF LockInv, TypeOK
<1>1. UNCHANGED worker
  BY DEF CallSubmit, Caller, HangUp, CallClaim, CallBlackout, CallMark, CallCheckPool, CallSend, CallReject, CallReturn, poolVars
<1>2. \A d \in Callers \ {c} : call'[d] = call[d] /\ adhoc'[d] = adhoc[d]
  <2> USE DEF CallTo, UpdateStatus, storeVars
  <2>1. CASE CallSubmit(c) \/ HangUp(c) \/ CallReturn(c) \/ CallCheckPool(c)
    BY <1>0, <2>1 DEF CallSubmit, HangUp, CallReturn, CallCheckPool
  <2>2. CASE CallClaim(c) \/ CallBlackout(c) \/ CallSend(c)
    BY <1>0, <2>2 DEF CallClaim, CallBlackout, CallSend
  <2>3. CASE CallMark(c) \/ CallReject(c)
    BY <1>0, <2>3 DEF CallMark, CallReject
  <2>4. QED
    BY <2>1, <2>2, <2>3 DEF Caller
<1>3. CASE CallSubmit(c) \/ CallMark(c)
  <2>1. /\ call[c] \in {"idle", "claimed"} /\ call'[c] \in {"submitted", "marked"} /\ UNCHANGED queue
        /\ adhoc'[c] \in {adhoc[c], "pending", "running"}
    BY <1>0, <1>3 DEF CallSubmit, CallMark, CallTo, UpdateStatus, poolVars
  <2>2. adhoc[c] \notin Settled /\ adhoc'[c] \notin Settled
    BY <2>1 DEF AdHocInv, NobodyWrites, Settled
  <2>3. QED
    BY <1>1, <1>2, <2>1, <2>2, AdHocFrame DEF Held, Answering
<1>4. CASE CallReject(c)
  <2>1. /\ call[c] = "refused" /\ call'[c] = "rejected" /\ UNCHANGED queue
    BY <1>0, <1>4 DEF CallReject, CallTo, poolVars
  <2>2. adhoc[c] \notin Settled
    BY <2>1 DEF AdHocInv, NobodyWrites
  <2>3. NobodyWrites(c)'
    <3>1. /\ \A w \in Workers : Held(w) => worker[w].job.id # c
          /\ \A i \in Slots : queue[i].id # c
      BY <2>1, OneWriter DEF Asks, CallHoldPCs
    <3>2. \A w \in Workers : worker[w].pc \in Writing => Held(w)
      BY DEF Writing, Held, HoldingPCs
    <3>3. Slots' = Slots
      BY <2>1 DEF Slots
    <3>4. QED
      BY <1>1, <2>1, <3>1, <3>2, <3>3 DEF NobodyWrites
  <2>4. QED
    BY <1>1, <1>2, <2>1, <2>2, <2>3, AdHocFrame DEF Held, Answering
<1>5. CASE CallClaim(c) \/ CallBlackout(c) \/ CallCheckPool(c) \/ CallReturn(c) \/ HangUp(c)
  <2>1. UNCHANGED <<adhoc, queue>>
    BY <1>5 DEF CallClaim, CallBlackout, CallCheckPool, CallReturn, HangUp, poolVars, storeVars
  <2>2. /\ call[c] \in Answering => call'[c] \in Answering
        /\ \/ call'[c] = call[c] \/ call'[c] \in Answering
           \/ call[c] \in {"submitted", "claimed", "marked"}
    BY <1>0, <1>5 DEF CallClaim, CallBlackout, CallCheckPool, CallReturn, HangUp, CallTo, Answering
  <2>3. adhoc[c] \in Settled => call[c] \notin {"submitted", "claimed", "marked"}
    BY DEF AdHocInv, NobodyWrites
  <2>4. QED
    BY <1>1, <1>2, <2>1, <2>2, <2>3, AdHocFrame DEF Held
<1>6. CASE CallSend(c)
  <2>1. UNCHANGED adhoc /\ call[c] = "sending" /\ Asks(c)
    BY <1>6 DEF CallSend, storeVars, Asks, CallHoldPCs
  <2>2. adhoc[c] \notin Settled
    BY <2>1 DEF AdHocInv, NobodyWrites
  <2>3. CASE UNCHANGED queue
    BY <1>1, <1>2, <2>1, <2>2, <2>3, AdHocFrame DEF Held, Answering
  <2>4. CASE call'[c] = "waiting" /\ queue' = Append(queue, AdHocJob(c))
    <3>1. AdHocJob(c) \in Job /\ AdHocJob(c).id = c
      BY JobOfCall DEF AdHocJob
    <3>2. PICK n : Appended(n, AdHocJob(c))
      BY <1>0, <2>4, <3>1, AppendIds
    <3>3. HandedOver'
      <4>1. \A w \in Workers : Held(w)' /\ worker'[w].job.id \in Callers => call'[worker'[w].job.id] \in Answering
        BY <1>1, <1>2, <2>4 DEF AdHocInv, HandedOver, Held, Answering
      <4>2. ASSUME NEW i \in Slots', queue'[i].id \in Callers
            PROVE  call'[queue'[i].id] \in Answering
        <5>1. CASE queue'[i].id = c
          BY <2>4, <5>1 DEF Answering
        <5>2. CASE queue'[i].id # c
          <6>1. i \in Slots /\ queue'[i] = queue[i]
            BY <3>1, <3>2, <5>2 DEF Appended
          <6>2. call[queue[i].id] \in Answering
            BY <4>2, <6>1 DEF AdHocInv, HandedOver
          <6>3. QED
            BY <1>2, <4>2, <5>2, <6>1, <6>2
        <5>3. QED
          BY <5>1, <5>2
      <4>3. QED
        BY <4>1, <4>2 DEF HandedOver
    <3>4. ASSUME NEW d \in Callers, adhoc'[d] \in Settled
          PROVE  NobodyWrites(d)'
      <4>1. d # c /\ NobodyWrites(d)
        BY <2>1, <2>2, <3>4 DEF AdHocInv
      <4>2. \A i \in Slots' : queue'[i].id # d
        BY <3>1, <3>2, <4>1 DEF NobodyWrites, Appended
      <4>3. QED
        BY <1>1, <1>2, <4>1, <4>2 DEF NobodyWrites
    <3>5. QED
      BY <2>1, <3>3, <3>4 DEF AdHocInv
  <2>5. QED
    BY <1>0, <1>6, <2>1, <2>3, <2>4 DEF CallSend, CallTo
<1>7. QED
  BY <1>3, <1>4, <1>5, <1>6 DEF Caller

\* Shutdown and time write no status.
LEMMA StopAdHoc ==
  ASSUME LockInv, AdHocInv, Stopping \/ Around
  PROVE  AdHocInv' /\ UNCHANGED adhoc
<1>1. UNCHANGED <<adhoc, call, queue>>
  BY DEF Stopping, Around, StopCancel, StopPool, StopDone, StopExpire, AdvanceClock, EditBlackout,
         callVars, storeVars, poolVars
<1>2. \A w \in Workers : worker'[w].pc = worker[w].pc /\ worker'[w].job = worker[w].job
  <2>1. CASE StopCancel
    BY <2>1 DEF StopCancel, LockInv, TypeOK, WorkerState
  <2>2. CASE ~StopCancel
    BY <2>2 DEF Stopping, Around, StopPool, StopDone, StopExpire, AdvanceClock, EditBlackout, poolVars
  <2>3. QED
    BY <2>1, <2>2
<1>3. QED
  BY <1>1, <1>2, AdHocFrame DEF Held

\* No step leaves two writers of one row.
LEMMA NextAdHoc ==
  ASSUME LockInv, AdHocInv, [Next]_vars
  PROVE  AdHocInv' /\ \A c \in Callers : adhoc[c] \in Settled => adhoc'[c] = adhoc[c]
<1>1. CASE UNCHANGED vars
  BY <1>1, AdHocFrame DEF vars, Held
<1>2. CASE Next
  BY <1>2, NextCases, TickAdHoc, WorkAdHoc, CallAdHoc, StopAdHoc
<1>3. QED
  BY <1>1, <1>2

\* The final status of an ad-hoc run is written once, whatever the order of the worker, the handler, the
\* client that goes away and the shutdown, and whichever statements fail.
THEOREM AdHocStaysFinal == Spec => AdHocFinal
<1>1. Init => AdHocInv
  BY DEF Init, AdHocInv, HandedOver, NobodyWrites, Held, HoldingPCs, Slots, IdleWorker, Settled
<1>2. LockInv /\ AdHocInv /\ [Next]_vars => AdHocInv'
  BY NextAdHoc
<1>3. LockInv /\ AdHocInv /\ [Next]_vars
      => [\A c \in Callers : adhoc[c] \in {"completed", "failed"} => adhoc'[c] = adhoc[c]]_vars
  BY NextAdHoc DEF Settled
<1>4. QED
  BY <1>1, <1>2, <1>3, LockInvariant, PTL DEF Spec, AdHocFinal

-----------------------------------------------------------------------------
(* The scans of a target form a sequence: IntervalSched implements TargetSerial *)

\* Job id has the claim on target t, with the phase ph.
Has(t, id, ph) ==
  \/ \E w \in Workers : Held(w) /\ WT(w) = t /\ id = worker[w].job.id /\ ph = PhaseOf(worker[w].pc)
  \/ \E i \in Slots : QT(i) = t /\ id = queue[i].id /\ ph = "claimed"
  \/ \E c \in Callers : Asks(c) /\ TargetOf[c] = t /\ id = c /\ ph = "claimed"
  \/ TH /\ TT = t /\ id = tick.row.id /\ ph = "claimed"

\* The owner and the phase of each target, read off the claims.
TurnLaw(t) ==
  /\ t \notin locks => Turn(t) = Serial!Free
  /\ t \in locks => \E id, ph : Has(t, id, ph)
  /\ \A id, ph : Has(t, id, ph) => Turn(t) = [owner |-> id, phase |-> ph]
TurnLaws == \A t \in Targets : TurnLaw(t)

\* The one claim on a target is the one that Turn chooses.
LEMMA TurnOfClaim ==
  ASSUME LockInv, NEW t \in Targets, NEW a \in Claims(t)
  PROVE  Turn(t) = [owner |-> ClaimId(a), phase |-> IF a[1] = "worker" THEN PhaseOf(worker[a[2]].pc) ELSE "claimed"]
<1>1. \A b \in Claims(t) : b = a
  BY ApartIsOneJob DEF OneJobPerTarget
<1>2. (CHOOSE b \in Claims(t) : TRUE) = a
  BY <1>1
<1>3. Claims(t) # {}
  OBVIOUS
<1>4. QED
  BY <1>2, <1>3 DEF Turn

LEMMA TurnLawHolds ==
  ASSUME LockInv, NEW t \in Targets
  PROVE  TurnLaw(t)
<1>2. ASSUME t \notin locks PROVE Turn(t) = Serial!Free
  <2>1. Claims(t) = {}
    BY <1>2, LocksAreClaims DEF LockAccounted
  <2>2. QED
    BY <2>1 DEF Turn, Serial!Free
<1>3. ASSUME t \in locks PROVE \E id, ph : Has(t, id, ph)
  BY <1>3 DEF LockInv, Claimed, Has
<1>4. ASSUME NEW id, NEW ph, Has(t, id, ph) PROVE Turn(t) = [owner |-> id, phase |-> ph]
  <2>1. ASSUME NEW w \in Workers, Held(w), WT(w) = t, id = worker[w].job.id, ph = PhaseOf(worker[w].pc)
        PROVE  Turn(t) = [owner |-> id, phase |-> ph]
    <3>1. PICK a : a = <<"worker", w>>
      OBVIOUS
    <3>2. a \in Claims(t)
      BY <2>1, <3>1 DEF Claims, Held, WT
    <3>3. a[1] = "worker" /\ a[2] = w /\ ClaimId(a) = worker[w].job.id
      BY <3>1 DEF ClaimId
    <3>4. QED
      BY <2>1, <3>2, <3>3, TurnOfClaim
  <2>2. ASSUME NEW i \in Slots, QT(i) = t, id = queue[i].id, ph = "claimed"
        PROVE  Turn(t) = [owner |-> id, phase |-> ph]
    <3>1. PICK a : a = <<"queue", i>>
      OBVIOUS
    <3>2. a \in Claims(t)
      BY <2>2, <3>1 DEF Claims, Slots, QT
    <3>3. a[1] = "queue" /\ ClaimId(a) = queue[i].id
      BY <3>1 DEF ClaimId
    <3>4. QED
      BY <2>2, <3>2, <3>3, TurnOfClaim
  <2>3. ASSUME NEW c \in Callers, Asks(c), TargetOf[c] = t, id = c, ph = "claimed"
        PROVE  Turn(t) = [owner |-> id, phase |-> ph]
    <3>1. PICK a : a = <<"call", c>>
      OBVIOUS
    <3>2. a \in Claims(t)
      BY <2>3, <3>1 DEF Claims, Asks
    <3>3. a[1] = "call" /\ ClaimId(a) = c
      BY <3>1 DEF ClaimId
    <3>4. QED
      BY <2>3, <3>2, <3>3, TurnOfClaim
  <2>4. ASSUME TH, TT = t, id = tick.row.id, ph = "claimed"
        PROVE  Turn(t) = [owner |-> id, phase |-> ph]
    <3>1. PICK a : a = <<"tick", tick.row>>
      OBVIOUS
    <3>2. a \in Claims(t)
      BY <2>4, <3>1 DEF Claims, TH, TT
    <3>3. a[1] = "tick" /\ ClaimId(a) = tick.row.id
      BY <3>1 DEF ClaimId
    <3>4. QED
      BY <2>4, <3>2, <3>3, TurnOfClaim
  <2>5. QED
    BY <1>4, <2>1, <2>2, <2>3, <2>4 DEF Has
<1>5. QED
  BY <1>2, <1>3, <1>4 DEF TurnLaw

LEMMA TurnLawsHold == LockInv => TurnLaws
<1>1. ASSUME LockInv PROVE \A t \in Targets : TurnLaw(t)
  BY <1>1, TurnLawHolds, Zenon
<1>2. QED
  BY <1>1, Zenon DEF TurnLaws

LEMMA TurnLawsNext == LockInv' => TurnLaws'
  BY TurnLawsHold, PTL

\* A target whose claim only changes hands keeps its owner and its phase.
LEMMA TurnKept ==
  ASSUME TurnLaws, TurnLaws', NEW t \in Targets, t \in locks' <=> t \in locks,
         \A id, ph : Has(t, id, ph) => Has(t, id, ph)'
  PROVE  Turn(t)' = Turn(t)
<1>1. CASE t \in locks
  <2>1. PICK id, ph : Has(t, id, ph)
    BY <1>1 DEF TurnLaws, TurnLaw
  <2>2. Turn(t) = [owner |-> id, phase |-> ph] /\ Turn(t)' = [owner |-> id, phase |-> ph]
    BY <2>1 DEF TurnLaws, TurnLaw
  <2>3. QED
    BY <2>2
<1>2. CASE t \notin locks
  BY <1>2 DEF TurnLaws, TurnLaw, Serial!Free
<1>3. QED
  BY <1>1, <1>2

\* The claims that a step leaves where they are.
LEMMA HasKept ==
  ASSUME NEW t, NEW id, NEW ph, Has(t, id, ph), UNCHANGED queue,
         \A w \in Workers : Held(w) /\ WT(w) = t =>
           Held(w)' /\ worker'[w].job = worker[w].job /\ PhaseOf(worker'[w].pc) = PhaseOf(worker[w].pc),
         \A c \in Callers : Asks(c) /\ TargetOf[c] = t => Asks(c)',
         TH /\ TT = t => TH' /\ tick'.row = tick.row
  PROVE  Has(t, id, ph)'
<1>1. ASSUME NEW w \in Workers, Held(w), WT(w) = t, id = worker[w].job.id, ph = PhaseOf(worker[w].pc)
      PROVE  Has(t, id, ph)'
  BY <1>1 DEF Has, WT
<1>2. ASSUME NEW i \in Slots, QT(i) = t, id = queue[i].id, ph = "claimed"
      PROVE  Has(t, id, ph)'
  BY <1>2 DEF Has, QT, Slots
<1>3. ASSUME NEW c \in Callers, Asks(c), TargetOf[c] = t, id = c, ph = "claimed"
      PROVE  Has(t, id, ph)'
  BY <1>3 DEF Has
<1>4. ASSUME TH, TT = t, id = tick.row.id, ph = "claimed"
      PROVE  Has(t, id, ph)'
  BY <1>4 DEF Has, TT
<1>5. QED
  BY <1>1, <1>2, <1>3, <1>4 DEF Has

-----------------------------------------------------------------------------
(* What a step does to the claims *)

\* Turn and Spent stay.
Idles == (\A t \in Targets : Turn(t)' = Turn(t)) /\ Spent' = Spent

\* Job id claims the free target t.
Claimant(t, id) ==
  /\ t \in Targets /\ id \in Ids /\ TargetOf[id] = t
  /\ Turn(t) = Serial!Free /\ Turn(t)' = [owner |-> id, phase |-> "claimed"]
  /\ \A u \in Targets \ {t} : Turn(u)' = Turn(u)
  /\ id \notin Spent /\ Spent' = IF id \in Callers THEN Spent \cup {id} ELSE Spent

\* The turn of t goes from one phase to another, or ends.
Turns(t, from, to) ==
  /\ t \in Targets
  /\ Turn(t).phase \in from
  /\ \/ to = "free" /\ Turn(t)' = Serial!Free
     \/ to # "free" /\ Turn(t)' = [Turn(t) EXCEPT !.phase = to]
  /\ \A u \in Targets \ {t} : Turn(u)' = Turn(u)
  /\ Spent' = Spent

Table == [t \in Targets |-> Turn(t)]

LEMMA IdlesIsStutter == Idles => UNCHANGED Serial!vars
<1>1. SUFFICES ASSUME Idles PROVE [t \in Targets |-> Turn(t)]' = [t \in Targets |-> Turn(t)] /\ Spent' = Spent
  BY DEF Serial!vars
<1>2. \A t \in Targets : Turn(t)' = Turn(t)
  BY <1>1 DEF Idles
<1>3. QED
  BY <1>1, <1>2 DEF Idles

LEMMA ClaimantIsClaim == ASSUME NEW t, NEW id, Claimant(t, id) PROVE Serial!Next
<1>1. Table[t] = Serial!Free
  BY DEF Claimant, Table
<1>2. Table' = [Table EXCEPT ![t] = [owner |-> id, phase |-> "claimed"]]
  <2>1. \A u \in Targets : Turn(u)' = IF u = t THEN [owner |-> id, phase |-> "claimed"] ELSE Turn(u)
    BY DEF Claimant
  <2>2. QED
    BY <2>1 DEF Table
<1>3. Serial!Claim(t)
  BY <1>1, <1>2 DEF Serial!Claim, Claimant, Table, Ids
<1>4. QED
  BY <1>3 DEF Serial!Next, Claimant

LEMMA TurnsIsStep ==
  ASSUME NEW t, NEW from, NEW to, Turns(t, from, to),
         \/ from \subseteq {"claimed"} /\ to = "scanning"
         \/ from \subseteq {"claimed", "scanning"} /\ to = "finished"
         \/ from \subseteq {"claimed", "finished"} /\ to = "free"
  PROVE  Serial!Next
<1>1. Table[t].phase \in from /\ t \in Targets /\ Spent' = Spent
  BY DEF Turns, Table
<1>2. CASE to = "free"
  <2>1. \A u \in Targets : Turn(u)' = IF u = t THEN Serial!Free ELSE Turn(u)
    BY <1>2 DEF Turns
  <2>2. Table' = [Table EXCEPT ![t] = Serial!Free]
    BY <2>1 DEF Table
  <2>3. Serial!Vacate(t)
    BY <1>1, <1>2, <2>2 DEF Serial!Vacate, Table
  <2>4. QED
    BY <1>1, <2>3 DEF Serial!Next
<1>3. CASE to # "free"
  <2>1. \A u \in Targets : Turn(u)' = IF u = t THEN [Turn(u) EXCEPT !.phase = to] ELSE Turn(u)
    BY <1>3 DEF Turns
  <2>2. Table' = [Table EXCEPT ![t].phase = to]
    BY <2>1 DEF Table
  <2>3. Serial!Move(t, {"claimed"}, "scanning") \/ Serial!Move(t, {"claimed", "scanning"}, "finished")
    BY <1>1, <1>3, <2>2 DEF Serial!Move, Table
  <2>4. QED
    BY <1>1, <2>3 DEF Serial!Next, Serial!Begin, Serial!Finish
<1>4. QED
  BY <1>2, <1>3

\* A target all of whose claims stay where they are.
LEMMA KeepsTurn ==
  ASSUME TurnLaws, TurnLaws', NEW t \in Targets, t \in locks' <=> t \in locks, UNCHANGED queue,
         \A w \in Workers : Held(w) /\ WT(w) = t =>
           Held(w)' /\ worker'[w].job = worker[w].job /\ PhaseOf(worker'[w].pc) = PhaseOf(worker[w].pc),
         \A c \in Callers : Asks(c) /\ TargetOf[c] = t => Asks(c)',
         TH /\ TT = t => TH' /\ tick'.row = tick.row
  PROVE  Turn(t)' = Turn(t)
<1>1. ASSUME NEW id, NEW ph, Has(t, id, ph) PROVE Has(t, id, ph)'
  BY <1>1, HasKept
<1>2. QED
  BY <1>1, TurnKept

\* The ticker outside a claim.
LEMMA TickIdles ==
  ASSUME LockInv, TurnLaws, TurnLaws', Ticker, ~TickClaim, ~TickBlackout, ~TickDispatch
  PROVE  Idles
<1> USE DEF tickVars, callVars, poolVars, storeVars
<1>0. tick \in TickState /\ worker \in [Workers -> WorkerState]
  BY DEF LockInv, TypeOK
<1>1. CASE TickStart
  <2>1. UNCHANGED <<call, queue, locks>>
    BY <1>1 DEF TickStart
  <2>2. ~TH
    BY <1>1 DEF TickStart, TH
  <2>3. \A w \in Workers : worker'[w].pc = worker[w].pc /\ worker'[w].job = worker[w].job
    BY <1>0, <1>1 DEF TickStart, WorkerState
  <2>4. ASSUME NEW t \in Targets PROVE Turn(t)' = Turn(t)
    BY <2>1, <2>2, <2>3, KeepsTurn DEF Held, Asks
  <2>5. QED
    BY <2>1, <2>4 DEF Idles, Spent
<1>2. CASE TickList \/ TickSkipRecord \/ TickSkipAdvance \/ TickEnd \/ TickExit
  <2>1. UNCHANGED <<call, queue, locks, worker>>
    BY <1>2 DEF TickList, TickSkipRecord, TickSkipAdvance, TickEnd, TickExit
  <2>2. ~TH
    BY <1>2 DEF TickList, TickSkipRecord, TickSkipAdvance, TickEnd, TickExit, TH
  <2>4. ASSUME NEW t \in Targets PROVE Turn(t)' = Turn(t)
    BY <2>1, <2>2, KeepsTurn DEF Held, Asks
  <2>5. QED
    BY <2>1, <2>4 DEF Idles, Spent
<1>3. QED
  BY <1>1, <1>2 DEF Ticker

\* TryAcquire by the ticker.
LEMMA TickClaims ==
  ASSUME LockInv, LockInv', TurnLaws, TurnLaws', TickClaim
  PROVE  Idles \/ \E t, id : Claimant(t, id)
<1>1. PICK r \in due :
        IF TargetOf[r.id] \in locks
        THEN UNCHANGED <<locks, tick>>
        ELSE locks' = locks \cup {TargetOf[r.id]} /\ tick' = [tick EXCEPT !.pc = "claimed", !.row = r]
  BY Zenon DEF TickClaim, Busy
<1>2. UNCHANGED <<call, queue, worker>> /\ ~TH
  BY DEF TickClaim, TH, callVars, poolVars
<1>3. CASE UNCHANGED <<locks, tick>>
  <2>1. ASSUME NEW t \in Targets PROVE Turn(t)' = Turn(t)
    BY <1>2, <1>3, KeepsTurn DEF Held, Asks
  <2>2. QED
    BY <1>2, <2>1 DEF Idles, Spent
<1>4. CASE TargetOf[r.id] \notin locks
  <2>0. PICK t : t = TargetOf[r.id]
    OBVIOUS
  <2>1. r.id \in Schedules /\ t \in Targets
    BY <2>0, SchedAssumption DEF LockInv, TypeOK, Copy, Ids
  <2>2. locks' = locks \cup {t} /\ TH' /\ tick'.row = r
    <3>1. tick' = [tick EXCEPT !.pc = "claimed", !.row = r] /\ locks' = locks \cup {t}
      BY <1>1, <1>4, <2>0
    <3>2. tick'.pc = "claimed" /\ tick'.row = r
      BY <3>1 DEF LockInv, TypeOK, TickState
    <3>3. QED
      BY <3>1, <3>2 DEF TH
  <2>3. Turn(t) = Serial!Free
    BY <1>4, <2>0, <2>1 DEF TurnLaws, TurnLaw
  <2>4. Has(t, r.id, "claimed")'
    BY <2>0, <2>2 DEF Has, TT
  <2>5. Turn(t)' = [owner |-> r.id, phase |-> "claimed"]
    BY <2>1, <2>4 DEF TurnLaws, TurnLaw
  <2>6. ASSUME NEW u \in Targets \ {t} PROVE Turn(u)' = Turn(u)
    BY <1>2, <2>2, <2>6, KeepsTurn DEF Held, Asks
  <2>7. r.id \notin Spent /\ r.id \notin Callers /\ Spent' = Spent
    BY <1>2, <2>1, SchedAssumption DEF Spent
  <2>8. Claimant(t, r.id)
    BY <2>0, <2>1, <2>3, <2>5, <2>6, <2>7 DEF Claimant, Ids
  <2>9. QED
    BY <2>8
<1>5. QED
  BY <1>1, <1>3, <1>4

\* A claim is given back unused.
LEMMA GivesBack ==
  ASSUME TurnLaws, TurnLaws', NEW t \in Targets, NEW id, NEW ph, Has(t, id, ph), locks' = locks \ {t},
         \A u \in Targets \ {t} : Turn(u)' = Turn(u), Spent' = Spent
  PROVE  Turns(t, {ph}, "free")
<1>1. Turn(t) = [owner |-> id, phase |-> ph]
  BY DEF TurnLaws, TurnLaw
<1>2. Turn(t)' = Serial!Free
  BY DEF TurnLaws, TurnLaw, Serial!Free
<1>3. QED
  BY <1>1, <1>2 DEF Turns

\* What the ticker does with its claim.
LEMMA TickTurns ==
  ASSUME LockInv, LockInv', TurnLaws, TurnLaws', TickBlackout \/ TickDispatch
  PROVE  Idles \/ \E t : Turns(t, {"claimed"}, "free")
<1>0. PICK t : t = TT
  OBVIOUS
<1>1. UNCHANGED <<call, worker>> /\ TH /\ tick.row \in Copy
  BY DEF TickBlackout, TickDispatch, TH, callVars, poolVars, LockInv, TypeOK
<1>2. t \in Targets /\ Spent' = Spent
  BY <1>0, <1>1, SchedAssumption DEF TT, Copy, Ids, Spent
<1>3. Has(t, tick.row.id, "claimed")
  BY <1>0, <1>1 DEF Has
<1>4. CASE locks' = locks \ {t} /\ UNCHANGED queue
  <2>1. ASSUME NEW u \in Targets \ {t} PROVE Turn(u)' = Turn(u)
    BY <1>0, <1>1, <1>4, <2>1, KeepsTurn DEF Held, Asks
  <2>2. QED
    BY <1>2, <1>3, <1>4, <2>1, GivesBack
<1>5. CASE queue' = Append(queue, SchedCopy(tick.row)) /\ UNCHANGED locks
  <2>1. SchedCopy(tick.row) \in Job /\ SchedCopy(tick.row).id = tick.row.id
    BY <1>1, JobOfCopy DEF SchedCopy
  <2>2. PICK n : Appended(n, SchedCopy(tick.row))
    BY <1>5, <2>1, AppendIds DEF LockInv, TypeOK
  <2>3. ASSUME NEW u \in Targets, NEW id, NEW ph, Has(u, id, ph) PROVE Has(u, id, ph)'
    <3>1. CASE \/ \E w \in Workers : Held(w) /\ WT(w) = u /\ id = worker[w].job.id /\ ph = PhaseOf(worker[w].pc)
               \/ \E c \in Callers : Asks(c) /\ TargetOf[c] = u /\ id = c /\ ph = "claimed"
      BY <1>1, <3>1 DEF Has, Held, WT, Asks
    <3>2. CASE \E i \in Slots : QT(i) = u /\ id = queue[i].id /\ ph = "claimed"
      BY <2>2, <3>2 DEF Has, Appended, QT
    <3>3. CASE TT = u /\ id = tick.row.id /\ ph = "claimed"
      BY <2>1, <2>2, <3>3 DEF Has, Appended, QT, TT
    <3>4. QED
      BY <2>3, <3>1, <3>2, <3>3 DEF Has
  <2>4. ASSUME NEW u \in Targets PROVE Turn(u)' = Turn(u)
    BY <1>5, <2>3, TurnKept
  <2>5. QED
    BY <1>2, <2>4 DEF Idles
<1>6. QED
  BY <1>0, <1>4, <1>5 DEF TickBlackout, TickDispatch, Release, TT, poolVars

\* A worker takes over the claim of the job at the head of the channel.
LEMMA TakeIdles ==
  ASSUME LockInv, TurnLaws, TurnLaws', NEW w \in Workers, WorkerTake(w)
  PROVE  Idles
<1>0. worker \in [Workers -> WorkerState] /\ queue \in Seq(Job)
  BY DEF LockInv, TypeOK
<1>1. UNCHANGED <<call, tick, locks>> /\ queue # <<>> /\ queue' = Tail(queue) /\ ~Held(w)
  BY DEF WorkerTake, callVars, tickVars, Held, HoldingPCs
<1>2. /\ Len(queue) \in Nat /\ Len(queue) > 0 /\ Len(queue') = Len(queue) - 1
      /\ Head(queue) = queue[1]
      /\ \A i \in 1..Len(queue') : queue'[i] = queue[i+1]
  BY <1>0, <1>1, HeadTailProperties, EmptySeq
<1>3. worker'[w].pc = "taken" /\ worker'[w].job = queue[1]
  <2>1. worker'[w] = [IdleWorker EXCEPT !.pc = "taken", !.job = Head(queue)]
    BY <1>0 DEF WorkerTake
  <2>2. QED
    BY <1>2, <2>1 DEF IdleWorker
<1>4. \A v \in Workers \ {w} : worker'[v] = worker[v]
  BY <1>0 DEF WorkerTake
<1>5. Held(w)' /\ PhaseOf(worker'[w].pc) = "claimed"
  BY <1>3 DEF Held, HoldingPCs, PhaseOf
<1>6. \A i \in Slots : i = 1 \/ \E k \in Slots' : queue'[k] = queue[i]
  <2>1. SUFFICES ASSUME NEW i \in Slots, i # 1 PROVE \E k \in Slots' : queue'[k] = queue[i]
    OBVIOUS
  <2>2. i - 1 \in Slots' /\ i = (i - 1) + 1
    BY <1>2, <2>1 DEF Slots
  <2>3. QED
    BY <1>2, <2>2 DEF Slots
<1>7. ASSUME NEW t \in Targets, NEW id, NEW ph, Has(t, id, ph) PROVE Has(t, id, ph)'
  <2>1. CASE \E v \in Workers : Held(v) /\ WT(v) = t /\ id = worker[v].job.id /\ ph = PhaseOf(worker[v].pc)
    BY <1>1, <1>4, <2>1 DEF Has, Held, WT
  <2>2. CASE \E i \in Slots : QT(i) = t /\ id = queue[i].id /\ ph = "claimed"
    <3>1. PICK i \in Slots : QT(i) = t /\ id = queue[i].id /\ ph = "claimed"
      BY <2>2
    <3>2. CASE i = 1
      BY <1>3, <1>5, <3>1, <3>2 DEF Has, QT, WT
    <3>3. CASE i # 1
      BY <1>6, <3>1, <3>3 DEF Has, QT
    <3>4. QED
      BY <3>2, <3>3
  <2>3. CASE \/ \E c \in Callers : Asks(c) /\ TargetOf[c] = t /\ id = c /\ ph = "claimed"
             \/ TH /\ TT = t /\ id = tick.row.id /\ ph = "claimed"
    BY <1>1, <2>3 DEF Has, Asks, TH, TT
  <2>4. QED
    BY <1>7, <2>1, <2>2, <2>3 DEF Has
<1>8. ASSUME NEW t \in Targets PROVE Turn(t)' = Turn(t)
  BY <1>1, <1>7, TurnKept
<1>9. QED
  BY <1>1, <1>8 DEF Idles, Spent

\* The scan of a worker begins, ends or is refused.
LEMMA WorkTurns ==
  ASSUME LockInv, TurnLaws, TurnLaws', NEW w \in Workers, UNCHANGED <<call, tick, locks, queue>>,
         Held(w), Held(w)', worker'[w].job = worker[w].job,
         \A v \in Workers \ {w} : worker'[v] = worker[v],
         NEW to, to # "free", PhaseOf(worker'[w].pc) = to
  PROVE  Turns(WT(w), {PhaseOf(worker[w].pc)}, to)
<1>0. PICK t : t = WT(w)
  OBVIOUS
<1>1. t \in Targets /\ Spent' = Spent
  <2>1. worker[w].job \in Job
    BY DEF LockInv, TypeOK, Held
  <2>2. worker[w].job.id \in Ids
    BY <2>1 DEF Job
  <2>3. QED
    BY <1>0, <2>2, SchedAssumption DEF WT, Spent
<1>2. Has(t, worker[w].job.id, PhaseOf(worker[w].pc))
  BY <1>0 DEF Has
<1>3. Has(t, worker[w].job.id, to)'
  BY <1>0 DEF Has, WT
<1>4. /\ Turn(t) = [owner |-> worker[w].job.id, phase |-> PhaseOf(worker[w].pc)]
      /\ Turn(t)' = [owner |-> worker[w].job.id, phase |-> to]
  BY <1>1, <1>2, <1>3 DEF TurnLaws, TurnLaw
<1>5. ASSUME NEW u \in Targets \ {t} PROVE Turn(u)' = Turn(u)
  BY <1>0, <1>5, KeepsTurn DEF Held, Asks, TH
<1>6. Turn(t)' = [Turn(t) EXCEPT !.phase = to] /\ Turn(t).phase = PhaseOf(worker[w].pc)
  BY <1>4
<1>7. Turns(t, {PhaseOf(worker[w].pc)}, to)
  BY <1>1, <1>5, <1>6 DEF Turns
<1>8. QED
  BY <1>0, <1>7

\* A worker gives its target back.
LEMMA ReleaseTurns ==
  ASSUME LockInv, TurnLaws, TurnLaws', NEW w \in Workers, WorkerRelease(w)
  PROVE  Turns(WT(w), {"finished"}, "free")
<1>0. PICK t : t = WT(w)
  OBVIOUS
<1>1. /\ UNCHANGED <<call, tick, queue>> /\ locks' = locks \ {t}
      /\ worker[w].pc = "releasing" /\ Held(w)
  BY <1>0 DEF Release, WorkerRelease, callVars, tickVars, WT, Held, HoldingPCs
<1>2. t \in Targets /\ Spent' = Spent
  <2>1. worker[w].job \in Job
    BY <1>1 DEF LockInv, TypeOK, Held
  <2>2. worker[w].job.id \in Ids
    BY <2>1 DEF Job
  <2>3. QED
    BY <1>0, <1>1, <2>2, SchedAssumption DEF WT, Spent
<1>3. Has(t, worker[w].job.id, "finished")
  BY <1>0, <1>1 DEF Has, PhaseOf
<1>4. \A v \in Workers \ {w} : worker'[v] = worker[v]
  BY DEF WorkerRelease, LockInv, TypeOK
<1>5. ASSUME NEW u \in Targets \ {t} PROVE Turn(u)' = Turn(u)
  BY <1>0, <1>1, <1>4, <1>5, KeepsTurn DEF Held, Asks, TH
<1>6. QED
  BY <1>0, <1>1, <1>2, <1>3, <1>5, GivesBack

LEMMA WorkSerial ==
  ASSUME LockInv, TurnLaws, TurnLaws', NEW w \in Workers, Work(w)
  PROVE  Idles \/ Serial!Next
<1> USE DEF callVars, tickVars
<1>0. worker \in [Workers -> WorkerState]
  BY DEF LockInv, TypeOK
<1>1. CASE WorkerTake(w)
  BY <1>1, TakeIdles
<1>2. CASE WorkerRelease(w)
  BY <1>2, ReleaseTurns, TurnsIsStep
<1>3. CASE WorkerRegister(w) \/ WorkerScanEnds(w) \/ WorkerRefuse(w)
  <2>1. UNCHANGED <<call, tick, locks, queue>>
    BY <1>3 DEF WorkerRegister, WorkerScanEnds, WorkerRefuse
  <2>2. /\ worker'[w].job = worker[w].job
        /\ \/ worker[w].pc = "active" /\ worker'[w].pc = "scanning"
           \/ worker[w].pc = "scanning" /\ worker'[w].pc = "ended"
           \/ worker[w].pc = "active" /\ worker'[w].pc = "refused"
        /\ \A v \in Workers \ {w} : worker'[v] = worker[v]
    <3>1. CASE WorkerRegister(w)
      BY <1>0, <3>1 DEF WorkerRegister, WorkerState
    <3>2. CASE WorkerScanEnds(w)
      BY <1>0, <3>2 DEF WorkerScanEnds, WorkerState
    <3>3. CASE WorkerRefuse(w)
      BY <1>0, <3>3 DEF WorkerRefuse, Goto, WorkerState
    <3>4. QED
      BY <1>3, <3>1, <3>2, <3>3
  <2>3. Held(w) /\ Held(w)'
    BY <2>2 DEF Held, HoldingPCs
  <2>4. CASE worker'[w].pc = "scanning"
    <3>1. PhaseOf(worker[w].pc) = "claimed" /\ PhaseOf(worker'[w].pc) = "scanning"
      BY <2>2, <2>4 DEF PhaseOf
    <3>2. Turns(WT(w), {"claimed"}, "scanning")
      BY <2>1, <2>2, <2>3, <3>1, WorkTurns
    <3>3. QED
      BY <3>2, TurnsIsStep
  <2>5. CASE worker'[w].pc # "scanning"
    <3>1. PhaseOf(worker[w].pc) \in {"claimed", "scanning"} /\ PhaseOf(worker'[w].pc) = "finished"
      BY <2>2, <2>5 DEF PhaseOf
    <3>2. Turns(WT(w), {PhaseOf(worker[w].pc)}, "finished")
      BY <2>1, <2>2, <2>3, <3>1, WorkTurns
    <3>3. QED
      BY <3>1, <3>2, TurnsIsStep
  <2>6. QED
    BY <2>4, <2>5
<1>4. CASE \/ WorkerActivate(w) \/ WorkerRecord(w) \/ WorkerAdvance(w) \/ WorkerReply(w)
           \/ WorkerFail(w) \/ WorkerUntrack(w) \/ WorkerLeave(w) \/ WorkerExit(w)
  <2>1. UNCHANGED <<call, tick, locks, queue>>
    <3>1. CASE WorkerActivate(w) \/ WorkerRecord(w) \/ WorkerAdvance(w) \/ WorkerReply(w)
      BY <3>1 DEF WorkerActivate, WorkerRecord, WorkerAdvance, WorkerReply
    <3>2. CASE WorkerFail(w) \/ WorkerUntrack(w) \/ WorkerLeave(w) \/ WorkerExit(w)
      BY <3>2 DEF WorkerFail, WorkerUntrack, WorkerLeave, WorkerExit
    <3>3. QED
      BY <1>4, <3>1, <3>2
  <2>2. PICK pc : /\ worker' = [worker EXCEPT ![w].pc = pc]
                  /\ \/ worker[w].pc = "taken" /\ pc = "active"
                     \/ worker[w].pc = "ended" /\ pc = "recorded"
                     \/ worker[w].pc = "recorded" /\ pc = "untracking"
                     \/ worker[w].pc \in {"refused", "untracking"} /\ pc = "releasing"
                     \/ worker[w].pc = "leaving" /\ pc = "idle"
                     \/ worker[w].pc = "idle" /\ pc = "exited"
    <3>1. CASE WorkerActivate(w) \/ WorkerRecord(w) \/ WorkerAdvance(w) \/ WorkerReply(w)
      BY <3>1 DEF WorkerActivate, WorkerRecord, WorkerAdvance, WorkerReply, Goto
    <3>2. CASE WorkerFail(w) \/ WorkerUntrack(w) \/ WorkerLeave(w) \/ WorkerExit(w)
      BY <3>2 DEF WorkerFail, WorkerUntrack, WorkerLeave, WorkerExit, Goto
    <3>3. QED
      BY <1>4, <3>1, <3>2
  <2>3. /\ worker'[w].pc = pc /\ worker'[w].job = worker[w].job
        /\ \A v \in Workers \ {w} : worker'[v] = worker[v]
    BY <1>0, <2>2 DEF WorkerState
  <2>4. Held(w) => Held(w)' /\ PhaseOf(worker'[w].pc) = PhaseOf(worker[w].pc)
    BY <2>2, <2>3 DEF Held, HoldingPCs, PhaseOf
  <2>5. ASSUME NEW t \in Targets PROVE Turn(t)' = Turn(t)
    <3>1. \A v \in Workers : Held(v) /\ WT(v) = t =>
            Held(v)' /\ worker'[v].job = worker[v].job /\ PhaseOf(worker'[v].pc) = PhaseOf(worker[v].pc)
      BY <2>3, <2>4 DEF Held
    <3>2. QED
      BY <2>1, <3>1, KeepsTurn DEF Asks, TH
  <2>6. QED
    BY <2>1, <2>5 DEF Idles, Spent
<1>5. QED
  BY <1>1, <1>2, <1>3, <1>4 DEF Work

\* A handler outside a claim, or inside one that stays its own.
LEMMA CallIdles ==
  ASSUME LockInv, TurnLaws, TurnLaws', NEW c \in Callers,
         UNCHANGED <<worker, tick, queue, locks>>, \A d \in Callers : Asks(d) => Asks(d)'
  PROVE  \A t \in Targets : Turn(t)' = Turn(t)
<1>1. ASSUME NEW t \in Targets PROVE Turn(t)' = Turn(t)
  BY KeepsTurn DEF Held, TH
<1>2. QED
  BY <1>1

\* TryAcquire by a handler.
LEMMA CallClaims ==
  ASSUME LockInv, TurnLaws, TurnLaws', NEW c \in Callers, CallClaim(c)
  PROVE  Idles \/ \E t, id : Claimant(t, id)
<1>0. call \in [Callers -> CallPCs]
  BY DEF LockInv, TypeOK
<1>1. UNCHANGED <<worker, tick, queue>> /\ call[c] = "submitted"
  BY DEF CallClaim, poolVars, tickVars
<1>2. \A d \in Callers \ {c} : call'[d] = call[d]
  BY <1>0 DEF CallClaim, CallTo
<1>3. CASE call'[c] = "busy" /\ UNCHANGED locks
  <2>1. \A d \in Callers : Asks(d) => Asks(d)'
    BY <1>1, <1>2, <1>3 DEF Asks, CallHoldPCs
  <2>2. Spent' = Spent
    <3>1. \A d \in Callers : call[d] \in {"idle", "submitted", "busy"} <=> call'[d] \in {"idle", "submitted", "busy"}
      BY <1>1, <1>2, <1>3
    <3>2. QED
      BY <3>1 DEF Spent
  <2>3. QED
    BY <1>1, <1>3, <2>1, <2>2, CallIdles DEF Idles
<1>4. CASE call'[c] = "claimed" /\ TargetOf[c] \notin locks /\ locks' = locks \cup {TargetOf[c]}
  <2>0. PICK t : t = TargetOf[c]
    OBVIOUS
  <2>1. t \in Targets /\ c \in Ids
    BY <2>0, SchedAssumption DEF Ids
  <2>2. Turn(t) = Serial!Free
    BY <1>4, <2>0, <2>1 DEF TurnLaws, TurnLaw
  <2>3. Has(t, c, "claimed")'
    BY <1>4, <2>0 DEF Has, Asks, CallHoldPCs
  <2>4. Turn(t)' = [owner |-> c, phase |-> "claimed"]
    BY <2>1, <2>3 DEF TurnLaws, TurnLaw
  <2>5. ASSUME NEW u \in Targets \ {t} PROVE Turn(u)' = Turn(u)
    <3>1. \A d \in Callers : Asks(d) => Asks(d)'
      BY <1>1, <1>2 DEF Asks, CallHoldPCs
    <3>2. QED
      BY <1>1, <1>4, <2>0, <2>5, <3>1, KeepsTurn DEF Held, TH
  <2>6. c \notin Spent /\ Spent' = Spent \cup {c}
    <3>1. \A d \in Callers : d \in Spent' <=> d \in Spent \/ d = c
      BY <1>1, <1>2, <1>4 DEF Spent
    <3>2. Spent \subseteq Callers /\ Spent' \subseteq Callers
      BY DEF Spent
    <3>3. QED
      BY <1>1, <3>1, <3>2 DEF Spent
  <2>7. Claimant(t, c)
    BY <2>0, <2>1, <2>2, <2>4, <2>5, <2>6 DEF Claimant
  <2>8. QED
    BY <2>7
<1>5. QED
  BY <1>0, <1>3, <1>4 DEF CallClaim, Busy, CallTo

\* A handler that gives its claim back.
LEMMA CallFrees ==
  ASSUME LockInv, TurnLaws, TurnLaws', NEW c \in Callers, CallBlackout(c) \/ CallReject(c)
  PROVE  Turns(TargetOf[c], {"claimed"}, "free")
<1>0. call \in [Callers -> CallPCs] /\ TargetOf[c] \in Targets
  BY SchedAssumption DEF LockInv, TypeOK, Ids
<1>1. /\ UNCHANGED <<worker, tick, queue>> /\ locks' = locks \ {TargetOf[c]}
      /\ call[c] \in {"claimed", "refused"} /\ call'[c] \in {"in_blackout", "rejected"}
      /\ \A d \in Callers \ {c} : call'[d] = call[d]
  BY <1>0 DEF CallBlackout, CallReject, Release, CallTo, poolVars, tickVars
<1>2. Has(TargetOf[c], c, "claimed")
  BY <1>1 DEF Has, Asks, CallHoldPCs
<1>3. Spent' = Spent
  <2>1. \A d \in Callers : call[d] \in {"idle", "submitted", "busy"} <=> call'[d] \in {"idle", "submitted", "busy"}
    BY <1>1
  <2>2. QED
    BY <2>1 DEF Spent
<1>4. ASSUME NEW u \in Targets \ {TargetOf[c]} PROVE Turn(u)' = Turn(u)
  <2>1. \A d \in Callers : Asks(d) /\ TargetOf[d] = u => Asks(d)'
    BY <1>1, <1>4 DEF Asks
  <2>2. QED
    BY <1>1, <1>4, <2>1, KeepsTurn DEF Held, TH
<1>5. QED
  BY <1>0, <1>1, <1>2, <1>3, <1>4, GivesBack

\* A handler sends its job, or keeps its claim.
LEMMA SendIdles ==
  ASSUME LockInv, TurnLaws, TurnLaws', NEW c \in Callers, CallSend(c)
  PROVE  Idles
<1>0. call \in [Callers -> CallPCs] /\ queue \in Seq(Job)
  BY DEF LockInv, TypeOK
<1>1. /\ UNCHANGED <<worker, tick, locks>> /\ call[c] = "sending" /\ Asks(c)
      /\ \A d \in Callers \ {c} : call'[d] = call[d]
  BY <1>0 DEF CallSend, CallTo, tickVars, Asks, CallHoldPCs
<1>2. CASE call'[c] \in {"panicked", "refused"} /\ UNCHANGED queue
  <2>1. \A d \in Callers : Asks(d) => Asks(d)'
    BY <1>1, <1>2 DEF Asks, CallHoldPCs
  <2>2. Spent' = Spent
    <3>1. \A d \in Callers : call[d] \in {"idle", "submitted", "busy"} <=> call'[d] \in {"idle", "submitted", "busy"}
      BY <1>1, <1>2
    <3>2. QED
      BY <3>1 DEF Spent
  <2>3. QED
    BY <1>1, <1>2, <2>1, <2>2, CallIdles DEF Idles
<1>3. CASE call'[c] = "waiting" /\ queue' = Append(queue, AdHocJob(c))
  <2>1. AdHocJob(c) \in Job /\ AdHocJob(c).id = c
    BY JobOfCall DEF AdHocJob
  <2>2. PICK n : Appended(n, AdHocJob(c))
    BY <1>0, <1>3, <2>1, AppendIds
  <2>3. ASSUME NEW u \in Targets, NEW id, NEW ph, Has(u, id, ph) PROVE Has(u, id, ph)'
    <3>1. CASE \/ \E w \in Workers : Held(w) /\ WT(w) = u /\ id = worker[w].job.id /\ ph = PhaseOf(worker[w].pc)
               \/ TH /\ TT = u /\ id = tick.row.id /\ ph = "claimed"
      BY <1>1, <3>1 DEF Has, Held, WT, TH, TT
    <3>2. CASE \E i \in Slots : QT(i) = u /\ id = queue[i].id /\ ph = "claimed"
      BY <2>2, <3>2 DEF Has, Appended, QT
    <3>3. CASE \E d \in Callers : Asks(d) /\ TargetOf[d] = u /\ id = d /\ ph = "claimed"
      <4>1. PICK d \in Callers : Asks(d) /\ TargetOf[d] = u /\ id = d /\ ph = "claimed"
        BY <3>3
      <4>2. CASE d = c
        BY <2>1, <2>2, <4>1, <4>2 DEF Has, Appended, QT
      <4>3. CASE d # c
        BY <1>1, <4>1, <4>3 DEF Has, Asks
      <4>4. QED
        BY <4>2, <4>3
    <3>4. QED
      BY <2>3, <3>1, <3>2, <3>3 DEF Has
  <2>4. ASSUME NEW u \in Targets PROVE Turn(u)' = Turn(u)
    BY <1>1, <2>3, TurnKept
  <2>5. Spent' = Spent
    <3>1. \A d \in Callers : call[d] \in {"idle", "submitted", "busy"} <=> call'[d] \in {"idle", "submitted", "busy"}
      BY <1>1, <1>3
    <3>2. QED
      BY <3>1 DEF Spent
  <2>6. QED
    BY <2>4, <2>5 DEF Idles
<1>4. QED
  BY <1>0, <1>2, <1>3 DEF CallSend, CallTo

LEMMA CallSerial ==
  ASSUME LockInv, TurnLaws, TurnLaws', NEW c \in Callers, CallSubmit(c) \/ Caller(c) \/ HangUp(c)
  PROVE  Idles \/ Serial!Next
<1>0. call \in [Callers -> CallPCs]
  BY DEF LockInv, TypeOK
<1>1. CASE CallSubmit(c) \/ CallMark(c) \/ CallCheckPool(c) \/ CallReturn(c) \/ HangUp(c)
  <2>1. UNCHANGED <<worker, tick, queue, locks>>
    BY <1>1 DEF CallSubmit, CallMark, CallCheckPool, CallReturn, HangUp, tickVars, poolVars
  <2>2. /\ \A d \in Callers \ {c} : call'[d] = call[d]
        /\ \/ call'[c] = call[c]
           \/ call[c] = "idle" /\ call'[c] = "submitted"
           \/ call[c] \in {"claimed", "marked"} /\ call'[c] \in {"marked", "refused", "sending"}
           \/ call[c] = "waiting" /\ call'[c] \in {"answered", "gone"}
    BY <1>0, <1>1 DEF CallSubmit, CallMark, CallCheckPool, CallReturn, HangUp, CallTo
  <2>3. \A d \in Callers : Asks(d) => Asks(d)'
    BY <2>2 DEF Asks, CallHoldPCs
  <2>4. Spent' = Spent
    <3>1. \A d \in Callers : call[d] \in {"idle", "submitted", "busy"} <=> call'[d] \in {"idle", "submitted", "busy"}
      BY <2>2
    <3>2. QED
      BY <3>1 DEF Spent
  <2>5. QED
    BY <2>1, <2>3, <2>4, CallIdles DEF Idles
<1>2. CASE CallClaim(c)
  BY <1>2, CallClaims, ClaimantIsClaim
<1>3. CASE CallBlackout(c) \/ CallReject(c)
  BY <1>3, CallFrees, TurnsIsStep
<1>4. CASE CallSend(c)
  BY <1>4, SendIdles
<1>5. QED
  BY <1>1, <1>2, <1>3, <1>4 DEF Caller

LEMMA TickSerial ==
  ASSUME LockInv, LockInv', TurnLaws, TurnLaws', Ticker
  PROVE  Idles \/ Serial!Next
<1>1. CASE TickClaim
  BY <1>1, TickClaims, ClaimantIsClaim
<1>2. CASE TickBlackout \/ TickDispatch
  BY <1>2, TickTurns, TurnsIsStep
<1>3. CASE ~TickClaim /\ ~TickBlackout /\ ~TickDispatch
  BY <1>3, TickIdles
<1>4. QED
  BY <1>1, <1>2, <1>3

LEMMA StopSerial ==
  ASSUME LockInv, TurnLaws, TurnLaws', Stopping \/ Around
  PROVE  Idles
<1>1. UNCHANGED <<call, tick, queue, locks>>
  BY DEF Stopping, Around, StopCancel, StopPool, StopDone, StopExpire, AdvanceClock,
         EditBlackout, callVars, tickVars, poolVars
<1>2. \A w \in Workers : worker'[w].pc = worker[w].pc /\ worker'[w].job = worker[w].job
  <2>1. CASE StopCancel
    BY <2>1 DEF StopCancel, LockInv, TypeOK, WorkerState
  <2>2. CASE ~StopCancel
    BY <2>2 DEF Stopping, Around, StopPool, StopDone, StopExpire, AdvanceClock, EditBlackout, poolVars
  <2>3. QED
    BY <2>1, <2>2
<1>3. ASSUME NEW t \in Targets PROVE Turn(t)' = Turn(t)
  BY <1>1, <1>2, KeepsTurn DEF Held, Asks, TH
<1>4. QED
  BY <1>1, <1>3 DEF Idles, Spent

LEMMA StepSerial ==
  ASSUME LockInv, LockInv', [Next]_vars
  PROVE  [Serial!Next]_(Serial!vars)
<1>1. TurnLaws /\ TurnLaws'
  BY TurnLawsHold, TurnLawsNext
<1>2. CASE UNCHANGED vars
  <2>1. ASSUME NEW t \in Targets PROVE Turn(t)' = Turn(t)
    BY <1>1, <1>2, KeepsTurn DEF vars, Held, Asks, TH
  <2>2. Idles
    BY <1>2, <2>1 DEF Idles, Spent, vars
  <2>3. QED
    BY <2>2, IdlesIsStutter
<1>3. CASE Next
  <2>1. Idles \/ Serial!Next
    BY <1>1, <1>3, NextCases, TickSerial, WorkSerial, CallSerial, StopSerial
  <2>2. QED
    BY <2>1, IdlesIsStutter
<1>4. QED
  BY <1>2, <1>3

LEMMA InitSerial == Init => Serial!Init
<1>1. SUFFICES ASSUME Init PROVE Serial!Init
  OBVIOUS
<1>2. TurnLaws
  BY <1>1, InitLockInv, TurnLawsHold
<1>3. ASSUME NEW t \in Targets PROVE Turn(t) = Serial!Free
  <2>1. t \notin locks
    BY <1>1 DEF Init
  <2>2. TurnLaw(t)
    BY <1>2, Zenon DEF TurnLaws
  <2>3. QED
    BY <2>1, <2>2 DEF TurnLaw
<1>4. Spent = {}
  BY <1>1 DEF Init, Spent
<1>5. QED
  BY <1>3, <1>4 DEF Serial!Init

\* Every behaviour of the scheduler is, target by target, a sequence of turns: one job claims the target,
\* scans it at most once and gives it back before the next one claims it, and an ad-hoc run has one turn at
\* most: the ticker, the handlers, the workers and Stop together implement TargetSerial.
THEOREM Serialized == Spec => SerialPerTarget
<1>1. LockInv /\ [Next]_vars => LockInv'
  BY NextLockInv
<1>2. LockInv /\ LockInv' /\ [Next]_vars => [Serial!Next]_(Serial!vars)
  BY StepSerial
<1>3. QED
  BY <1>1, <1>2, InitSerial, LockInvariant, PTL DEF Spec, SerialPerTarget, Serial!Spec

=============================================================================
