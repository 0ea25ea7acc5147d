---------------------------- MODULE IntervalSched ----------------------------
(***************************************************************************)
(* The scan scheduler of one agent process                                 *)
(* (internal/daemon/intervalsched): the master ticker, the worker pool,    *)
(* the per-target locks, the table of in-flight scans, ad-hoc dispatch     *)
(* from HTTP handlers, and shutdown.  Every blocking call, critical        *)
(* section and SQL statement of the code is a step of its own, so that the *)
(* ticker, the workers, the HTTP handlers and Stop interleave between them.*)
(***************************************************************************)
EXTENDS Recurrence, Sequences, FiniteSets

CONSTANTS Schedules,     \* rows of scan_schedules
          Callers,       \* ad-hoc runs: one HTTP request, one ad_hoc_scan_runs row each
          TargetOf,      \* the target of each schedule and ad-hoc run (immutable)
          Workers,       \* worker goroutines of the pool: max_concurrent_scans of them
          Overhead,      \* listDueOverhead
          Unresolvable,  \* ad-hoc runs whose effective config does not resolve
          InitRow,       \* InitRow[s]: the row of schedule s when the process starts
          InitWindows,   \* the blackouts defined when the process starts
          MayEdit,       \* whether operators create and delete blackouts meanwhile
          MayHangUp,     \* whether the clients of ad-hoc requests may go away
          MayStop,       \* whether the process may be asked to shut down
          StoreFaults,   \* whether a SQL statement may fail ("database is locked")
          NoJob          \* no job, no row

Ids  == Schedules \cup Callers
Size == Cardinality(Workers)

\* A schedule row as ListDue returns it, and a Job of the pool: the copy of the
\* schedule (its rule) travels with the job and is not read again.
RunStatus == {"never", "success", "failed", "paused_blackout", "skipped_blackout"}
Row  == [enabled : BOOLEAN, next : Instants \cup {None}, rule : Rules, last : RunStatus]
Copy == [id : Schedules, next : Instants, rule : Rules]
Job  == [id : Ids, rule : Rules \cup {None}]

ASSUME SchedAssumption ==
  /\ Schedules \cap Callers = {}
  /\ TargetOf \in [Ids -> Targets]
  /\ Overhead \in Nat /\ IsFiniteSet(Workers)
  /\ Unresolvable \subseteq Callers
  /\ InitRow \in [Schedules -> Row]
  /\ InitWindows \subseteq Windows
  /\ MayEdit \in BOOLEAN /\ MayHangUp \in BOOLEAN /\ MayStop \in BOOLEAN /\ StoreFaults \in BOOLEAN
  /\ NoJob \notin Job /\ NoJob \notin Copy

VARIABLES
  clock,     \* Clock.Now()
  windows,   \* blackout_windows in the store
  cache,     \* BlackoutEvaluator: the windows as of its last Refresh
  rows,      \* scan_schedules, a function on the ids that have a row
  adhoc,     \* status column of ad_hoc_scan_runs
  call,      \* where each ad-hoc request is in DispatchAdHoc
  hungup,    \* ad-hoc requests whose client went away: their ctx is cancelled
  replied,   \* ad-hoc runs whose result channel holds the worker's answer
  locks,     \* TargetLockIndex: the targets whose lock is held
  queue,     \* WorkerPool.jobs, a channel with room for Size jobs
  worker,    \* the worker goroutines
  inflight,  \* Scheduler.inflight: id -> (the worker whose ctx it cancels, acquiredAt)
  tick,      \* the ticker goroutine: pc, the tick's now, quota = free - dispatched, row
  due,       \* rows of the current tick's list that it has not visited yet
  stop       \* progress of Scheduler.Stop

tickVars == <<tick, due>>
callVars == <<call, hungup, replied>>
poolVars == <<queue, worker>>
storeVars == <<windows, rows, adhoc>>
vars == <<clock, windows, cache, rows, adhoc, call, hungup, replied, locks,
          queue, worker, inflight, tick, due, stop>>

-----------------------------------------------------------------------------
(* Helpers *)

\* (Mutant: the tick loop and the workers do not watch the context.)
CtxDoneUnseen == FALSE

\* The run context is cancelled by Stop before anything else.
CtxDone == stop # "up"

\* WorkerPool.stopped: Stop closed the jobs channel.
PoolStopped == stop \in {"closed", "stopped", "abandoned"}

\* Whether a SQL statement succeeds: under the run context it fails once that is
\* cancelled; under context.Background it fails only by a fault of the store.
Fault == IF StoreFaults THEN {TRUE, FALSE} ELSE {TRUE}
RunCtxOutcomes == IF CtxDone THEN {FALSE} ELSE Fault
CallCtxOutcomes(c) == IF c \in hungup THEN {FALSE} ELSE Fault

\* (Mutants: no lock at all; only the scans of the in-flight table count; a
\* release that is forgotten; a table entry that is never deleted.)
BusyNever(t) == FALSE
BusyScanning(t) == \E e \in inflight : TargetOf[e.id] = t
ReleaseForgotten(t) == UNCHANGED locks
UntrackedNever(id) == inflight

\* TargetLockIndex.TryAcquire fails; Release; inflight.Delete.
Busy(t) == t \in locks
Release(t) == locks' = locks \ {t}
Untracked(id) == {e \in inflight : e.id # id}

\* IsActive first reloads a cache older than its TTL (ensureFreshLocked).
EnsureFresh == cache' \in {cache, windows}

\* An UPDATE of one schedule row; it changes nothing when the row is gone.
RecordRun(ok, s, status) ==
  rows' = IF ok /\ s \in DOMAIN rows THEN [rows EXCEPT ![s].last = status] ELSE rows
SetNextRunAt(ok, s, next) ==
  rows' = IF ok /\ s \in DOMAIN rows THEN [rows EXCEPT ![s].next = next] ELSE rows
UpdateStatus(ok, c, status) ==
  adhoc' = IF ok THEN [adhoc EXCEPT ![c] = status] ELSE adhoc

\* Compute the next run of the copy j from the wall clock and store it; on
\* ErrBlackoutSaturated the row keeps the next_run_at it has.
AdvanceRow(j) ==
  /\ EnsureFresh
  /\ \E next \in Instants \cup {None, Saturated}, ok \in RunCtxOutcomes :
       /\ next = ComputeNextRunAt(j.rule, cache', TargetOf[j.id], clock)
       /\ IF next = Saturated THEN UNCHANGED rows ELSE SetNextRunAt(ok, j.id, next)

\* A worker counts as active from just after it takes a job to just after the
\* job's Run returns; it runs a scan between its inflight entry and the end of it.
IdleWorker == [pc |-> "idle", job |-> NoJob, cause |-> "none", outcome |-> "none"]
Active == {w \in Workers : worker[w].pc \notin {"idle", "taken", "exited"}}
Free == Size - Cardinality(Active)

Goto(w, pc) == worker' = [worker EXCEPT ![w].pc = pc]
SchedCopy(r) == [id |-> r.id, rule |-> r.rule]
AdHocJob(c) == [id |-> c, rule |-> None]

\* The rows ListDue may return: the earliest "limit" rows that are enabled and due.
DueRows(now) == {s \in DOMAIN rows : /\ rows[s].enabled
                                     /\ rows[s].next # None
                                     /\ rows[s].next <= now}
CopyOf(s) == [id |-> s, next |-> rows[s].next, rule |-> rows[s].rule]
ListDue(now, limit) ==
  {D \in SUBSET {CopyOf(s) : s \in DueRows(now)} :
     /\ Cardinality(D) <= limit
     /\ Cardinality(D) = limit \/ Cardinality(D) = Cardinality(DueRows(now))
     /\ \A d \in D, s \in DueRows(now) : CopyOf(s) \in D \/ d.next <= rows[s].next}

-----------------------------------------------------------------------------
(* Environment: time passes, operators edit blackouts, clients hang up *)

AdvanceClock ==
  /\ clock < Horizon
  /\ clock' = clock + 1
  /\ UNCHANGED <<storeVars, cache, callVars, locks, poolVars, inflight, tickVars, stop>>

EditBlackout ==
  /\ MayEdit
  /\ \E w \in Windows : windows' = IF w \in windows THEN windows \ {w} ELSE windows \cup {w}
  /\ UNCHANGED <<clock, cache, rows, adhoc, callVars, locks, poolVars, inflight, tickVars, stop>>

HangUp(c) ==
  /\ MayHangUp
  /\ call[c] \in {"submitted", "claimed", "marked", "sending", "waiting"}
  /\ hungup' = hungup \cup {c}
  /\ UNCHANGED <<clock, storeVars, cache, call, replied, locks, poolVars, inflight, tickVars, stop>>

-----------------------------------------------------------------------------
(* The ticker: Scheduler.tickLoop, tick, handleBlackoutSkip *)

\* A tick is delivered, possibly late: "now" is when it fired, at or after the
\* previous one.  Refresh the blackout cache, then cancel every scan whose target
\* is blacked out now and was not when the scan was registered.
TickStart ==
  /\ tick.pc = "idle"
  /\ \E ok \in RunCtxOutcomes : IF ok THEN cache' = windows ELSE EnsureFresh
  /\ \E now \in tick.now..clock :
       /\ now = tick.now => now = clock
       /\ worker' = [w \in Workers |->
            IF /\ worker[w].cause = "none"
               /\ \E e \in inflight :
                    /\ e.worker = w
                    /\ IsActive(cache', TargetOf[e.id], now)
                    /\ ~IsActive(cache', TargetOf[e.id], e.since)
            THEN [worker[w] EXCEPT !.cause = "blackout"] ELSE worker[w]]
       /\ tick' = [tick EXCEPT !.pc = "listing", !.now = now]
  /\ UNCHANGED <<clock, storeVars, callVars, locks, queue, inflight, due, stop>>

TickList ==
  /\ tick.pc = "listing"
  /\ \/ /\ \E ok \in RunCtxOutcomes : Free <= 0 \/ ~ok
        /\ tick' = [tick EXCEPT !.pc = "idle"]
        /\ UNCHANGED due
     \/ /\ Free > 0
        /\ TRUE \in RunCtxOutcomes
        /\ due' \in ListDue(tick.now, Free + Overhead)
        /\ tick' = [tick EXCEPT !.pc = "looping", !.quota = Free]
  /\ UNCHANGED <<clock, storeVars, cache, callVars, locks, poolVars, inflight, stop>>

\* The next row of the list, in the order of next_run_at: its target's lock is
\* taken, or the row is passed over.
TickClaim ==
  /\ tick.pc = "looping"
  /\ tick.quota > 0
  /\ \E r \in due :
       /\ \A q \in due : r.next <= q.next
       /\ due' = due \ {r}
       /\ IF Busy(TargetOf[r.id])
          THEN UNCHANGED <<locks, tick>>
          ELSE /\ locks' = locks \cup {TargetOf[r.id]}
               /\ tick' = [tick EXCEPT !.pc = "claimed", !.row = r]
  /\ UNCHANGED <<clock, storeVars, cache, callVars, poolVars, inflight, stop>>

\* (Mutant: the row is dropped with the claim.)
TickBlackoutDropsRow ==
  /\ tick.pc = "claimed"
  /\ EnsureFresh
  /\ IsActive(cache', TargetOf[tick.row.id], tick.now)
  /\ Release(TargetOf[tick.row.id])
  /\ tick' = [tick EXCEPT !.pc = "skipping", !.row = NoJob]
  /\ UNCHANGED <<clock, storeVars, callVars, poolVars, inflight, due, stop>>

\* The claimed target is in a blackout: give the lock back and record a skip.
TickBlackout ==
  /\ tick.pc = "claimed"
  /\ EnsureFresh
  /\ IsActive(cache', TargetOf[tick.row.id], tick.now)
  /\ Release(TargetOf[tick.row.id])
  /\ tick' = [tick EXCEPT !.pc = "skipping"]
  /\ UNCHANGED <<clock, storeVars, callVars, poolVars, inflight, due, stop>>

TickDispatch ==
  /\ tick.pc = "claimed"
  /\ EnsureFresh
  /\ ~IsActive(cache', TargetOf[tick.row.id], tick.now)
  /\ IF Len(queue) < Size /\ ~PoolStopped
     THEN /\ queue' = Append(queue, SchedCopy(tick.row))
          /\ tick' = [tick EXCEPT !.pc = "looping", !.quota = @ - 1, !.row = NoJob]
          /\ UNCHANGED <<locks, due>>
     ELSE /\ Release(TargetOf[tick.row.id])
          /\ due' = {}
          /\ tick' = [tick EXCEPT !.pc = "looping", !.row = NoJob]
          /\ UNCHANGED queue
  /\ UNCHANGED <<clock, storeVars, callVars, worker, inflight, stop>>

TickSkipRecord ==
  /\ tick.pc = "skipping"
  /\ \E ok \in RunCtxOutcomes : RecordRun(ok, tick.row.id, "skipped_blackout")
  /\ tick' = [tick EXCEPT !.pc = "skipped"]
  /\ UNCHANGED <<clock, windows, cache, adhoc, callVars, locks, poolVars, inflight, due, stop>>

TickSkipAdvance ==
  /\ tick.pc = "skipped"
  /\ AdvanceRow(tick.row)
  /\ tick' = [tick EXCEPT !.pc = "looping", !.row = NoJob]
  /\ UNCHANGED <<clock, windows, adhoc, callVars, locks, poolVars, inflight, due, stop>>

TickEnd ==
  /\ tick.pc = "looping"
  /\ due = {} \/ tick.quota = 0
  /\ due' = {}
  /\ tick' = [tick EXCEPT !.pc = "idle", !.quota = 0]
  /\ UNCHANGED <<clock, storeVars, cache, callVars, locks, poolVars, inflight, stop>>

TickExit ==
  /\ tick.pc = "idle"
  /\ CtxDone
  /\ tick' = [tick EXCEPT !.pc = "exited"]
  /\ UNCHANGED <<clock, storeVars, cache, callVars, locks, poolVars, inflight, due, stop>>

Ticker == \/ TickStart \/ TickList \/ TickClaim \/ TickBlackout \/ TickDispatch
          \/ TickSkipRecord \/ TickSkipAdvance \/ TickEnd \/ TickExit

-----------------------------------------------------------------------------
(* A worker: WorkerPool.workerLoop around scanJobRunner.Run / runAdHoc *)

WorkerTake(w) ==
  /\ worker[w].pc = "idle"
  /\ queue # <<>>
  /\ worker' = [worker EXCEPT ![w] = [IdleWorker EXCEPT !.pc = "taken", !.job = Head(queue)]]
  /\ queue' = Tail(queue)
  /\ UNCHANGED <<clock, storeVars, cache, callVars, locks, inflight, tickVars, stop>>

\* active++
WorkerActivate(w) ==
  /\ worker[w].pc = "taken"
  /\ Goto(w, "active")
  /\ UNCHANGED <<clock, storeVars, cache, callVars, locks, queue, inflight, tickVars, stop>>

\* The effective config resolves; the scan is entered in the in-flight table
\* with a context of its own, derived from the pool's.
WorkerRegister(w) ==
  /\ worker[w].pc = "active"
  /\ worker[w].job.id \notin Unresolvable
  /\ inflight' = Untracked(worker[w].job.id)
                   \cup {[id |-> worker[w].job.id, worker |-> w, since |-> clock]}
  /\ worker' = [worker EXCEPT ![w].pc = "scanning",
                              ![w].cause = IF CtxDone THEN "shutdown" ELSE "none"]
  /\ UNCHANGED <<clock, storeVars, cache, callVars, locks, queue, tickVars, stop>>

\* Runner.Run returns.  A cancelled scan may still finish or fail on its own.
WorkerScanEnds(w) ==
  /\ worker[w].pc = "scanning"
  /\ \E outcome \in {"ok", "failed"} \cup (IF worker[w].cause # "none" THEN {"canceled"} ELSE {}) :
       worker' = [worker EXCEPT ![w].pc = "ended", ![w].outcome = outcome]
  /\ UNCHANGED <<clock, storeVars, cache, callVars, locks, queue, inflight, tickVars, stop>>

\* The outcome is persisted: a schedule's under the pool's context, an ad-hoc
\* run's under context.Background.
WorkerRecord(w) ==
  LET id == worker[w].job.id
      out == worker[w].outcome
  IN  /\ worker[w].pc = "ended"
      /\ IF id \in Schedules
         THEN /\ \E ok \in RunCtxOutcomes :
                   RecordRun(ok, id, IF out = "ok" THEN "success"
                                     ELSE IF out = "canceled" /\ worker[w].cause = "blackout"
                                          THEN "paused_blackout" ELSE "failed")
              /\ UNCHANGED adhoc
         ELSE /\ \E ok \in Fault :
                   UpdateStatus(ok, id, IF out = "ok" THEN "completed" ELSE "failed")
              /\ UNCHANGED rows
      /\ Goto(w, "recorded")
      /\ UNCHANGED <<clock, windows, cache, callVars, locks, queue, inflight, tickVars, stop>>

\* next_run_at is recomputed from the copy of the schedule that was dispatched.
WorkerAdvance(w) ==
  /\ worker[w].pc = "recorded"
  /\ worker[w].job.id \in Schedules
  /\ AdvanceRow(worker[w].job)
  /\ Goto(w, "untracking")
  /\ UNCHANGED <<clock, windows, adhoc, callVars, locks, queue, inflight, tickVars, stop>>

WorkerReply(w) ==
  /\ worker[w].pc = "recorded"
  /\ worker[w].job.id \in Callers
  /\ replied' = replied \cup {worker[w].job.id}
  /\ Goto(w, "untracking")
  /\ UNCHANGED <<clock, storeVars, cache, call, hungup, locks, queue, inflight, tickVars, stop>>

\* An ad-hoc run whose config does not resolve: the caller is answered first,
\* then the row is failed.
WorkerRefuse(w) ==
  /\ worker[w].pc = "active"
  /\ worker[w].job.id \in Unresolvable
  /\ replied' = replied \cup {worker[w].job.id}
  /\ Goto(w, "refused")
  /\ UNCHANGED <<clock, storeVars, cache, call, hungup, locks, queue, inflight, tickVars, stop>>

\* (Mutant: the early return skips the release.)
WorkerFailLeaks(w) ==
  /\ worker[w].pc = "refused"
  /\ \E ok \in Fault : UpdateStatus(ok, worker[w].job.id, "failed")
  /\ Goto(w, "leaving")
  /\ UNCHANGED <<clock, windows, cache, rows, callVars, locks, queue, inflight, tickVars, stop>>

WorkerFail(w) ==
  /\ worker[w].pc = "refused"
  /\ \E ok \in Fault : UpdateStatus(ok, worker[w].job.id, "failed")
  /\ Goto(w, "releasing")
  /\ UNCHANGED <<clock, windows, cache, rows, callVars, locks, queue, inflight, tickVars, stop>>

WorkerUntrack(w) ==
  /\ worker[w].pc = "untracking"
  /\ inflight' = Untracked(worker[w].job.id)
  /\ Goto(w, "releasing")
  /\ UNCHANGED <<clock, storeVars, cache, callVars, locks, queue, tickVars, stop>>

WorkerRelease(w) ==
  /\ worker[w].pc = "releasing"
  /\ Release(TargetOf[worker[w].job.id])
  /\ worker' = [worker EXCEPT ![w] = [IdleWorker EXCEPT !.pc = "leaving"]]
  /\ UNCHANGED <<clock, storeVars, cache, callVars, queue, inflight, tickVars, stop>>

\* active--
WorkerLeave(w) ==
  /\ worker[w].pc = "leaving"
  /\ Goto(w, "idle")
  /\ UNCHANGED <<clock, storeVars, cache, callVars, locks, queue, inflight, tickVars, stop>>

\* A worker leaves when the context is done, whether or not jobs are queued (the
\* select picks either), or when the channel is closed and drained.
WorkerExit(w) ==
  /\ worker[w].pc = "idle"
  /\ CtxDone \/ (PoolStopped /\ queue = <<>>)
  /\ Goto(w, "exited")
  /\ UNCHANGED <<clock, storeVars, cache, callVars, locks, queue, inflight, tickVars, stop>>

Work(w) ==
  \/ WorkerTake(w) \/ WorkerActivate(w) \/ WorkerRegister(w) \/ WorkerScanEnds(w)
  \/ WorkerRecord(w) \/ WorkerAdvance(w) \/ WorkerReply(w) \/ WorkerRefuse(w)
  \/ WorkerFail(w) \/ WorkerUntrack(w) \/ WorkerRelease(w) \/ WorkerLeave(w)
  \/ WorkerExit(w)

-----------------------------------------------------------------------------
(* An ad-hoc request: routeAdHoc, then Scheduler.DispatchAdHoc *)

CallTo(c, pc) == call' = [call EXCEPT ![c] = pc]

CallSubmit(c) ==
  /\ call[c] = "idle"
  /\ adhoc' = [adhoc EXCEPT ![c] = "pending"]
  /\ CallTo(c, "submitted")
  /\ UNCHANGED <<clock, windows, cache, rows, hungup, replied, locks, poolVars, inflight, tickVars, stop>>

CallClaim(c) ==
  /\ call[c] = "submitted"
  /\ IF Busy(TargetOf[c])
     THEN CallTo(c, "busy") /\ UNCHANGED locks
     ELSE CallTo(c, "claimed") /\ locks' = locks \cup {TargetOf[c]}
  /\ UNCHANGED <<clock, storeVars, cache, hungup, replied, poolVars, inflight, tickVars, stop>>

CallBlackout(c) ==
  /\ call[c] = "claimed"
  /\ EnsureFresh
  /\ IsActive(cache', TargetOf[c], clock)
  /\ Release(TargetOf[c])
  /\ CallTo(c, "in_blackout")
  /\ UNCHANGED <<clock, storeVars, hungup, replied, poolVars, inflight, tickVars, stop>>

CallMark(c) ==
  /\ call[c] = "claimed"
  /\ EnsureFresh
  /\ ~IsActive(cache', TargetOf[c], clock)
  /\ \E ok \in CallCtxOutcomes(c) : UpdateStatus(ok, c, "running")
  /\ CallTo(c, "marked")
  /\ UNCHANGED <<clock, windows, rows, hungup, replied, locks, poolVars, inflight, tickVars, stop>>

\* WorkerPool.Dispatch looks at "stopped" under the mutex and sends after
\* unlocking it: Stop may close the channel in between.
CallCheckPool(c) ==
  /\ call[c] = "marked"
  /\ CallTo(c, IF PoolStopped THEN "refused" ELSE "sending")
  /\ UNCHANGED <<clock, storeVars, cache, hungup, replied, locks, poolVars, inflight, tickVars, stop>>

\* A send on the closed channel panics in the handler's goroutine, which
\* net/http recovers: the handler is gone, its lock is not released.
CallSend(c) ==
  /\ call[c] = "sending"
  /\ IF PoolStopped THEN CallTo(c, "panicked") /\ UNCHANGED queue
     ELSE IF Len(queue) < Size
          THEN CallTo(c, "waiting") /\ queue' = Append(queue, AdHocJob(c))
          ELSE CallTo(c, "refused") /\ UNCHANGED queue
  /\ UNCHANGED <<clock, storeVars, cache, hungup, replied, locks, worker, inflight, tickVars, stop>>

\* (Mutant: the row of a rejected run is left as it is.)
CallRejectSilent(c) ==
  /\ call[c] = "refused"
  /\ Release(TargetOf[c])
  /\ CallTo(c, "rejected")
  /\ UNCHANGED <<clock, storeVars, cache, hungup, replied, poolVars, inflight, tickVars, stop>>

CallReject(c) ==
  /\ call[c] = "refused"
  /\ Release(TargetOf[c])
  /\ \E ok \in CallCtxOutcomes(c) : UpdateStatus(ok, c, "failed")
  /\ CallTo(c, "rejected")
  /\ UNCHANGED <<clock, windows, cache, rows, hungup, replied, poolVars, inflight, tickVars, stop>>

\* (Mutant: the row of a run whose client went away is failed.)
CallReturnFails(c) ==
  /\ call[c] = "waiting"
  /\ \/ c \in replied /\ CallTo(c, "answered") /\ UNCHANGED adhoc
     \/ c \in hungup  /\ CallTo(c, "gone") /\ UpdateStatus(TRUE, c, "failed")
  /\ UNCHANGED <<clock, windows, cache, rows, hungup, replied, locks, poolVars, inflight, tickVars, stop>>

CallReturn(c) ==
  /\ call[c] = "waiting"
  /\ \/ c \in replied /\ CallTo(c, "answered")
     \/ c \in hungup  /\ CallTo(c, "gone")
  /\ UNCHANGED <<clock, storeVars, cache, hungup, replied, locks, poolVars, inflight, tickVars, stop>>

Caller(c) == \/ CallClaim(c) \/ CallBlackout(c) \/ CallMark(c) \/ CallCheckPool(c)
             \/ CallSend(c) \/ CallReject(c) \/ CallReturn(c)

-----------------------------------------------------------------------------
(* Shutdown: Scheduler.Run once its context ends, Scheduler.Stop, WorkerPool.Stop *)

\* cancel(): every job context is derived from the run context.
StopCancel ==
  /\ MayStop
  /\ stop = "up"
  /\ stop' = "cancelled"
  /\ worker' = [w \in Workers |->
                  IF worker[w].pc = "scanning" /\ worker[w].cause = "none"
                  THEN [worker[w] EXCEPT !.cause = "shutdown"] ELSE worker[w]]
  /\ UNCHANGED <<clock, storeVars, cache, callVars, locks, queue, inflight, tickVars>>

\* (Mutant: the channel is closed without waiting for the tick loop.)
StopPoolEarly ==
  /\ stop = "cancelled"
  /\ stop' = "closed"
  /\ UNCHANGED <<clock, storeVars, cache, callVars, locks, poolVars, inflight, tickVars>>

\* The tick loop has exited: close the jobs channel.
StopPool ==
  /\ stop = "cancelled"
  /\ tick.pc = "exited"
  /\ stop' = "closed"
  /\ UNCHANGED <<clock, storeVars, cache, callVars, locks, poolVars, inflight, tickVars>>

StopDone ==
  /\ stop = "closed"
  /\ \A w \in Workers : worker[w].pc = "exited"
  /\ stop' = "stopped"
  /\ UNCHANGED <<clock, storeVars, cache, callVars, locks, poolVars, inflight, tickVars>>

\* The 30 seconds of Run's stopCtx are over before the goroutines are.
StopExpire ==
  /\ \/ stop = "cancelled" /\ tick.pc # "exited" /\ stop' = "expired"
     \/ stop = "closed" /\ (\E w \in Workers : worker[w].pc # "exited") /\ stop' = "abandoned"
  /\ UNCHANGED <<clock, storeVars, cache, callVars, locks, poolVars, inflight, tickVars>>

-----------------------------------------------------------------------------
(* The specification *)

Init ==
  /\ clock = 0
  /\ windows = InitWindows
  /\ cache = InitWindows
  /\ rows = InitRow
  /\ adhoc = [c \in Callers |-> "none"]
  /\ call = [c \in Callers |-> "idle"]
  /\ hungup = {}
  /\ replied = {}
  /\ locks = {}
  /\ queue = <<>>
  /\ worker = [w \in Workers |-> IdleWorker]
  /\ inflight = {}
  /\ tick = [pc |-> "idle", now |-> 0, quota |-> 0, row |-> NoJob]
  /\ due = {}
  /\ stop = "up"

Next ==
  \/ AdvanceClock
  \/ EditBlackout
  \/ Ticker
  \/ \E w \in Workers : Work(w)
  \/ \E c \in Callers : CallSubmit(c) \/ Caller(c) \/ HangUp(c)
  \/ StopCancel \/ StopPool \/ StopDone \/ StopExpire

Spec == Init /\ [][Next]_vars

\* Goroutines that can run do run, scans end, and Stop's steps are taken.  The
\* tick loop's select picks at random between a tick and the cancelled context,
\* so it exits if it may infinitely often.
Fairness ==
  /\ WF_vars(AdvanceClock)
  /\ WF_vars(Ticker)
  /\ SF_vars(TickExit)
  /\ \A w \in Workers : WF_vars(Work(w))
  /\ \A c \in Callers : WF_vars(Caller(c))
  /\ WF_vars(StopPool \/ StopDone)

FairSpec == Spec /\ Fairness

-----------------------------------------------------------------------------
(* Who holds the lock of a target *)

HoldingPCs  == {"taken", "active", "scanning", "ended", "recorded", "refused",
                "untracking", "releasing"}
TrackedPCs  == {"scanning", "ended", "recorded", "untracking"}
CallHoldPCs == {"claimed", "marked", "sending", "refused", "panicked"}

\* The claims on target t: the ticker or a handler between TryAcquire and
\* Dispatch, a queued job, a worker between taking a job and releasing its lock,
\* and a handler that panicked while it held the lock.
Claims(t) ==
       {<<"worker", w>> : w \in {w \in Workers : /\ worker[w].pc \in HoldingPCs
                                                 /\ TargetOf[worker[w].job.id] = t}}
  \cup {<<"queue", i>>  : i \in {i \in 1..Len(queue) : TargetOf[queue[i].id] = t}}
  \cup {<<"call", c>>   : c \in {c \in Callers : call[c] \in CallHoldPCs /\ TargetOf[c] = t}}
  \cup {<<"tick", j>>   : j \in {j \in {tick.row} : tick.pc = "claimed" /\ TargetOf[j.id] = t}}

-----------------------------------------------------------------------------
(* Properties *)

\* The type of the state.
WorkerPCs == {"idle", "taken", "active", "leaving", "exited"} \cup HoldingPCs
WorkerState == [pc : WorkerPCs, job : Job \cup {NoJob},
                cause : {"none", "blackout", "shutdown"},
                outcome : {"none", "ok", "failed", "canceled"}]
TickState == [pc : {"idle", "listing", "looping", "claimed", "skipping", "skipped", "exited"},
              now : Instants, quota : Int, row : Copy \cup {NoJob}]
CallPCs == {"idle", "submitted", "claimed", "busy", "in_blackout", "marked", "sending",
            "refused", "rejected", "panicked", "waiting", "answered", "gone"}
TypeOK ==
  /\ clock \in Instants
  /\ windows \subseteq Windows /\ cache \subseteq Windows
  /\ DOMAIN rows \subseteq Schedules /\ rows \in [DOMAIN rows -> Row]
  /\ adhoc \in [Callers -> {"none", "pending", "running", "completed", "failed"}]
  /\ call \in [Callers -> CallPCs]
  /\ hungup \subseteq Callers /\ replied \subseteq Callers
  /\ locks \subseteq Targets
  /\ queue \in Seq(Job)
  /\ worker \in [Workers -> WorkerState]
  /\ \A w \in Workers : worker[w].pc \in HoldingPCs => worker[w].job \in Job
  /\ inflight \subseteq [id : Ids, worker : Workers, since : Instants]
  /\ tick \in TickState
  /\ tick.pc \in {"claimed", "skipping", "skipped"} => tick.row \in Copy
  /\ due \subseteq Copy
  /\ stop \in {"up", "cancelled", "closed", "stopped", "expired", "abandoned"}

\* At most one scan of a target is anywhere between being claimed and being
\* released, whatever the ticker, the handlers and the workers do at once: what
\* TargetLockIndex is for (locks.go:5-7).
OneJobPerTarget == \A t \in Targets : \A a, b \in Claims(t) : a = b

\* A lock is held exactly while somebody is answerable for it: none leaks on a
\* rejected dispatch, a blackout or a failed run, and nobody releases the lock
\* under another job (TryAcquire / Release pairing across scheduler.go).
LockAccounted == \A t \in Targets : t \in locks <=> Claims(t) # {}

\* The in-flight table lists exactly the scans that run, each with the worker
\* whose context it cancels: a blackout reaches every running scan and never
\* the next job of a worker (inflight.Store / Delete in scanJobRunner).
ScansTracked ==
  {<<e.id, e.worker>> : e \in inflight}
    = {<<worker[w].job.id, w>> : w \in {w \in Workers : worker[w].pc \in TrackedPCs}}

\* While the ticker records a blackout skip of a schedule, with the lock already
\* given back, no run of that schedule is queued or executing, so the skip does
\* not overwrite the outcome of one (handleBlackoutSkip).
SkipIsIdle ==
  tick.pc \in {"skipping", "skipped"} =>
    /\ \A w \in Workers : worker[w].pc \in HoldingPCs => worker[w].job.id # tick.row.id
    /\ \A i \in 1..Len(queue) : queue[i].id # tick.row.id

\* The ticker never sends on the closed jobs channel, and once Stop returns
\* without a timeout no scan runs and no worker or ticker is left to write to
\* the store, so that the process may give up the scheduler lock (Scheduler.Stop,
\* WorkerPool.Stop).
StoppedIsQuiet ==
  /\ PoolStopped => tick.pc = "exited"
  /\ stop = "stopped" => inflight = {} /\ \A w \in Workers : worker[w].pc = "exited"

\* An ad-hoc run that is completed or failed stays so: the handler and the
\* worker never both write its final status (DispatchAdHoc, runAdHoc).
AdHocFinal ==
  [][\A c \in Callers : adhoc[c] \in {"completed", "failed"} => adhoc'[c] = adhoc[c]]_vars

\* Without a shutdown every schedule that comes due is run or skipped and gets
\* another next_run_at: no lock, queue or worker is stuck.
DueAdvances ==
  \A s \in Schedules, n \in Instants :
    (s \in DOMAIN rows /\ rows[s].enabled /\ rows[s].next = n /\ n <= clock)
      ~> (rows[s].next # n)

\* A queued ad-hoc request is answered: "the method blocks until the underlying
\* scan completes"; and every run that was marked running gets a final status: "on
\* completion it transitions to Completed (with scan_id attached) or Failed"
\* (scheduler.go:272-278).
AdHocSettles ==
  \A c \in Callers : /\ call[c] = "waiting" ~> call[c] \in {"answered", "gone"}
                     /\ adhoc[c] = "running" ~> adhoc[c] \in {"completed", "failed"}

\* A shutdown comes to an end: no goroutine waits for a lock, the queue or
\* another goroutine, so Stop returns or runs out of its 30 seconds.
ShutdownEnds == stop = "cancelled" ~> stop \in {"stopped", "expired", "abandoned"}
=============================================================================
