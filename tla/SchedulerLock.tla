---------------------------- MODULE SchedulerLock ----------------------------
(***************************************************************************)
(* The scheduler_lock row that agent processes on one database share       *)
(* (internal/storage/scheduler_lock.go, internal/cli/scheduler_lock.go)    *)
(* and the life of the processes that compete for it (cli/ui.go runUI,     *)
(* cli/daemon.go runDaemonRun).  Each transaction and each probe of a PID  *)
(* is one step; a SQLite transaction that cannot commit fails as a whole.  *)
(***************************************************************************)
EXTENDS Naturals

CONSTANTS Procs,        \* the (pid, hostname) pairs that ever run the scheduler
          HostOf,       \* the host of each
          StaleAfter,   \* schedulerLockStaleAfter, in units of heartbeat age
          Timely,       \* a live holder's heartbeat never gets older than StaleAfter
          MayCrash,     \* a process may end without releasing the row
          StoreFaults,  \* a SQL statement may fail ("database is locked")
          NoOne         \* no row; no holder seen

ASSUME LockAssumption ==
  /\ NoOne \notin Procs
  /\ DOMAIN HostOf = Procs
  /\ StaleAfter \in Nat
  /\ Timely \in BOOLEAN /\ MayCrash \in BOOLEAN /\ StoreFaults \in BOOLEAN

VARIABLES
  row,  \* scheduler_lock: its owner, and the age of heartbeat_at
  pc,   \* where each process is; "off": not running, or running as a mere viewer
  saw   \* the holder that came with ErrLockHeld

lockVars == <<row, pc, saw>>

NoRow == [owner |-> NoOne, age |-> 0]
MyRow(p) == [owner |-> p, age |-> 0]

\* The heartbeat goroutine runs from the acquisition to handle.Close; between its
\* end and the DELETE the row is still ours.
Beating == {"booted", "running", "draining"}
Holding == Beating \cup {"releasing"}
Pcs     == Holding \cup {"off", "probing", "forcing", "leaving"}

TypeOK ==
  /\ row \in [owner : Procs \cup {NoOne}, age : 0..StaleAfter + 1]
  /\ pc \in [Procs -> Pcs]
  /\ saw \in [Procs -> Procs \cup {NoOne}]

Init ==
  /\ row = NoRow
  /\ pc = [p \in Procs |-> "off"]
  /\ saw = [p \in Procs |-> NoOne]

Alive(p) == pc[p] # "off"

\* (Mutants: a heartbeat exactly StaleAfter old counts as stale; only a missing row
\* can be taken; any row is deleted.)
ReclaimableAtLimit == row.owner = NoOne \/ row.age >= StaleAfter
ReclaimableNever == row.owner = NoOne
OursAnyway(p) == row.owner # NoOne

\* Without a row, or with a heartbeat older than StaleAfter, the INSERT or UPDATE
\* goes ahead, whoever the owner is and whether or not it lives.
Reclaimable == row.owner = NoOne \/ row.age > StaleAfter

\* The WHERE clause of refresh and release.
Ours(p) == row.owner = p

-----------------------------------------------------------------------------
(* acquireSchedulerLock *)

Acquire(p) ==
  /\ pc[p] = "off"
  /\ Reclaimable
  /\ row' = MyRow(p)
  /\ pc' = [pc EXCEPT ![p] = "booted"]
  /\ UNCHANGED saw

\* ErrLockHeld, with a copy of the row read inside the transaction.
Refused(p) ==
  /\ pc[p] = "off"
  /\ ~Reclaimable
  /\ saw' = [saw EXCEPT ![p] = row.owner]
  /\ pc' = [pc EXCEPT ![p] = "probing"]
  /\ UNCHANGED row

\* The holder seen is on another host or its PID answers: its own, or that of an
\* unrelated program that has been given the same number.
GiveUp(p) ==
  /\ pc[p] = "probing"
  /\ pc' = [pc EXCEPT ![p] = "off"]
  /\ saw' = [saw EXCEPT ![p] = NoOne]
  /\ UNCHANGED row

JudgeDead(p) ==
  /\ pc[p] = "probing"
  /\ HostOf[saw[p]] = HostOf[p]
  /\ ~Alive(saw[p])
  /\ pc' = [pc EXCEPT ![p] = "forcing"]
  /\ UNCHANGED <<row, saw>>

\* The retry with staleAfter = 0.  heartbeat_at is stored in whole seconds and is
\* thus in the past of any clock reading: the row is overwritten, whoever owns it.
TakeOver(p) ==
  /\ pc[p] = "forcing"
  /\ row' = MyRow(p)
  /\ pc' = [pc EXCEPT ![p] = "booted"]
  /\ saw' = [saw EXCEPT ![p] = NoOne]

\* The retry fails: the transaction does, or the clock stands exactly at the
\* second of a heartbeat just written.
TakeOverFails(p) ==
  /\ pc[p] = "forcing"
  /\ StoreFaults \/ (row.owner # NoOne /\ row.age = 0)
  /\ pc' = [pc EXCEPT ![p] = "off"]
  /\ saw' = [saw EXCEPT ![p] = NoOne]
  /\ UNCHANGED row

-----------------------------------------------------------------------------
(* The holder *)

\* ReapOrphanedScans succeeds; the scheduler starts.
Boot(p) ==
  /\ pc[p] = "booted"
  /\ pc' = [pc EXCEPT ![p] = "running"]
  /\ UNCHANGED <<row, saw>>

\* ReapOrphanedScans fails: the lock is closed and the process ends.
BootFails(p) ==
  /\ pc[p] = "booted"
  /\ StoreFaults
  /\ pc' = [pc EXCEPT ![p] = "releasing"]
  /\ UNCHANGED <<row, saw>>

\* SIGTERM, or the HTTP server ends: runner.Stop waits for the scheduler.
Shutdown(p) ==
  /\ pc[p] = "running"
  /\ pc' = [pc EXCEPT ![p] = "draining"]
  /\ UNCHANGED <<row, saw>>

\* runner.Stop returned; handle.Close stops the heartbeat and waits for it.
StopHeartbeat(p) ==
  /\ pc[p] = "draining"
  /\ pc' = [pc EXCEPT ![p] = "releasing"]
  /\ UNCHANGED <<row, saw>>

\* The DELETE; a failure is logged and the row left behind.
ReleaseRow(p) ==
  /\ pc[p] = "releasing"
  /\ \/ row' = IF Ours(p) THEN NoRow ELSE row
     \/ StoreFaults /\ UNCHANGED row
  /\ pc' = [pc EXCEPT ![p] = "leaving"]
  /\ UNCHANGED saw

Exit(p) ==
  /\ pc[p] = "leaving"
  /\ pc' = [pc EXCEPT ![p] = "off"]
  /\ UNCHANGED <<row, saw>>

\* RefreshSchedulerLock; when it fails, or the row is not ours any more, the error
\* is logged and nothing else happens.
Beat(p) ==
  /\ pc[p] \in Beating
  /\ Ours(p)
  /\ row' = MyRow(p)
  /\ UNCHANGED <<pc, saw>>

-----------------------------------------------------------------------------
(* Environment *)

\* Time passes; ages beyond StaleAfter are all alike.
AgeRow ==
  /\ row.owner # NoOne
  /\ row.age <= StaleAfter
  /\ (Timely /\ pc[row.owner] \in Holding) => row.age < StaleAfter
  /\ row' = [row EXCEPT !.age = @ + 1]
  /\ UNCHANGED <<pc, saw>>

\* Panic, kill -9, power loss; also runUI's returns on a server or runner that
\* does not start, which do not close the lock.
Crash(p) ==
  /\ MayCrash
  /\ Alive(p)
  /\ pc' = [pc EXCEPT ![p] = "off"]
  /\ saw' = [saw EXCEPT ![p] = NoOne]
  /\ UNCHANGED row

Next ==
  \/ AgeRow
  \/ \E p \in Procs :
       \/ Acquire(p) \/ Refused(p) \/ GiveUp(p) \/ JudgeDead(p) \/ TakeOver(p) \/ TakeOverFails(p)
       \/ Boot(p) \/ BootFails(p) \/ Shutdown(p) \/ StopHeartbeat(p) \/ ReleaseRow(p)
       \/ Exit(p) \/ Beat(p) \/ Crash(p)

Spec == Init /\ [][Next]_lockVars

-----------------------------------------------------------------------------
(* Properties *)

\* Only one process owns the scheduler against a database (cli/ui.go:98-99): at
\* most one is between its acquisition and the end of its scheduler.
OneScheduler ==
  \A p, q \in Procs : pc[p] \in Beating /\ pc[q] \in Beating => p = q

\* A process that holds the row goes on holding it: no other one takes or deletes it.
Kept(p) == row.owner = p /\ pc[p] \in Holding /\ pc'[p] \in Holding => row'.owner = p

\* A healthy holder is never reclaimed by mistake (cli/scheduler_lock.go:25-27): a
\* live holder whose heartbeat is in time loses its row only to the staleAfter = 0
\* retry of a process that had found an earlier holder dead, never to a late
\* release, a failed boot or a plain acquire.
LostToTakeOver ==
  [][\A p \in Procs : ~Kept(p) => \E q \in Procs : pc[q] = "forcing" /\ row'.owner = q]_lockVars

\* A missed release is harmless, the next acquirer reclaims the row
\* (storage/scheduler_lock.go:130-132): a row whose owner is gone does not stay.
DeadHolderReplaced ==
  \A p \in Procs : (row.owner = p /\ ~Alive(p)) ~> (row.owner # p \/ Alive(p))
=============================================================================
