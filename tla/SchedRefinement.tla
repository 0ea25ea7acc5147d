-------------------------- MODULE SchedRefinement --------------------------
(***************************************************************************)
(* IntervalSched implements TargetSerial: the owner of a target is the job *)
(* of the one claim on it, wherever that claim is (ticker, handler, queue  *)
(* or worker), and its phase is read off the worker that has it.           *)
(***************************************************************************)
EXTENDS IntervalSched

ClaimId(a) == CASE a[1] = "worker" -> worker[a[2]].job.id
                [] a[1] = "queue"  -> queue[a[2]].id
                [] a[1] = "call"   -> a[2]
                [] a[1] = "tick"   -> a[2].id

PhaseOf(pc) == IF pc = "scanning" THEN "scanning"
               ELSE IF pc \in {"ended", "recorded", "refused", "untracking", "releasing"}
                    THEN "finished" ELSE "claimed"

\* OneJobPerTarget leaves nothing to choose.
Turn(t) ==
  LET claims == Claims(t)
      a      == CHOOSE a \in claims : TRUE
  IN  IF claims = {} THEN [owner |-> None, phase |-> "free"]
      ELSE [owner |-> ClaimId(a),
            phase |-> IF a[1] = "worker" THEN PhaseOf(worker[a[2]].pc) ELSE "claimed"]

Spent == {c \in Callers : call[c] \notin {"idle", "submitted", "busy"}}

Serial == INSTANCE TargetSerial
            WITH Nobody <- None,
                 turn   <- [t \in Targets |-> Turn(t)],
                 spent  <- Spent

\* Every behaviour of the scheduler is one in which each target is claimed,
\* scanned and given back by one job after the other (TargetLockIndex with
\* scanJobRunner, locks.go:5-7 and scheduler.go:452-457).
SerialPerTarget == Serial!Spec
=============================================================================
