---------------------------- MODULE TargetSerial ----------------------------
(***************************************************************************)
(* What the scheduler promises about each target, whatever goroutines it   *)
(* is built from: the scans of a target form a sequence.  A job claims the *)
(* target, may scan it once, and gives it back; an ad-hoc run claims at    *)
(* most once.  IntervalSched is shown to implement this specification.     *)
(***************************************************************************)
CONSTANTS Targets, Schedules, Callers, TargetOf, Nobody

VARIABLES turn,    \* turn[t]: the job that has target t, or Nobody, and how far it is
          spent    \* the ad-hoc runs that have had their claim

vars == <<turn, spent>>

Free == [owner |-> Nobody, phase |-> "free"]

Init == turn = [t \in Targets |-> Free] /\ spent = {}

Claim(t) ==
  /\ turn[t] = Free
  /\ \E i \in Schedules \cup Callers :
       /\ TargetOf[i] = t
       /\ i \notin spent
       /\ turn' = [turn EXCEPT ![t] = [owner |-> i, phase |-> "claimed"]]
       /\ spent' = IF i \in Callers THEN spent \cup {i} ELSE spent

Move(t, from, to) ==
  /\ turn[t].phase \in from
  /\ turn' = [turn EXCEPT ![t].phase = to]
  /\ UNCHANGED spent

Begin(t)  == Move(t, {"claimed"}, "scanning")
Finish(t) == Move(t, {"claimed", "scanning"}, "finished")

Vacate(t) ==
  /\ turn[t].phase \in {"claimed", "finished"}
  /\ turn' = [turn EXCEPT ![t] = Free]
  /\ UNCHANGED spent

Next == \E t \in Targets : Claim(t) \/ Begin(t) \/ Finish(t) \/ Vacate(t)

Spec == Init /\ [][Next]_vars
=============================================================================
