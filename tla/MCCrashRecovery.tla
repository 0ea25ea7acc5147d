-------------------------- MODULE MCCrashRecovery --------------------------
(***************************************************************************)
(* Instances of CrashRecovery for TLC: two or three processes, on hosts of *)
(* their own or all on one host, a scheduled scan and an ad-hoc one.       *)
(***************************************************************************)
EXTENDS CrashRecovery, TLC

CONSTANTS OneHost, p1, p2, p3, s1, a1

EachItsHost == [p \in Procs |-> p]
AllOneHost  == [p \in Procs |-> OneHost]

\* On one host the processes are alike.
MCSymmetry == Permutations(Procs)
=============================================================================
