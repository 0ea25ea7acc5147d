----------------------------- MODULE MCScanDiff -----------------------------
(***************************************************************************)
(* Instances of ScanDiff for TLC: three scans of t1 and one of t2, one     *)
(* finding on an asset of each target.                                     *)
(***************************************************************************)
EXTENDS ScanDiff, TLC

CONSTANTS t1, t2, s1, s2, s3, r1, a1, a2, b1, f1, f2, g1, k1

\* The scans of t1 are alike: the properties are invariants.
MCSymmetry == Permutations(Scans \ {r1})

MCTarget == [s \in Scans |-> IF s = r1 THEN t2 ELSE t1]
MCOwner  == [a \in Assets |-> IF a = b1 THEN t2 ELSE t1]
MCOn     == [f \in Findings |-> IF f = g1 THEN b1 ELSE IF f = f1 THEN a1 ELSE a2]
=============================================================================
