--------------------------- MODULE MCIntervalSched ---------------------------
(***************************************************************************)
(* Small instances of IntervalSched: schedules and ad-hoc runs on two      *)
(* targets, so that some of them compete for one lock, and the instants    *)
(* 0..Horizon with a global blackout [1,2) and one of target t1, [1,3).    *)
(***************************************************************************)
EXTENDS SchedRefinement, TLC

CONSTANTS s1, s2, s3, c1, c2, t1, t2, w1, w2, b1, b2, r1, r2

MCFires    == [r \in Rules |-> Instants \cap (IF r = r1 THEN {0, 1, 2} ELSE {1, 2})]
MCTargetOf == [i \in Ids |-> IF i \in {s2, c2} THEN t2 ELSE t1]
MCCovers   == [w \in Windows |-> IF w = b1 THEN Targets ELSE {t1}]
MCStart    == [w \in Windows |-> 1]
MCEnd      == [w \in Windows |-> IF w = b1 THEN 2 ELSE 3]
MCRank     == [w \in Windows |-> IF w = b1 THEN 0 ELSE 1]
MCStartNow == [w \in Windows |-> 0]
MCRow      == [s \in Schedules |-> [enabled |-> TRUE, last |-> "never",
                                    next |-> IF s = s2 THEN 1 ELSE 0,
                                    rule |-> IF s = s2 THEN r2 ELSE r1]]

MCSymmetry == Permutations(Workers)
=============================================================================
