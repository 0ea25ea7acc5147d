----------------------------- MODULE MCPipeline -----------------------------
(***************************************************************************)
(* Instances of Pipeline for TLC: two scans of the UI and one of a daemon, *)
(* with tools for discovery (1), http_probe (2) and assessment (3); one of *)
(* the UI's scans leaves the last tool out.                                *)
(***************************************************************************)
EXTENDS Pipeline

CONSTANTS u1, u2, d1, k1, k2

MCSkip == [s \in Scans |-> IF s = u2 THEN {3} ELSE {}]
=============================================================================
