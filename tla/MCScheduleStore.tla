--------------------------- MODULE MCScheduleStore ---------------------------
(***************************************************************************)
(* Instances of ScheduleStore for TLC: a schedule on a template, an id for *)
(* a second one, a built-in template, a blackout of the only target; one   *)
(* request of any kind races a PUT.                                        *)
(***************************************************************************)
EXTENDS ScheduleStore

CONSTANTS t1, i1, i2, n1, n2, m1, m2, m3, k1, k2, r1, r2, h1, h2

MCRows == [i \in Ids |->
  IF i = i1 THEN [target |-> t1, name |-> n1, rule |-> r1, own |-> "none", tmpl |-> m1,
                  enabled |-> TRUE, next |-> r1, ran |-> TRUE]
  ELSE None]
MCNew == {[target |-> t1, name |-> n, rule |-> IF n = n2 THEN r2 ELSE r1,
           own |-> "rule", tmpl |-> tm, enabled |-> n = n2,
           next |-> None, ran |-> FALSE] : n \in Names, tm \in {m1, None}}
MCTemplates == [m \in Templates |-> IF m = m1 THEN r1 ELSE IF m = m2 THEN r2 ELSE None]
MCBlackouts == [k \in Blackouts |-> IF k = k2 THEN None ELSE [scope |-> "target", target |-> t1, enabled |-> TRUE]]
MCClashes == {<<r2, r2>>}
MCKinds == [h \in Requests |->
  IF h = h1 THEN {"create", "put", "toggle", "delete", "bulk", "template", "untemplate",
                  "defaults", "target", "blackout"}
  ELSE {"create", "put", "delete"}]

StoreLiveSpec == StoreSpec /\ StoreFair
=============================================================================
