----------------------------- MODULE MCDetection -----------------------------
(***************************************************************************)
(* What scans find, log and conclude, and what they are run by, one part   *)
(* per behaviour: the diff phase (MCScanDiff), the tools of one scan       *)
(* (Discovery), its log (LogSink), the calendar of its schedule (Calendar) *)
(* and the preparation of its database (Boot).  The parts share no state;  *)
(* `part` says which of them a behaviour is about.                         *)
(***************************************************************************)
EXTENDS MCScanDiff, LogSink, Discovery, Calendar, Boot

CONSTANTS h0, h1, h2, i1, i2, p1, p2, x1, m1, w1, w2

VARIABLE part

detVars == <<part, vars, logVars, nameVars, calVars, bootVars>>

MCAddr == [h \in Hosts |-> IF h = h0 THEN {i1} ELSE IF h = h1 THEN {i1, i2} ELSE {i2}]

\* The choices of a part's Init matter to that part only.
DetInit ==
  /\ part \in {"diff", "names", "log", "calendar", "boot"}
  /\ Init /\ NamesInit /\ LogInit /\ BootInit
  /\ part # "diff" => edit = [k \in Edits |-> [pc |-> "idle", old |-> "none", new |-> "none", f |-> f1]]
  /\ part # "names" => kind = "full"
  /\ part # "boot" => version = 0 /\ sites = [t \in Sites |-> "absent"]
  /\ IF part = "calendar" THEN CalInit ELSE
       /\ occurrences = {} /\ starts = {} /\ length = 1 /\ jitter = 0 /\ clock = 0
       /\ next = Never /\ fired = {} /\ gaveUp = FALSE

\* A step of the part, while the others rest.
InDiff(A)     == part = "diff" /\ A /\ UNCHANGED <<part, logVars, nameVars, calVars, bootVars>>
InNames(A)    == part = "names" /\ A /\ UNCHANGED <<part, vars, logVars, calVars, bootVars>>
InLog(A)      == part = "log" /\ A /\ UNCHANGED <<part, vars, nameVars, calVars, bootVars>>
InCalendar(A) == part = "calendar" /\ A /\ UNCHANGED <<part, vars, logVars, nameVars, bootVars>>
InBoot(A)     == part = "boot" /\ A /\ UNCHANGED <<part, vars, logVars, nameVars, calVars>>

DetNext == InDiff(Next) \/ InNames(NamesNext) \/ InLog(LogNext) \/ InCalendar(CalNext) \/ InBoot(BootNext)

DetSpec == DetInit /\ [][DetNext]_detVars

\* Every part is well typed.
DetTypeOK == TypeOK /\ NamesTypeOK /\ LogTypeOK /\ CalTypeOK /\ BootTypeOK
=============================================================================
