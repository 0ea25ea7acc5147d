----------------------------- MODULE Recurrence -----------------------------
(***************************************************************************)
(* Instants, recurrence rules and blackout windows: the part of the        *)
(* scheduler that is a function of its inputs.  It is a translation of     *)
(* BlackoutEvaluator.IsActive / NextWindowEnd (blackout.go) and of         *)
(* RRuleExpander.ComputeNextRunAt (rrule_expand.go).                       *)
(*                                                                         *)
(* An instant is a number of 0..Horizon.  A recurrence rule is the set of  *)
(* instants at which it fires (RRULE parsing and time zones are            *)
(* abstracted; the random jitter is left to Calendar).  A blackout window  *)
(* is one occurrence [WStart, WEnd); a recurring blackout is several       *)
(* windows.                                                                *)
(***************************************************************************)
EXTENDS Integers

CONSTANTS Targets,     \* the scan targets
          Windows,     \* the blackout windows an operator may define
          Covers,      \* Covers[w]: the targets of window w, all of them when it is global
          WStart,      \* WStart[w]: first instant of the window
          WEnd,        \* WEnd[w]: first instant after the window
          Rank,        \* Rank[w]: its place in the evaluator's list: by creation, the
                       \* occurrences of one blackout in ascending order
          Rules,       \* the recurrence rules
          Fires,       \* Fires[r]: the instants at which rule r fires
          Horizon,     \* bound: the last instant of the model
          MaxSkips,    \* maxBlackoutSkipIterations (100 in the code)
          None,        \* SQL NULL / a nil *time.Time
          Saturated    \* ErrBlackoutSaturated

Instants == 0..Horizon

ASSUME RecurrenceAssumption ==
  /\ Horizon \in Nat
  /\ MaxSkips \in Nat \ {0}
  /\ Covers \in [Windows -> SUBSET Targets]
  /\ WStart \in [Windows -> Nat]
  /\ WEnd   \in [Windows -> Nat]
  /\ Rank   \in [Windows -> Nat]
  /\ Fires  \in [Rules -> SUBSET Instants]
  /\ None \notin Nat /\ Saturated \notin Nat /\ None # Saturated

-----------------------------------------------------------------------------
(* Blackouts *)

\* The windows of ws that cover target t at instant "at": [start, start + duration).
ActiveWindows(ws, t, at) ==
  {w \in ws : t \in Covers[w] /\ WStart[w] <= at /\ at < WEnd[w]}

IsActive(ws, t, at) == ActiveWindows(ws, t, at) # {}

\* firstActive is asked about the global windows before the target's own; the first hit wins.
FirstActive(ws, t, at) ==
  LET active == ActiveWindows(ws, t, at)
      global == {w \in active : Covers[w] = Targets}
      asked  == IF global # {} THEN global ELSE active
  IN  CHOOSE w \in asked : \A v \in asked : Rank[w] <= Rank[v]

NextWindowEnd(ws, t, at) == WEnd[FirstActive(ws, t, at)]

-----------------------------------------------------------------------------
(* The next run of a schedule *)

\* rule.After(at, false): the first occurrence strictly after "at".
After(rule, at) ==
  LET later == {u \in Fires[rule] : at < u}
  IN  IF later = {} THEN None
      ELSE CHOOSE u \in later : \A v \in later : u <= v

\* Candidate i of the skip loop: an occurrence inside a blackout is replaced
\* by the first one strictly after the end of that blackout.
Candidate(rule, ws, t, now) ==
  LET cand[i \in 0..MaxSkips] ==
        IF i = 0 THEN After(rule, now)
        ELSE LET c == cand[i-1]
             IN  IF c = None \/ ~IsActive(ws, t, c) THEN c
                 ELSE After(rule, NextWindowEnd(ws, t, c))
  IN  cand

\* ComputeNextRunAt: None when the rule is exhausted, Saturated when the loop
\* gives up after MaxSkips occurrences that all were blacked out.
ComputeNextRunAt(rule, ws, t, now) ==
  LET cand == Candidate(rule, ws, t, now)
      last == cand[MaxSkips - 1]
  IN  IF last # None /\ IsActive(ws, t, last) /\ cand[MaxSkips] # None
      THEN Saturated
      ELSE cand[MaxSkips]
=============================================================================
