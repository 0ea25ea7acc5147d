------------------------------ MODULE PortScan ------------------------------
(***************************************************************************)
(* The port scanner (detection/naabu.go, breaker.go): a goroutine for each *)
(* probe, at most Rate of them, a circuit breaker that lowers the number   *)
(* of dials when they time out, a pool for the one retry, and a context    *)
(* that may be cancelled at any moment.                                    *)
(***************************************************************************)
EXTENDS Naturals, Sequences, FiniteSets

CONSTANTS Probes,    \* number of probes: inputs times ports
          Rate,      \* concurrency
          RetryCap,  \* max(2, concurrency / 4) in the code
          Window,    \* breakerWindow, 50 in the code
          Floor      \* 5 in the code

ASSUME PortScanAssumption == {Probes, Rate, RetryCap, Window, Floor} \subseteq Nat \ {0}

VARIABLES next,      \* the probe the loop has come to
          alive,     \* it has seen that the context is not cancelled
          at,        \* how far each goroutine is
          limit,     \* the cap it read
          inflight, cap, ring, halvings,
          outcome,   \* what was recorded of each probe
          cancelled, returned

portVars == <<next, alive, at, limit, inflight, cap, ring, halvings, outcome, cancelled, returned>>

ProbeIds == 1..Probes
Steps == {"none", "waiting", "adding", "undo", "dialing", "retry", "redialing", "over"}
Admitted == {"dialing", "retry", "redialing"}
ProbeOutcomes == {"none", "open", "timeout", "refused", "error", "given up"}

PortTypeOK ==
  /\ next \in 1..(Probes + 1) /\ alive \in BOOLEAN /\ at \in [ProbeIds -> Steps] /\ limit \in [ProbeIds -> 0..Rate]
  /\ inflight \in 0..Probes /\ cap \in 1..Rate
  /\ ring \in Seq(BOOLEAN) /\ Len(ring) <= Window /\ halvings \in Nat
  /\ outcome \in [ProbeIds -> ProbeOutcomes] /\ cancelled \in BOOLEAN /\ returned \in BOOLEAN

PortInit ==
  /\ next = 1 /\ alive = FALSE /\ at = [p \in ProbeIds |-> "none"] /\ limit = [p \in ProbeIds |-> 0]
  /\ inflight = 0 /\ cap = Rate /\ ring = <<>> /\ halvings = 0
  /\ outcome = [p \in ProbeIds |-> "none"]
  /\ cancelled = FALSE /\ returned = FALSE

Tokens == {p \in ProbeIds : at[p] \notin {"none", "over"}}   \* in sem
Go(p, where) == at' = [at EXCEPT ![p] = where]

-----------------------------------------------------------------------------
(* The breaker *)

TimeoutsIn(r) == Cardinality({i \in 1..Len(r) : r[i]})
Halves(r) == Len(r) = Window /\ 2 * TimeoutsIn(r) > Window /\ cap > Floor
Restores(r) == Len(r) = Window /\ 4 * TimeoutsIn(r) < Window /\ cap < Rate

Halved == IF cap \div 2 < Floor THEN Floor ELSE cap \div 2

\* recordResult: the cap moves only when the ring is full.
RecordResult(timedOut) ==
  LET full == IF Len(ring) = Window THEN Tail(ring) ELSE ring
      r    == Append(full, timedOut)
  IN /\ ring' = r
     /\ cap' = IF Halves(r) THEN Halved ELSE IF Restores(r) THEN Rate ELSE cap
     /\ halvings' = IF Halves(r) THEN halvings + 1 ELSE halvings

-----------------------------------------------------------------------------
(* The loop and its goroutines *)

\* The loop looks at the context,
CheckCtx ==
  /\ next <= Probes /\ ~cancelled /\ ~alive
  /\ alive' = TRUE
  /\ UNCHANGED <<next, at, limit, inflight, cap, ring, halvings, outcome, cancelled, returned>>

\* waits for a token of sem and starts the goroutine of the probe, even if it was cancelled meanwhile;
Spawn ==
  /\ alive /\ Cardinality(Tokens) < Rate
  /\ Go(next, "waiting") /\ next' = next + 1 /\ alive' = FALSE
  /\ UNCHANGED <<limit, inflight, cap, ring, halvings, outcome, cancelled, returned>>

\* a cancelled scan passes over the rest.
BreakOff ==
  /\ next <= Probes /\ cancelled /\ ~alive
  /\ next' = Probes + 1
  /\ UNCHANGED <<alive, at, limit, inflight, cap, ring, halvings, outcome, cancelled, returned>>

\* tryAdmit reads the cap, adds itself, and takes it back if it is one too many.
ReadCap(p) ==
  /\ at[p] = "waiting"
  /\ limit' = [limit EXCEPT ![p] = cap] /\ Go(p, "adding")
  /\ UNCHANGED <<next, alive, inflight, cap, ring, halvings, outcome, cancelled, returned>>

Add(p) ==
  /\ at[p] = "adding"
  /\ inflight' = inflight + 1
  /\ Go(p, IF inflight + 1 <= limit[p] THEN "dialing" ELSE "undo")
  /\ UNCHANGED <<next, alive, limit, cap, ring, halvings, outcome, cancelled, returned>>

\* It waits 10 ms, or gives up if the context is cancelled.
Undo(p) ==
  /\ at[p] = "undo"
  /\ inflight' = inflight - 1
  /\ \/ Go(p, "waiting") /\ UNCHANGED outcome
     \/ cancelled /\ Go(p, "over") /\ outcome' = [outcome EXCEPT ![p] = "given up"]
  /\ UNCHANGED <<next, alive, limit, cap, ring, halvings, cancelled, returned>>

\* (Mutant: a probe that timed out does not leave.)
SettleKept(p, o) ==
  /\ Go(p, "over") /\ outcome' = [outcome EXCEPT ![p] = o]
  /\ inflight' = IF o = "timeout" THEN inflight ELSE inflight - 1
  /\ RecordResult(o = "timeout")

\* The breaker is told, then the outcome is recorded: a result, a failure, nothing, or a dial error.
Settle(p, o) ==
  /\ Go(p, "over") /\ outcome' = [outcome EXCEPT ![p] = o]
  /\ inflight' = inflight - 1
  /\ RecordResult(o = "timeout")

\* probePort: what the dial and the classification of its error yield.
DialOutcomes == {"open", "timeout", "refused", "error"}

Dial(p) ==
  /\ at[p] = "dialing"
  /\ \/ cancelled /\ Settle(p, "error")
     \/ \E o \in DialOutcomes \ {"timeout"} : Settle(p, o)
     \/ Go(p, "retry") /\ UNCHANGED <<inflight, cap, ring, halvings, outcome>>
  /\ UNCHANGED <<next, alive, limit, cancelled, returned>>

Retry(p) ==
  /\ at[p] = "retry" /\ Cardinality({q \in ProbeIds : at[q] = "redialing"}) < RetryCap
  /\ Go(p, "redialing")
  /\ UNCHANGED <<next, alive, limit, inflight, cap, ring, halvings, outcome, cancelled, returned>>

\* retryProbe, after a pause that a cancellation ends.
Redial(p) ==
  /\ at[p] = "redialing"
  /\ \E o \in IF cancelled THEN {"error"} \cup DialOutcomes ELSE DialOutcomes : Settle(p, o)
  /\ UNCHANGED <<next, alive, limit, cancelled, returned>>

Return ==
  /\ next > Probes /\ Tokens = {} /\ ~returned
  /\ returned' = TRUE
  /\ UNCHANGED <<next, alive, at, limit, inflight, cap, ring, halvings, outcome, cancelled>>

CancelScan ==
  /\ ~cancelled /\ ~returned /\ cancelled' = TRUE
  /\ UNCHANGED <<next, alive, at, limit, inflight, cap, ring, halvings, outcome, returned>>

Loop == CheckCtx \/ Spawn \/ BreakOff \/ Return
Goroutine(p) == ReadCap(p) \/ Add(p) \/ Undo(p) \/ Dial(p) \/ Retry(p) \/ Redial(p)

PortNext == Loop \/ CancelScan \/ \E p \in ProbeIds : Goroutine(p)

PortSpec == PortInit /\ [][PortNext]_portVars

\* One that was one too many takes itself back at once and then waits 10 ms: again and again none is in between.
Apart == []<>(\A p \in ProbeIds : at[p] # "undo")

PortFair == WF_portVars(Loop) /\ (\A p \in ProbeIds : WF_portVars(Goroutine(p))) /\ Apart

-----------------------------------------------------------------------------
(* Properties *)

\* Goroutines wait on tokens, on the breaker's cap and on the retry pool at once, admissions that collide take
\* each other back, probes time out: a scan that has begun returns nevertheless, with every slot of the breaker
\* given back and, unless it was cancelled, an outcome for every probe (naabu.go:224-395, breaker.go).
RunReturns ==
  (at[1] = "waiting") ~>
    (returned /\ inflight = 0 /\ \A p \in ProbeIds : outcome[p] # "none" \/ (cancelled /\ at[p] = "none"))
=============================================================================
