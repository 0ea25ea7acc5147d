------------------------------ MODULE Calendar ------------------------------
(***************************************************************************)
(* What the scheduler computes from recurrence rules: when a schedule runs *)
(* next (rrule_expand.go), whether a recurring blackout is on and when it  *)
(* ends (blackout.go), what the API shows of both (api/v1/upcoming.go),    *)
(* and the daily maintenance window (window.go).  A rule is the set of its *)
(* occurrences; a run may start late, and the next one is then computed    *)
(* from the clock.                                                         *)
(***************************************************************************)
EXTENDS Integers, FiniteSets, FiniteSetsExt

CONSTANTS LastInstant, \* of the clock
          MaxLength,  \* bound on the length of a blackout, at most LookBack
          MaxJitter,  \* jitter_seconds
          LookBack,   \* blackoutHorizonPast: 7 days
          MaxTries,   \* maxBlackoutSkipIterations
          Ahead,      \* horizon of the list of upcoming runs
          Day,        \* length of a day
          Never, Saturated

ASSUME CalendarAssumption ==
  /\ {LastInstant, MaxLength, MaxJitter, LookBack, MaxTries, Ahead, Day} \subseteq Nat
  /\ MaxLength \in 1..LookBack /\ Day > 0 /\ MaxTries > 0
  /\ {Never, Saturated} \cap Int = {} /\ Never # Saturated

VARIABLES occurrences, starts, length, jitter, \* the rules, the blackout's length, the jitter drawn
          clock,
          next,     \* next_run_at
          fired,    \* history: when the schedule ran
          gaveUp    \* history: the search has ended without a result

calVars == <<occurrences, starts, length, jitter, clock, next, fired, gaveUp>>

CalTypeOK ==
  /\ occurrences \subseteq 1..LastInstant /\ starts \subseteq 1..LastInstant
  /\ length \in 1..MaxLength /\ jitter \in 0..MaxJitter
  /\ clock \in 0..LastInstant /\ next \in (0..(LastInstant + MaxJitter)) \cup {Never}
  /\ fired \subseteq 0..LastInstant /\ gaveUp \in BOOLEAN

-----------------------------------------------------------------------------
(* Blackouts *)

\* rule.Between: both ends count.
Between(rule, from, to) == {u \in rule : from <= u /\ u <= to}

\* occurrenceCovers looks back no further than LookBack.
Covering(at) == {u \in Between(starts, at - LookBack, at) : at < u + length}

BlackedOut(at) == Covering(at) # {}

\* findActiveEnd, activeOccurrenceEnd: of the first occurrence that covers it.
ActiveEnd(at) == Min(Covering(at)) + length

-----------------------------------------------------------------------------
(* The next run *)

\* (Mutant: an occurrence at the given instant counts.)
AfterOrAt(at) == LET later == {u \in occurrences : u >= at} IN IF later = {} THEN Never ELSE Min(later)

\* rule.After(at, false)
StrictlyAfter(at) == LET later == {u \in occurrences : u > at} IN IF later = {} THEN Never ELSE Min(later)

Jittered(u) == IF u = Never THEN Never ELSE u + jitter

\* ComputeNextRunAt: a candidate inside a blackout gives way to the one after its end.
Skipped(c) == IF c = Never \/ ~BlackedOut(c) THEN c ELSE Jittered(StrictlyAfter(ActiveEnd(c)))

Candidates(now) ==
  LET try[k \in 0..MaxTries] == IF k = 0 THEN Jittered(StrictlyAfter(now)) ELSE Skipped(try[k - 1])
  IN  try

NextRun(now) ==
  LET try  == Candidates(now)
      last == try[MaxTries - 1]
  IN  IF last # Never /\ BlackedOut(last) /\ try[MaxTries] # Never THEN Saturated ELSE try[MaxTries]

CalInit ==
  /\ occurrences \in SUBSET (1..LastInstant) /\ starts \in SUBSET (1..(LastInstant - 1))
  /\ length \in 1..MaxLength /\ jitter \in 0..MaxJitter
  /\ clock = 0 /\ fired = {}
  /\ next = (IF NextRun(0) = Saturated THEN Never ELSE NextRun(0))
  /\ gaveUp = (NextRun(0) = Saturated)

Pass ==
  /\ clock < LastInstant /\ clock' = clock + 1
  /\ UNCHANGED <<occurrences, starts, length, jitter, next, fired, gaveUp>>

\* A due schedule runs outside of blackouts; a search that gives up leaves next_run_at as it is.
Fire ==
  /\ next # Never /\ next <= clock /\ ~BlackedOut(clock)
  /\ fired' = fired \cup {clock}
  /\ next' = IF NextRun(clock) = Saturated THEN next ELSE NextRun(clock)
  /\ gaveUp' = (gaveUp \/ NextRun(clock) = Saturated)
  /\ UNCHANGED <<occurrences, starts, length, jitter, clock>>

\* handleBlackoutSkip: it is due inside a blackout.
SkipRun ==
  /\ next # Never /\ next <= clock /\ BlackedOut(clock)
  /\ next' = IF NextRun(clock) = Saturated THEN next ELSE NextRun(clock)
  /\ gaveUp' = (gaveUp \/ NextRun(clock) = Saturated)
  /\ UNCHANGED <<occurrences, starts, length, jitter, clock, fired>>

CalNext == Pass \/ Fire \/ SkipRun

CalSpec == CalInit /\ [][CalNext]_calVars

-----------------------------------------------------------------------------
(* What the API shows, and the daily window *)

UpcomingRuns == Between(occurrences, clock, clock + Ahead)

\* (Mutant: only what begins from now on.)
UpcomingBlackoutsNow == {u \in Between(starts, clock, clock + Ahead) : u + length >= clock}

\* blackoutOccurrencesIn: those that are not over.
UpcomingBlackouts == {u \in Between(starts, clock - LookBack, clock + Ahead) : u + length >= clock}

\* Contains: a window [from, to) of every day, which may cross midnight.
InWindow(from, to, t) ==
  LET m == t % Day
  IN  IF from <= to THEN from <= m /\ m < to ELSE from <= m \/ m < to

\* The end of the window on the day of t, or on the next one.
NextOpen(from, to, t) ==
  LET today == t - (t % Day)
  IN  IF ~InWindow(from, to, t) THEN t
      ELSE IF from < to \/ t % Day < to THEN today + to ELSE today + Day + to

\* nextWindowStart: today or tomorrow.
NextStart(from, t) == Min({u \in {t - (t % Day) + from, t - (t % Day) + Day + from} : u > t})

-----------------------------------------------------------------------------
(* Properties *)

\* The scheduler's model takes each occurrence of a blackout for a window of its own.
Coarse == INSTANCE Recurrence WITH
  Targets <- {Day}, Rules <- {Day}, Fires <- [r \in {Day} |-> occurrences], Horizon <- LastInstant,
  Windows <- starts, Covers <- [u \in starts |-> {Day}], WStart <- [u \in starts |-> u],
  WEnd <- [u \in starts |-> u + length], Rank <- [u \in starts |-> u], MaxSkips <- MaxTries, None <- Never

\* Blackouts that the run of u, wherever its jitter puts it, may have met.
Meets(u) == {s \in starts : s <= u + jitter /\ u <= s + length}

\* However late runs are and however occurrences and blackouts interleave and touch: a schedule does not run
\* more often than its rule says, nor inside a blackout, and an occurrence that meets no blackout is followed
\* by a run or is still waited for (rrule_expand.go:82-112).
NoRunMissed ==
  gaveUp \/ /\ Cardinality(fired) <= Cardinality({u \in occurrences : u <= clock})
            /\ \A u \in occurrences : (u <= clock /\ Meets(u) = {} /\ ~\E f \in fired : f >= u)
                 => (next # Never /\ next <= u + jitter) \/ \E s \in starts : s <= clock /\ u <= s
            /\ next = Never \/ ~BlackedOut(next)

\* What the dashboard and `daemon status` say of a maintenance window, across midnight too.
WindowReopens ==
  \A from, to \in 0..(Day - 1), t \in 0..(2 * Day) :
    LET o == NextOpen(from, to, t)
        n == NextStart(from, t)
    IN  /\ o >= t /\ ~InWindow(from, to, o) /\ \A u \in t..(o - 1) : InWindow(from, to, u)
        /\ n > t /\ (from # to => InWindow(from, to, n))
        /\ \A u \in (t + 1)..(n - 1) : InWindow(from, to, u) => InWindow(from, to, u - 1)

\* The list of the API agrees with the evaluator at every instant of its horizon, although both look back
\* only so far; next_run_at is what the scheduler's model computes from single windows; and a maintenance
\* window ends and begins again at the instants that are announced (window.go:81-107).
CalendarsAgree ==
  /\ \A t \in clock..(clock + Ahead) : BlackedOut(t) <=> \E u \in UpcomingBlackouts : u <= t /\ t < u + length
  /\ jitter = 0 => NextRun(clock) = Coarse!ComputeNextRunAt(Day, starts, Day, clock)
  /\ WindowReopens
=============================================================================
