--------------------------- MODULE Calendar_proofs ---------------------------
(***************************************************************************)
(* Proofs about Calendar for every recurrence rule, every set of           *)
(* blackouts, every jitter and every clock: no run is missed and none is   *)
(* made up.  The search for the next run is a recursion, so the section on *)
(* numbers first derives an induction on a range of numbers from the least *)
(* element of a set, and what a function defined along a range is.         *)
(***************************************************************************)
EXTENDS Calendar, FiniteSetTheorems, WellFoundedInduction, TLAPS

-----------------------------------------------------------------------------
(* Numbers *)

Below == {ss \in Nat \X Nat : ss[1] < ss[2]}

\* The order of the numbers is well founded.
LEMMA BelowWellFounded == IsWellFoundedOn(Below, Nat)
  BY NatLessThanWellFounded DEF OpToRel, Below

\* A set of numbers that is not empty has a least one, and Min is it.
LEMMA LeastNat ==
  ASSUME NEW S \in SUBSET Nat, S # {}
  PROVE  Min(S) \in S /\ \A y \in S : Min(S) <= y
<1>1. PICK x \in S : \A y \in S : ~ (<<y, x>> \in Below)
  BY BelowWellFounded, WFMin
<1>2. ASSUME NEW y \in S PROVE x <= y
  <2>1. ~(y < x)
    BY <1>1 DEF Below
  <2>2. QED
    BY <2>1
<1>3. QED
  BY <1>2 DEF Min

\* Induction along 0..n, for the numbers of a set.
LEMMA Along ==
  ASSUME NEW n \in Nat, NEW S, 0 \in S, \A k \in 1..n : k - 1 \in S => k \in S
  PROVE  0..n \subseteq S
<1>1. PICK R : R = (0..n) \ S
  OBVIOUS
<1>2. SUFFICES ASSUME R # {} PROVE FALSE
  BY <1>1
<1>3. R \in SUBSET Nat
  BY <1>1
<1>4. Min(R) \in R /\ \A y \in R : Min(R) <= y
  BY <1>2, <1>3, LeastNat
<1>5. PICK m \in R : \A y \in R : m <= y
  BY <1>4
<1>6. m \in 1..n /\ m - 1 \in S
  BY <1>1, <1>5
<1>7. QED
  BY <1>1, <1>6

\* f is what iterating F from base gives along 0..n.
Iterates(f, base, F, n) == f[0] = base /\ \A k \in 1..n : f[k] = F[f[k - 1]]

\* A recursion along a range of numbers has a function that satisfies it.
LEMMA IterationExists ==
  ASSUME NEW V, NEW base \in V, NEW F \in [V -> V], NEW n \in Nat
  PROVE  \E f \in [0..n -> V] : Iterates(f, base, F, n)
<1>1. PICK S : S = {m \in Nat : \E f \in [0..m -> V] : Iterates(f, base, F, m)}
  OBVIOUS
<1>2. 0 \in S
  <2>1. PICK f : f = [k \in 0..0 |-> base]
    OBVIOUS
  <2>2. f \in [0..0 -> V] /\ Iterates(f, base, F, 0)
    BY <2>1 DEF Iterates
  <2>3. QED
    BY <1>1, <2>2
<1>3. ASSUME NEW k \in 1..n, k - 1 \in S PROVE k \in S
  <2>1. PICK g \in [0..(k - 1) -> V] : Iterates(g, base, F, k - 1)
    BY <1>1, <1>3
  <2>2. PICK f : f = [i \in 0..k |-> IF i = k THEN F[g[k - 1]] ELSE g[i]]
    OBVIOUS
  <2>3. f \in [0..k -> V]
    BY <2>1, <2>2
  <2>4. f[k] = F[g[k - 1]] /\ \A i \in 0..(k - 1) : f[i] = g[i]
    BY <2>2
  <2>5. ASSUME NEW i \in 1..k PROVE f[i] = F[f[i - 1]]
    <3>1. CASE i = k
      BY <2>4, <3>1
    <3>2. CASE i # k
      <4>1. i \in 1..(k - 1) /\ i - 1 \in 0..(k - 1) /\ i \in 0..(k - 1)
        BY <3>2
      <4>2. QED
        BY <2>1, <2>4, <4>1 DEF Iterates
    <3>3. QED
      BY <3>1, <3>2
  <2>6. Iterates(f, base, F, k)
    BY <2>1, <2>4, <2>5 DEF Iterates
  <2>7. QED
    BY <1>1, <2>3, <2>6
<1>4. n \in S
  BY <1>2, <1>3, Along
<1>5. QED
  BY <1>1, <1>4

-----------------------------------------------------------------------------
(* The search for the next run *)

\* The rules, the blackouts and the jitter, which no step changes.
RulesOK ==
  /\ occurrences \subseteq 1..LastInstant /\ starts \subseteq 1..LastInstant
  /\ length \in 1..MaxLength /\ jitter \in 0..MaxJitter

\* What next_run_at may say, and the candidates of a search that begins at now.
Dates == {u + jitter : u \in occurrences} \cup {Never}
\* The dates there are after now, and none.
DatesAfter(now) == {u + jitter : u \in {v \in occurrences : v > now}} \cup {Never}

LEMMA RulesType ==
  ASSUME RulesOK
  PROVE  /\ occurrences \subseteq Nat /\ starts \subseteq Nat /\ length \in Nat /\ length > 0 /\ jitter \in Nat
         /\ Never \notin Int /\ Saturated \notin Int /\ Never # Saturated
         /\ MaxTries \in Nat /\ MaxTries > 0 /\ LastInstant \in Nat /\ MaxJitter \in Nat /\ LookBack \in Nat
  BY CalendarAssumption DEF RulesOK

\* rule.After: the first occurrence beyond an instant.
LEMMA AfterLaw ==
  ASSUME RulesOK, NEW at \in Nat
  PROVE  \/ StrictlyAfter(at) = Never /\ \A u \in occurrences : u <= at
         \/ StrictlyAfter(at) \in occurrences /\ StrictlyAfter(at) > at
            /\ \A u \in occurrences : u > at => StrictlyAfter(at) <= u
<1>1. PICK later : later = {u \in occurrences : u > at}
  OBVIOUS
<1>2. CASE later = {}
  BY <1>1, <1>2, RulesType DEF StrictlyAfter
<1>3. CASE later # {}
  <2>1. later \in SUBSET Nat
    BY <1>1, RulesType
  <2>2. Min(later) \in later /\ \A y \in later : Min(later) <= y
    BY <1>3, <2>1, LeastNat
  <2>3. StrictlyAfter(at) = Min(later)
    BY <1>1, <1>3 DEF StrictlyAfter
  <2>4. QED
    BY <1>1, <2>2, <2>3
<1>4. QED
  BY <1>2, <1>3

\* activeOccurrenceEnd: the end of a blackout that covers the instant.
LEMMA EndLaw ==
  ASSUME RulesOK, NEW at \in Nat, BlackedOut(at)
  PROVE  \E s \in starts : s <= at /\ at < s + length /\ ActiveEnd(at) = s + length
<1>1. Covering(at) \in SUBSET Nat /\ Covering(at) # {}
  BY RulesType DEF BlackedOut, Covering, Between
<1>2. Min(Covering(at)) \in Covering(at)
  BY <1>1, LeastNat
<1>3. QED
  BY <1>2 DEF Covering, Between, ActiveEnd

\* A step of the search leads to a later candidate, not past an occurrence that meets no blackout.
LEMMA SkippedLaw ==
  ASSUME RulesOK, NEW now \in Nat, NEW c \in DatesAfter(now)
  PROVE  /\ Skipped(c) \in DatesAfter(now)
         /\ \A u \in occurrences : Meets(u) = {} /\ c # Never /\ c <= u + jitter
              => Skipped(c) # Never /\ Skipped(c) <= u + jitter
<1>1. CASE c = Never \/ ~BlackedOut(c)
  BY <1>1 DEF Skipped
<1>2. CASE c # Never /\ BlackedOut(c)
  <2>1. PICK v \in occurrences : v > now /\ c = v + jitter
    BY <1>2 DEF DatesAfter
  <2>2. v \in Nat /\ c \in Nat
    BY <2>1, RulesType
  <2>3. PICK s \in starts : s <= c /\ c < s + length /\ ActiveEnd(c) = s + length
    BY <1>2, <2>2, EndLaw
  <2>4. PICK e \in Nat : e = s + length
    BY RulesType
  <2>5. PICK x : x = StrictlyAfter(e)
    OBVIOUS
  <2>6. Skipped(c) = Jittered(x)
    BY <1>2, <2>3, <2>4, <2>5 DEF Skipped
  <2>7. \/ x = Never /\ \A u \in occurrences : u <= e
        \/ x \in occurrences /\ x > e /\ \A u \in occurrences : u > e => x <= u
    BY <2>4, <2>5, AfterLaw
  <2>8. e > now
    BY <2>1, <2>2, <2>3, <2>4, RulesType
  <2>9. Skipped(c) \in DatesAfter(now)
    <3>1. CASE x = Never
      BY <2>6, <3>1 DEF Jittered, DatesAfter
    <3>2. CASE x \in occurrences /\ x > e
      <4>1. x \in Nat /\ x > now /\ x # Never
        BY <2>4, <2>8, <3>2, RulesType
      <4>2. Skipped(c) = x + jitter
        BY <2>6, <4>1 DEF Jittered
      <4>3. QED
        BY <3>2, <4>1, <4>2 DEF DatesAfter
    <3>3. QED
      BY <2>7, <3>1, <3>2
  <2>10. ASSUME NEW u \in occurrences, Meets(u) = {}, c <= u + jitter
         PROVE  Skipped(c) # Never /\ Skipped(c) <= u + jitter
    <3>1. u \in Nat /\ s \in Nat /\ s <= u + jitter
      BY <2>2, <2>3, <2>10, RulesType
    <3>2. u > e
      BY <2>4, <2>10, <3>1, RulesType DEF Meets
    <3>3. x \in occurrences /\ x <= u
      BY <2>4, <2>7, <3>1, <3>2
    <3>4. x \in Nat /\ x # Never
      BY <3>3, RulesType
    <3>5. Skipped(c) = x + jitter
      BY <2>6, <3>4 DEF Jittered
    <3>6. QED
      BY <3>1, <3>3, <3>4, <3>5, RulesType
  <2>11. QED
    BY <2>9, <2>10
<1>3. QED
  BY <1>1, <1>2

\* The candidates of a search, one after the other.
LEMMA CandidatesLaw ==
  ASSUME RulesOK, NEW now \in Nat
  PROVE  /\ Candidates(now) \in [0..MaxTries -> DatesAfter(now)]
         /\ Candidates(now)[0] = Jittered(StrictlyAfter(now))
         /\ \A k \in 1..MaxTries : Candidates(now)[k] = Skipped(Candidates(now)[k - 1])
<1>1. PICK base : base = Jittered(StrictlyAfter(now))
  OBVIOUS
<1>2. base \in DatesAfter(now)
  BY <1>1, AfterLaw, RulesType DEF Jittered, DatesAfter
<1>3. PICK F : F = [c \in DatesAfter(now) |-> Skipped(c)]
  OBVIOUS
<1>4. F \in [DatesAfter(now) -> DatesAfter(now)]
  BY <1>3, SkippedLaw
<1>5. PICK f \in [0..MaxTries -> DatesAfter(now)] : Iterates(f, base, F, MaxTries)
  BY <1>2, <1>4, RulesType, IterationExists
<1>6. \A k \in 1..MaxTries : f[k] = Skipped(f[k - 1])
  <2>1. SUFFICES ASSUME NEW k \in 1..MaxTries PROVE f[k] = Skipped(f[k - 1])
    OBVIOUS
  <2>2. k - 1 \in 0..MaxTries
    BY RulesType
  <2>3. f[k - 1] \in DatesAfter(now)
    BY <1>5, <2>2
  <2>4. QED
    BY <1>3, <1>5, <2>3 DEF Iterates
<1>7. f = [k \in 0..MaxTries |-> IF k = 0 THEN Jittered(StrictlyAfter(now)) ELSE Skipped(f[k - 1])]
  BY <1>1, <1>5, <1>6, RulesType DEF Iterates
<1>8. PICK g : g = Candidates(now)
  OBVIOUS
<1>9. g = [k \in 0..MaxTries |-> IF k = 0 THEN Jittered(StrictlyAfter(now)) ELSE Skipped(g[k - 1])]
  BY <1>7, <1>8 DEF Candidates
<1>10. g[0] = base /\ \A k \in 1..MaxTries : g[k] = Skipped(g[k - 1])
  <2>1. 0 \in 0..MaxTries
    BY RulesType
  <2>2. g[0] = base
    BY <1>1, <1>9, <2>1
  <2>3. ASSUME NEW k \in 1..MaxTries PROVE g[k] = Skipped(g[k - 1])
    <3>1. k \in 0..MaxTries /\ k # 0
      BY RulesType
    <3>2. QED
      BY <1>9, <3>1
  <2>4. QED
    BY <2>2, <2>3
<1>11. PICK S : S = {k \in 0..MaxTries : g[k] \in DatesAfter(now)}
  OBVIOUS
<1>12. 0..MaxTries \subseteq S
  <2>1. 0 \in S
    BY <1>2, <1>10, <1>11, RulesType
  <2>2. ASSUME NEW k \in 1..MaxTries, k - 1 \in S PROVE k \in S
    BY <1>10, <1>11, <2>2, SkippedLaw, RulesType
  <2>3. QED
    BY <2>1, <2>2, RulesType, Along
<1>13. g \in [0..MaxTries -> DatesAfter(now)]
  <2>1. DOMAIN g = 0..MaxTries /\ g = [k \in 0..MaxTries |-> g[k]]
    BY <1>9
  <2>2. \A k \in 0..MaxTries : g[k] \in DatesAfter(now)
    BY <1>11, <1>12
  <2>3. QED
    BY <2>1, <2>2
<1>14. QED
  BY <1>1, <1>8, <1>10, <1>13

\* What the search finds: a later run outside of blackouts, none, or the end of its tries; never beyond
\* an occurrence that meets no blackout.
LEMMA NextRunLaw ==
  ASSUME RulesOK, NEW now \in Nat
  PROVE  /\ NextRun(now) \in DatesAfter(now) \cup {Saturated}
         /\ NextRun(now) # Saturated =>
              /\ NextRun(now) = Never \/ ~BlackedOut(NextRun(now))
              /\ \A u \in occurrences : u > now /\ Meets(u) = {}
                   => NextRun(now) # Never /\ NextRun(now) <= u + jitter
<1>1. PICK try : try = Candidates(now)
  OBVIOUS
<1>2. /\ try \in [0..MaxTries -> DatesAfter(now)]
      /\ try[0] = Jittered(StrictlyAfter(now))
      /\ \A k \in 1..MaxTries : try[k] = Skipped(try[k - 1])
  BY <1>1, CandidatesLaw
<1>3. MaxTries \in 0..MaxTries /\ MaxTries \in 1..MaxTries /\ MaxTries - 1 \in 0..MaxTries
  BY RulesType
<1>4. NextRun(now) = IF try[MaxTries - 1] # Never /\ BlackedOut(try[MaxTries - 1]) /\ try[MaxTries] # Never
                     THEN Saturated ELSE try[MaxTries]
  BY <1>1 DEF NextRun
<1>5. NextRun(now) \in DatesAfter(now) \cup {Saturated}
  BY <1>2, <1>3, <1>4
<1>6. ASSUME NextRun(now) # Saturated PROVE NextRun(now) = Never \/ ~BlackedOut(NextRun(now))
  <2>1. NextRun(now) = try[MaxTries]
    BY <1>4, <1>6
  <2>2. CASE try[MaxTries - 1] = Never \/ ~BlackedOut(try[MaxTries - 1])
    BY <1>2, <1>3, <2>1, <2>2 DEF Skipped
  <2>3. CASE try[MaxTries - 1] # Never /\ BlackedOut(try[MaxTries - 1])
    BY <1>4, <1>6, <2>1, <2>3
  <2>4. QED
    BY <2>2, <2>3
<1>7. ASSUME NEW u \in occurrences, u > now, Meets(u) = {}, NextRun(now) # Saturated
      PROVE  NextRun(now) # Never /\ NextRun(now) <= u + jitter
  <2>1. PICK S : S = {k \in 0..MaxTries : try[k] # Never /\ try[k] <= u + jitter}
    OBVIOUS
  <2>2. 0 \in S
    <3>1. StrictlyAfter(now) \in occurrences /\ StrictlyAfter(now) <= u
      BY <1>7, AfterLaw, RulesType
    <3>2. try[0] = StrictlyAfter(now) + jitter
      BY <1>2, <3>1, RulesType DEF Jittered
    <3>3. try[0] \in Int /\ try[0] <= u + jitter /\ 0 \in 0..MaxTries
      BY <3>1, <3>2, RulesType
    <3>4. QED
      BY <2>1, <3>3, RulesType
  <2>3. ASSUME NEW k \in 1..MaxTries, k - 1 \in S PROVE k \in S
    <3>1. try[k - 1] \in DatesAfter(now) /\ try[k - 1] # Never /\ try[k - 1] <= u + jitter
      BY <1>2, <2>1, <2>3
    <3>2. Skipped(try[k - 1]) # Never /\ Skipped(try[k - 1]) <= u + jitter
      BY <1>7, <3>1, SkippedLaw
    <3>3. k \in 0..MaxTries
      BY RulesType
    <3>4. QED
      BY <1>2, <2>1, <3>2, <3>3
  <2>4. MaxTries \in S
    BY <1>3, <2>2, <2>3, Along, RulesType
  <2>5. QED
    BY <1>4, <1>7, <2>1, <2>4
<1>8. QED
  BY <1>5, <1>6, <1>7

-----------------------------------------------------------------------------
(* No run is missed and none is made up *)

Upto(t)   == {u \in occurrences : u <= t}
\* The occurrences before t.
Before(t) == {u \in occurrences : u < t}

\* An occurrence that meets no blackout and that no run has followed yet is waited for.
Awaited(u) ==
  (Meets(u) = {} /\ ~\E f \in fired : f >= u)
    => (next # Never /\ next <= u + jitter) \/ \E s \in starts : s <= clock /\ u <= s

\* There are as many runs as occurrences that are over, not counting the one that is waited for.
Counted ==
  /\ Cardinality(fired) <= Cardinality(Upto(clock))
  /\ next # Never => \E u \in occurrences : next = u + jitter /\ Cardinality(fired) <= Cardinality(Before(u))

\* The inductive invariant: where the next run is put, and that no occurrence is forgotten.
CalInv ==
  /\ RulesOK /\ clock \in 0..LastInstant /\ gaveUp \in BOOLEAN
  /\ next \in Dates /\ fired \subseteq 0..clock
  /\ ~gaveUp => /\ next = Never \/ ~BlackedOut(next)
                /\ Counted
                /\ \A u \in occurrences : Awaited(u)

LEMMA OccurrencesFinite ==
  ASSUME RulesOK, NEW S, S \subseteq occurrences
  PROVE  IsFiniteSet(S) /\ Cardinality(S) \in Nat
<1>1. IsFiniteSet(1..LastInstant)
  BY RulesType, FS_Interval
<1>2. IsFiniteSet(S)
  BY <1>1, FS_Subset DEF RulesOK
<1>3. QED
  BY <1>2, FS_CardinalityType

\* Fewer occurrences lie before one than up to it or before a later one.
LEMMA CountGrows ==
  ASSUME RulesOK, NEW u \in occurrences
  PROVE  /\ Cardinality(Upto(u)) = Cardinality(Before(u)) + 1
         /\ \A t \in Nat : u <= t => Cardinality(Upto(u)) <= Cardinality(Upto(t))
         /\ \A t \in Nat : t < u => Cardinality(Upto(t)) <= Cardinality(Before(u))
<1>1. IsFiniteSet(Before(u)) /\ u \notin Before(u) /\ Upto(u) = Before(u) \cup {u}
  BY OccurrencesFinite, RulesType DEF Before, Upto
<1>2. Cardinality(Upto(u)) = Cardinality(Before(u)) + 1
  BY <1>1, FS_AddElement
<1>3. ASSUME NEW t \in Nat, u <= t PROVE Cardinality(Upto(u)) <= Cardinality(Upto(t))
  <2>1. Upto(u) \subseteq Upto(t) /\ IsFiniteSet(Upto(t))
    BY <1>3, OccurrencesFinite, RulesType DEF Upto
  <2>2. QED
    BY <2>1, FS_Subset
<1>4. ASSUME NEW t \in Nat, t < u PROVE Cardinality(Upto(t)) <= Cardinality(Before(u))
  <2>1. Upto(t) \subseteq Before(u)
    BY <1>4, RulesType DEF Upto, Before
  <2>2. QED
    BY <1>1, <2>1, FS_Subset
<1>5. QED
  BY <1>2, <1>3, <1>4

\* Right after a search that begins at the clock everything is in order again.
LEMMA Searched ==
  ASSUME RulesOK, clock \in 0..LastInstant, next = NextRun(clock), next # Saturated,
         fired \subseteq 0..clock, Cardinality(fired) <= Cardinality(Upto(clock)),
         \A u \in occurrences : u <= clock => Awaited(u)
  PROVE  (next = Never \/ ~BlackedOut(next)) /\ Counted /\ \A u \in occurrences : Awaited(u)
<1>1. clock \in Nat
  BY RulesType
<1>2. next \in DatesAfter(clock) /\ (next = Never \/ ~BlackedOut(next))
  BY <1>1, NextRunLaw
<1>3. Counted
  <2>1. ASSUME next # Never
        PROVE  \E u \in occurrences : next = u + jitter /\ Cardinality(fired) <= Cardinality(Before(u))
    <3>1. PICK u \in occurrences : u > clock /\ next = u + jitter
      BY <1>2, <2>1 DEF DatesAfter
    <3>2. Cardinality(Upto(clock)) <= Cardinality(Before(u))
      BY <1>1, <3>1, CountGrows
    <3>3. /\ Cardinality(Upto(clock)) \in Nat /\ Cardinality(Before(u)) \in Nat /\ Cardinality(fired) \in Nat
      <4>1. IsFiniteSet(0..clock)
        BY <1>1, FS_Interval
      <4>2. IsFiniteSet(fired)
        BY <4>1, FS_Subset
      <4>3. QED
        BY <4>2, FS_CardinalityType, OccurrencesFinite DEF Upto, Before
    <3>4. QED
      BY <3>1, <3>2, <3>3
  <2>2. QED
    BY <2>1 DEF Counted
<1>4. ASSUME NEW u \in occurrences PROVE Awaited(u)
  <2>1. CASE u <= clock
    BY <2>1
  <2>2. CASE ~(u <= clock)
    <3>1. u > clock
      BY <1>1, <2>2, RulesType
    <3>2. Meets(u) = {} => next # Never /\ next <= u + jitter
      BY <1>1, <3>1, NextRunLaw
    <3>3. QED
      BY <3>2 DEF Awaited
  <2>3. QED
    BY <2>1, <2>2
<1>5. QED
  BY <1>2, <1>3, <1>4

LEMMA SearchedAfter ==
  RulesOK' /\ (clock \in 0..LastInstant)' /\ (next = NextRun(clock))' /\ (next # Saturated)'
    /\ (fired \subseteq 0..clock)' /\ (Cardinality(fired) <= Cardinality(Upto(clock)))'
    /\ (\A u \in occurrences : u <= clock => Awaited(u))'
  => ((next = Never \/ ~BlackedOut(next)) /\ Counted /\ \A u \in occurrences : Awaited(u))'
<1>1. RulesOK /\ clock \in 0..LastInstant /\ next = NextRun(clock) /\ next # Saturated
        /\ fired \subseteq 0..clock /\ Cardinality(fired) <= Cardinality(Upto(clock))
        /\ (\A u \in occurrences : u <= clock => Awaited(u))
      => (next = Never \/ ~BlackedOut(next)) /\ Counted /\ \A u \in occurrences : Awaited(u)
  BY Searched
<1>2. QED
  BY <1>1, PTL

\* The rules, and what is computed from them, stay the same.
LEMMA RulesStay ==
  ASSUME UNCHANGED <<occurrences, starts, length, jitter>>
  PROVE  /\ RulesOK' = RulesOK /\ Dates' = Dates
         /\ \A t : Upto(t)' = Upto(t) /\ Before(t)' = Before(t) /\ Meets(t)' = Meets(t)
         /\ \A t : BlackedOut(t)' = BlackedOut(t) /\ NextRun(t)' = NextRun(t)
<1>1. /\ RulesOK' = RulesOK /\ Dates' = Dates
      /\ \A t : Upto(t)' = Upto(t) /\ Before(t)' = Before(t) /\ Meets(t)' = Meets(t)
  BY DEF RulesOK, Dates, Upto, Before, Meets
<1>2. \A t : BlackedOut(t)' = BlackedOut(t) /\ ActiveEnd(t)' = ActiveEnd(t)
  BY DEF BlackedOut, ActiveEnd, Covering, Between
<1>3. \A t : StrictlyAfter(t)' = StrictlyAfter(t) /\ Jittered(t)' = Jittered(t)
  BY DEF StrictlyAfter, Jittered
<1>4. \A c : Skipped(c)' = Skipped(c)
  BY <1>2, <1>3 DEF Skipped, StrictlyAfter, Jittered, ActiveEnd, Covering, Between, BlackedOut
<1>5. \A t : Candidates(t)' = Candidates(t)
  BY DEF Candidates, Skipped, StrictlyAfter, Jittered, ActiveEnd, Covering, Between, BlackedOut
<1>6. \A t : NextRun(t)' = NextRun(t)
  BY <1>5 DEF NextRun, Covering, Between, BlackedOut, Candidates, Skipped, StrictlyAfter, Jittered, ActiveEnd
<1>7. QED
  BY <1>1, <1>2, <1>6

\* A search answers with an occurrence, put off by the jitter.
LEMMA DateType ==
  ASSUME RulesOK, NEW now \in Nat, NextRun(now) # Saturated
  PROVE  NextRun(now) \in Dates
  BY NextRunLaw DEF DatesAfter, Dates

\* The first run is put as the expander says.
LEMMA InitSound == CalInit => CalInv
<1>1. SUFFICES ASSUME CalInit PROVE CalInv
  OBVIOUS
<1>2. RulesOK /\ clock = 0 /\ fired = {} /\ gaveUp = (NextRun(0) = Saturated)
  <2>1. LastInstant \in Nat
    BY CalendarAssumption
  <2>2. 1..(LastInstant - 1) \subseteq 1..LastInstant
    BY <2>1
  <2>3. QED
    BY <1>1, <2>2 DEF CalInit, RulesOK
<1>3. clock \in 0..LastInstant /\ fired \subseteq 0..clock /\ gaveUp \in BOOLEAN
  BY <1>2, RulesType
<1>4. CASE NextRun(0) = Saturated
  <2>1. next = Never /\ gaveUp
    BY <1>1, <1>2, <1>4 DEF CalInit
  <2>2. QED
    BY <1>2, <1>3, <2>1 DEF CalInv, Dates
<1>5. CASE NextRun(0) # Saturated
  <2>1. next = NextRun(clock) /\ next # Saturated
    BY <1>1, <1>2, <1>5 DEF CalInit
  <2>2. next \in Dates
    BY <1>2, <1>5, <2>1, DateType
  <2>3. Cardinality(fired) <= Cardinality(Upto(clock))
    <3>1. Cardinality(fired) = 0 /\ Cardinality(Upto(clock)) \in Nat
      BY <1>2, FS_EmptySet, OccurrencesFinite DEF Upto
    <3>2. QED
      BY <3>1
  <2>4. \A u \in occurrences : u <= clock => Awaited(u)
    BY <1>2 DEF RulesOK
  <2>5. (next = Never \/ ~BlackedOut(next)) /\ Counted /\ \A u \in occurrences : Awaited(u)
    BY <1>2, <1>3, <2>1, <2>3, <2>4, Searched
  <2>6. QED
    BY <1>2, <1>3, <2>2, <2>5 DEF CalInv
<1>6. QED
  BY <1>4, <1>5

\* Time passes, and runs may come late.
LEMMA PassSound == CalInv /\ Pass => CalInv'
<1>1. SUFFICES ASSUME CalInv, Pass PROVE CalInv'
  OBVIOUS
<1>2. /\ UNCHANGED <<occurrences, starts, length, jitter>> /\ clock' = clock + 1
      /\ next' = next /\ fired' = fired /\ gaveUp' = gaveUp
      /\ RulesOK /\ clock \in Nat /\ clock' \in 0..LastInstant
  BY <1>1, CalendarAssumption DEF Pass, CalInv
<1>3. RulesOK' /\ next' \in Dates' /\ fired' \subseteq 0..clock' /\ gaveUp' \in BOOLEAN
  <2>1. 0..clock \subseteq 0..clock'
    BY <1>2
  <2>2. QED
    BY <1>1, <1>2, <2>1, RulesStay DEF CalInv
<1>4. ASSUME ~gaveUp PROVE (next = Never \/ ~BlackedOut(next))'
  BY <1>1, <1>2, <1>4, RulesStay DEF CalInv
<1>5. ASSUME ~gaveUp PROVE Counted'
  <2>1. Counted /\ \A t : Upto(t)' = Upto(t) /\ Before(t)' = Before(t)
    BY <1>1, <1>2, <1>5, RulesStay DEF CalInv
  <2>2. Upto(clock)' = Upto(clock + 1)
    BY <1>2 DEF Upto
  <2>3. Cardinality(Upto(clock)) <= Cardinality(Upto(clock + 1)) /\ Cardinality(Upto(clock)) \in Nat
        /\ Cardinality(Upto(clock + 1)) \in Nat
    <3>1. Upto(clock) \subseteq Upto(clock + 1) /\ IsFiniteSet(Upto(clock + 1))
      BY <1>2, OccurrencesFinite, RulesType DEF Upto
    <3>2. QED
      BY <1>2, <3>1, FS_Subset, FS_CardinalityType
  <2>4. Cardinality(fired) \in Nat
    <3>1. IsFiniteSet(0..clock)
      BY <1>2, FS_Interval
    <3>2. IsFiniteSet(fired)
      BY <1>1, <3>1, FS_Subset DEF CalInv
    <3>3. QED
      BY <3>2, FS_CardinalityType
  <2>5. Cardinality(fired') <= Cardinality(Upto(clock)')
    BY <1>2, <2>1, <2>2, <2>3, <2>4 DEF Counted
  <2>6. QED
    BY <1>2, <2>1, <2>5 DEF Counted
<1>6. ASSUME ~gaveUp, NEW u \in occurrences PROVE Awaited(u)'
  <2>1. Awaited(u) /\ Meets(u)' = Meets(u)
    BY <1>1, <1>2, <1>6, RulesStay DEF CalInv
  <2>2. (\E s \in starts : s <= clock /\ u <= s) => \E s \in starts : s <= clock + 1 /\ u <= s
    BY <1>2, RulesType
  <2>3. QED
    BY <1>2, <2>1, <2>2 DEF Awaited
<1>7. QED
  BY <1>2, <1>3, <1>4, <1>5, <1>6 DEF CalInv

\* Searching from the clock is searching from the instant that it shows.
LEMMA FromTheClock == (\A t : t = clock => NextRun(clock) = NextRun(t))'
<1>1. \A t : t = clock => NextRun(clock) = NextRun(t)
  OBVIOUS
<1>2. QED
  BY <1>1, PTL

\* The common end of the two steps that search again from the clock.
LEMMA SearchSound ==
  ASSUME CalInv, UNCHANGED <<occurrences, starts, length, jitter, clock>>,
         next' = IF NextRun(clock) = Saturated THEN next ELSE NextRun(clock),
         gaveUp' = (gaveUp \/ NextRun(clock) = Saturated),
         fired' \subseteq 0..clock,
         ~gaveUp => Cardinality(fired') <= Cardinality(Upto(clock)) /\ \A u \in occurrences : u <= clock => Awaited(u)'
  PROVE  CalInv'
<1>1. RulesOK /\ clock \in 0..LastInstant /\ gaveUp \in BOOLEAN /\ next \in Dates
  BY DEF CalInv
<1>2. clock \in Nat
  BY <1>1, RulesType
<1>3. RulesOK' /\ (clock \in 0..LastInstant)' /\ (fired \subseteq 0..clock)' /\ gaveUp' \in BOOLEAN /\ Dates' = Dates
  BY <1>1, RulesStay
<1>4. next' \in Dates'
  BY <1>1, <1>2, <1>3, DateType
<1>5. ASSUME ~gaveUp'
      PROVE  ((next = Never \/ ~BlackedOut(next)) /\ Counted /\ \A u \in occurrences : Awaited(u))'
  <2>1. ~gaveUp /\ NextRun(clock) # Saturated
    BY <1>5
  <2>2. next' = NextRun(clock) /\ \A t : NextRun(t)' = NextRun(t)
    BY <2>1, RulesStay
  <2>3. NextRun(clock)' = NextRun(clock)
    <3>1. PICK c : c = clock
      OBVIOUS
    <3>2. NextRun(c)' = NextRun(clock)
      BY <2>2, <3>1
    <3>3. QED
      BY <3>1, <3>2, FromTheClock
  <2>4. (next = NextRun(clock))' /\ (next # Saturated)'
    BY <2>1, <2>2, <2>3
  <2>5. (Cardinality(fired) <= Cardinality(Upto(clock)))'
    BY <2>1, RulesStay DEF Upto
  <2>6. (\A u \in occurrences : u <= clock => Awaited(u))'
    BY <2>1
  <2>7. QED
    BY <1>3, <2>4, <2>5, <2>6, SearchedAfter
<1>6. QED
  BY <1>3, <1>4, <1>5 DEF CalInv

\* A run, and the next one after it.
LEMMA FireSound == CalInv /\ Fire => CalInv'
<1>1. SUFFICES ASSUME CalInv, Fire PROVE CalInv'
  OBVIOUS
<1>2. /\ UNCHANGED <<occurrences, starts, length, jitter, clock>>
      /\ next' = IF NextRun(clock) = Saturated THEN next ELSE NextRun(clock)
      /\ gaveUp' = (gaveUp \/ NextRun(clock) = Saturated)
      /\ fired' = fired \cup {clock} /\ next # Never /\ next <= clock
  BY <1>1 DEF Fire
<1>3. RulesOK /\ clock \in Nat /\ fired \subseteq 0..clock
  BY <1>1, CalendarAssumption DEF CalInv
<1>4. fired' \subseteq 0..clock
  BY <1>2, <1>3
<1>5. ASSUME ~gaveUp PROVE Cardinality(fired') <= Cardinality(Upto(clock))
  <2>1. PICK u \in occurrences : next = u + jitter /\ Cardinality(fired) <= Cardinality(Before(u))
    BY <1>1, <1>2, <1>5 DEF CalInv, Counted
  <2>2. u \in Nat /\ u <= clock
    BY <1>2, <1>3, <2>1, RulesType
  <2>3. Cardinality(Upto(u)) = Cardinality(Before(u)) + 1 /\ Cardinality(Upto(u)) <= Cardinality(Upto(clock))
    BY <1>3, <2>2, CountGrows
  <2>4. IsFiniteSet(fired)
    <3>1. IsFiniteSet(0..clock)
      BY <1>3, FS_Interval
    <3>2. QED
      BY <1>3, <3>1, FS_Subset
  <2>5. Cardinality(fired') \in Nat /\ Cardinality(fired) \in Nat /\ Cardinality(fired') <= Cardinality(fired) + 1
    <3>1. IsFiniteSet(fired') /\ (Cardinality(fired') = Cardinality(fired) \/ Cardinality(fired') = Cardinality(fired) + 1)
      BY <1>2, <2>4, FS_AddElement
    <3>2. QED
      BY <2>4, <3>1, FS_CardinalityType
  <2>6. Cardinality(Before(u)) \in Nat /\ Cardinality(Upto(u)) \in Nat /\ Cardinality(Upto(clock)) \in Nat
    BY <1>3, OccurrencesFinite DEF Before, Upto
  <2>7. QED
    BY <2>1, <2>3, <2>5, <2>6
<1>6. ASSUME NEW u \in occurrences, u <= clock PROVE Awaited(u)'
  BY <1>2, <1>6 DEF Awaited
<1>7. QED
  BY <1>1, <1>2, <1>4, <1>5, <1>6, SearchSound

\* A run that a blackout skips, and the next one after it.
LEMMA SkipRunSound == CalInv /\ SkipRun => CalInv'
<1>1. SUFFICES ASSUME CalInv, SkipRun PROVE CalInv'
  OBVIOUS
<1>2. /\ UNCHANGED <<occurrences, starts, length, jitter, clock>>
      /\ next' = IF NextRun(clock) = Saturated THEN next ELSE NextRun(clock)
      /\ gaveUp' = (gaveUp \/ NextRun(clock) = Saturated)
      /\ fired' = fired /\ BlackedOut(clock)
  BY <1>1 DEF SkipRun
<1>3. RulesOK /\ clock \in Nat /\ fired' \subseteq 0..clock
  BY <1>1, <1>2, CalendarAssumption DEF CalInv
<1>4. ~gaveUp => Cardinality(fired') <= Cardinality(Upto(clock))
  BY <1>1, <1>2 DEF CalInv, Counted
<1>5. PICK s \in starts : s <= clock /\ clock < s + length
  BY <1>2, <1>3, EndLaw
<1>6. ASSUME NEW u \in occurrences, u <= clock PROVE Awaited(u)'
  <2>1. CASE u <= s
    BY <1>2, <1>5, <2>1 DEF Awaited
  <2>2. CASE ~(u <= s)
    <3>1. u \in Nat /\ s \in Nat /\ s <= u + jitter /\ u <= s + length
      BY <1>3, <1>5, <1>6, <2>2, RulesType
    <3>2. Meets(u)' # {}
      BY <1>2, <1>5, <3>1 DEF Meets
    <3>3. QED
      BY <3>2 DEF Awaited
  <2>3. QED
    BY <2>1, <2>2
<1>7. QED
  BY <1>1, <1>2, <1>3, <1>4, <1>6, SearchSound

LEMMA CalStep == CalInv /\ [CalNext]_calVars => CalInv'
<1>1. SUFFICES ASSUME CalInv, [CalNext]_calVars PROVE CalInv'
  OBVIOUS
<1>2. CASE UNCHANGED calVars
  <2>1. /\ UNCHANGED <<occurrences, starts, length, jitter>> /\ clock' = clock
        /\ next' = next /\ fired' = fired /\ gaveUp' = gaveUp
    BY <1>2 DEF calVars
  <2>2. /\ RulesOK' = RulesOK /\ Dates' = Dates /\ BlackedOut(next)' = BlackedOut(next)
    BY <2>1, RulesStay DEF BlackedOut, Covering, Between
  <2>3. Counted' = Counted
    BY <2>1 DEF Counted, Upto, Before
  <2>4. \A u : Awaited(u)' = Awaited(u)
    BY <2>1 DEF Awaited, Meets
  <2>5. QED
    BY <1>1, <2>1, <2>2, <2>3, <2>4 DEF CalInv
<1>3. QED
  BY <1>1, <1>2, PassSound, FireSound, SkipRunSound DEF CalNext

LEMMA CalInvHolds == CalSpec => []CalInv
<1>1. CalInit => CalInv
  BY InitSound
<1>2. QED
  BY <1>1, CalStep, PTL DEF CalSpec

LEMMA CalInvTyped == CalInv => CalTypeOK
<1>1. SUFFICES ASSUME CalInv PROVE CalTypeOK
  OBVIOUS
<1>2. RulesOK /\ clock \in 0..LastInstant /\ gaveUp \in BOOLEAN /\ next \in Dates /\ fired \subseteq 0..clock
  BY <1>1 DEF CalInv
<1>3. 0..clock \subseteq 0..LastInstant
  BY <1>2, RulesType
<1>4. \A u \in occurrences : u + jitter \in 0..(LastInstant + MaxJitter)
  BY <1>2, RulesType DEF RulesOK
<1>5. QED
  BY <1>2, <1>3, <1>4 DEF CalTypeOK, RulesOK, Dates

\* Type correctness: next_run_at stays an occurrence put off by the jitter, or none.
THEOREM CalendarTypes == CalSpec => []CalTypeOK
  BY CalInvTyped, CalInvHolds, PTL

\* However late runs are and however occurrences and blackouts interleave: a schedule does not run more often
\* than its rule says, an occurrence that meets no blackout is followed by a run or waited for, and the next
\* run is put outside of the blackouts (rrule_expand.go:82-112).
THEOREM NoRunIsMissed == CalSpec => []NoRunMissed
<1>1. CalInv => NoRunMissed
  <2>1. SUFFICES ASSUME CalInv, ~gaveUp PROVE NoRunMissed
    BY DEF NoRunMissed
  <2>2. QED
    BY <2>1 DEF CalInv, Counted, Awaited, Upto, NoRunMissed
<1>2. QED
  BY <1>1, CalInvHolds, PTL

-----------------------------------------------------------------------------
(* The daily window *)

\* Division with a remainder.
LEMMA ModDiv ==
  ASSUME NEW d \in Nat, d > 0, NEW t \in Nat
  PROVE  \E q \in Int : t = (q * d) + (t % d) /\ t % d \in 0..(d - 1)
<1>1. t = ((t \div d) * d) + (t % d) /\ t \div d \in Int
  OBVIOUS
<1>2. t % d \in 0..(d - 1)
  OBVIOUS
<1>3. QED
  BY <1>1, <1>2

LEMMA ModUnique ==
  ASSUME NEW d \in Nat, d > 0, NEW q \in Int, NEW m \in 0..(d - 1)
  PROVE  ((q * d) + m) % d = m
  OBVIOUS

\* The remainder moves on with the number, and starts again after d.
LEMMA ModMoves ==
  ASSUME NEW d \in Nat, d > 0, NEW t \in Nat, NEW k \in Nat
  PROVE  /\ (t % d) + k < d => (t + k) % d = (t % d) + k
         /\ (t % d) + k >= d /\ (t % d) + k < d + d => (t + k) % d = ((t % d) + k) - d
<1>1. PICK q \in Int : t = (q * d) + (t % d) /\ t % d \in 0..(d - 1)
  BY ModDiv
<1>2. PICK m \in 0..(d - 1) : m = t % d
  BY <1>1
<1>3. ASSUME m + k < d PROVE (t + k) % d = m + k
  <2>1. t + k = (q * d) + (m + k) /\ m + k \in 0..(d - 1)
    BY <1>1, <1>2, <1>3
  <2>2. QED
    BY <2>1, ModUnique
<1>4. ASSUME m + k >= d, m + k < d + d PROVE (t + k) % d = (m + k) - d
  <2>1. t + k = ((q + 1) * d) + ((m + k) - d) /\ (m + k) - d \in 0..(d - 1)
    BY <1>1, <1>2, <1>4
  <2>2. q + 1 \in Int
    OBVIOUS
  <2>3. QED
    BY <2>1, <2>2, ModUnique
<1>5. QED
  BY <1>2, <1>3, <1>4

\* The time of day, k instants later.
LEMMA TimeOfDay ==
  ASSUME NEW t \in Nat, NEW m, m = t % Day
  PROVE  /\ Day \in Nat /\ Day > 0 /\ m \in 0..(Day - 1) /\ t - m \in Nat
         /\ \A k \in Nat : m + k < Day => (t + k) % Day = m + k
         /\ \A k \in Nat : m + k >= Day /\ m + k < Day + Day => (t + k) % Day = (m + k) - Day
<1>1. Day \in Nat /\ Day > 0
  BY CalendarAssumption
<1>2. PICK q \in Int : t = (q * Day) + m /\ m \in 0..(Day - 1)
  BY <1>1, ModDiv
<1>3. t - m \in Nat
  BY <1>1, <1>2
<1>4. QED
  BY <1>1, <1>2, <1>3, ModMoves

\* The window is open from the given instant until NextOpen and is over then.
LEMMA WindowCloses ==
  ASSUME NEW from \in 0..(Day - 1), NEW to \in 0..(Day - 1), NEW t \in Nat, NEW o, o = NextOpen(from, to, t)
  PROVE  o >= t /\ ~InWindow(from, to, o) /\ \A u \in t..(o - 1) : InWindow(from, to, u)
<1>1. PICK m : m = t % Day
  OBVIOUS
<1>2. /\ Day \in Nat /\ Day > 0 /\ m \in 0..(Day - 1)
      /\ \A k \in Nat : m + k < Day => (t + k) % Day = m + k
      /\ \A k \in Nat : m + k >= Day /\ m + k < Day + Day => (t + k) % Day = (m + k) - Day
  BY <1>1, TimeOfDay
<1>3. from \in Nat /\ to \in Nat /\ from < Day /\ to < Day
  BY <1>2
<1>4. CASE ~InWindow(from, to, t)
  <2>1. o = t
    BY <1>4 DEF NextOpen
  <2>2. QED
    BY <1>4, <2>1
<1>5. CASE InWindow(from, to, t) /\ (from < to \/ m < to)
  <2>1. o = (t - m) + to /\ m < to
    BY <1>1, <1>2, <1>3, <1>5 DEF NextOpen, InWindow
  <2>2. ASSUME NEW k \in Nat, m + k <= to PROVE (t + k) % Day = m + k
    BY <1>2, <1>3, <2>2
  <2>3. o % Day = to
    <3>1. to - m \in Nat /\ o = t + (to - m) /\ m + (to - m) = to
      BY <1>2, <1>3, <2>1
    <3>2. QED
      BY <2>2, <3>1
  <2>4. ~InWindow(from, to, o)
    BY <1>1, <1>2, <1>3, <1>5, <2>1, <2>3 DEF InWindow
  <2>5. ASSUME NEW u \in t..(o - 1) PROVE InWindow(from, to, u)
    <3>1. PICK k \in Nat : u = t + k /\ m + k < to
      <4>1. u - t \in Nat /\ u = t + (u - t) /\ m + (u - t) < to
        BY <1>2, <1>3, <2>1
      <4>2. QED
        BY <4>1
    <3>2. u % Day = m + k
      BY <2>2, <3>1, <1>2, <1>3
    <3>3. QED
      BY <1>1, <1>2, <1>3, <1>5, <3>1, <3>2 DEF InWindow
  <2>6. QED
    BY <1>2, <1>3, <2>1, <2>4, <2>5
<1>6. CASE InWindow(from, to, t) /\ ~(from < to \/ m < to)
  <2>1. o = ((t - m) + Day) + to /\ to <= m /\ from <= m /\ to < from
    BY <1>1, <1>2, <1>3, <1>6 DEF NextOpen, InWindow
  <2>2. o % Day = to
    <3>1. (Day + to) - m \in Nat /\ o = t + ((Day + to) - m) /\ m + ((Day + to) - m) = Day + to
      BY <1>2, <1>3, <2>1
    <3>2. Day + to >= Day /\ Day + to < Day + Day /\ (Day + to) - Day = to
      BY <1>2, <1>3
    <3>3. QED
      BY <1>2, <3>1, <3>2
  <2>3. ~InWindow(from, to, o)
    BY <1>3, <2>1, <2>2 DEF InWindow
  <2>4. ASSUME NEW u \in t..(o - 1) PROVE InWindow(from, to, u)
    <3>1. PICK k \in Nat : u = t + k /\ m + k < Day + to
      <4>1. u - t \in Nat /\ u = t + (u - t) /\ m + (u - t) < Day + to
        BY <1>2, <1>3, <2>1
      <4>2. QED
        BY <4>1
    <3>2. CASE m + k < Day
      <4>1. u % Day = m + k /\ m + k >= from
        BY <1>2, <1>3, <2>1, <3>1, <3>2
      <4>2. QED
        BY <1>3, <2>1, <4>1 DEF InWindow
    <3>3. CASE ~(m + k < Day)
      <4>1. m + k >= Day /\ m + k < Day + Day /\ (m + k) - Day < to
        BY <1>2, <1>3, <3>1, <3>3
      <4>2. u % Day = (m + k) - Day
        BY <1>2, <3>1, <4>1
      <4>3. PICK x \in Nat : x = (m + k) - Day
        BY <1>2, <4>1
      <4>4. QED
        BY <1>3, <2>1, <4>1, <4>2, <4>3 DEF InWindow
    <3>4. QED
      BY <3>2, <3>3
  <2>5. QED
    BY <1>2, <1>3, <2>1, <2>3, <2>4
<1>7. QED
  BY <1>4, <1>5, <1>6

\* NextStart is the first beginning of the window after the given instant.
LEMMA WindowBegins ==
  ASSUME NEW from \in 0..(Day - 1), NEW to \in 0..(Day - 1), NEW t \in Nat, NEW n, n = NextStart(from, t)
  PROVE  /\ n > t /\ (from # to => InWindow(from, to, n))
         /\ \A u \in (t + 1)..(n - 1) : InWindow(from, to, u) => InWindow(from, to, u - 1)
<1>1. PICK m : m = t % Day
  OBVIOUS
<1>2. /\ Day \in Nat /\ Day > 0 /\ m \in 0..(Day - 1) /\ t - m \in Nat
      /\ \A k \in Nat : m + k < Day => (t + k) % Day = m + k
      /\ \A k \in Nat : m + k >= Day /\ m + k < Day + Day => (t + k) % Day = (m + k) - Day
  BY <1>1, TimeOfDay
<1>3. from \in Nat /\ to \in Nat /\ from < Day /\ to < Day
  BY <1>2
<1>4. n = IF from > m THEN (t - m) + from ELSE ((t - m) + Day) + from
  <2>1. PICK S : S = {u \in {(t - m) + from, ((t - m) + Day) + from} : u > t}
    OBVIOUS
  <2>2. n = Min(S)
    BY <1>1, <2>1 DEF NextStart
  <2>3. S \in SUBSET Nat /\ ((t - m) + Day) + from \in S
    BY <1>2, <1>3, <2>1
  <2>4. n \in S /\ \A y \in S : n <= y
    BY <2>2, <2>3, LeastNat
  <2>5. QED
    BY <1>2, <1>3, <2>1, <2>4
<1>5. PICK j \in Nat : n = t + j /\ j > 0 /\ IF from > m THEN m + j = from ELSE m + j = Day + from
  <2>1. n - t \in Nat /\ n = t + (n - t) /\ n - t > 0
        /\ IF from > m THEN m + (n - t) = from ELSE m + (n - t) = Day + from
    BY <1>2, <1>3, <1>4
  <2>2. QED
    BY <2>1
<1>6. n % Day = from
  <2>1. CASE from > m
    BY <1>2, <1>3, <1>5, <2>1
  <2>2. CASE ~(from > m)
    <3>1. m + j = Day + from /\ Day + from >= Day /\ Day + from < Day + Day /\ (Day + from) - Day = from
      BY <1>2, <1>3, <1>5, <2>2
    <3>2. QED
      BY <1>2, <1>5, <3>1
  <2>3. QED
    BY <2>1, <2>2
<1>7. from # to => InWindow(from, to, n)
  BY <1>3, <1>6 DEF InWindow
<1>8. ASSUME NEW u \in (t + 1)..(n - 1), InWindow(from, to, u) PROVE InWindow(from, to, u - 1)
  <2>1. PICK k \in Nat : u = t + k /\ k > 0 /\ k < j
    <3>1. u - t \in Nat /\ u = t + (u - t) /\ u - t > 0 /\ u - t < j
      BY <1>5
    <3>2. QED
      BY <3>1
  <2>2. PICK i \in Nat : i = k - 1 /\ u - 1 = t + i
    BY <2>1
  <2>3. CASE m + k < Day
    <3>1. u % Day = m + k /\ (u - 1) % Day = (m + k) - 1 /\ m + k # from
      <4>1. m + i < Day /\ m + i = (m + k) - 1
        BY <1>2, <2>1, <2>2, <2>3
      <4>2. m + k # from
        BY <1>2, <1>3, <1>5, <2>1
      <4>3. QED
        BY <1>2, <2>1, <2>2, <2>3, <4>1, <4>2
    <3>2. QED
      BY <1>2, <1>3, <1>8, <2>1, <3>1 DEF InWindow
  <2>4. CASE m + k = Day
    <3>1. u % Day = 0 /\ (u - 1) % Day = Day - 1 /\ from # 0
      <4>1. m + i < Day /\ m + i = Day - 1 /\ m + k < Day + Day /\ (m + k) - Day = 0
        BY <1>2, <2>1, <2>2, <2>4
      <4>2. from # 0
        BY <1>2, <1>3, <1>5, <2>1, <2>4
      <4>3. QED
        BY <1>2, <2>1, <2>2, <2>4, <4>1, <4>2
    <3>2. QED
      BY <1>2, <1>3, <1>8, <3>1 DEF InWindow
  <2>5. CASE m + k > Day
    <3>1. u % Day = (m + k) - Day /\ (u - 1) % Day = ((m + k) - Day) - 1 /\ (m + k) - Day < from
      <4>1. m + k < Day + Day /\ m + k >= Day /\ (m + k) - Day < from
        BY <1>2, <1>3, <1>5, <2>1, <2>5
      <4>2. m + i < Day + Day /\ m + i >= Day /\ (m + i) - Day = ((m + k) - Day) - 1
        BY <1>2, <2>1, <2>2, <2>5, <4>1
      <4>3. QED
        BY <1>2, <2>1, <2>2, <4>1, <4>2
    <3>2. PICK x \in Nat : x = (m + k) - Day
      BY <1>2, <2>1, <2>5
    <3>3. x > 0 /\ u % Day = x /\ (u - 1) % Day = x - 1 /\ x < from
      BY <1>2, <2>1, <2>5, <3>1, <3>2
    <3>4. QED
      BY <1>3, <1>8, <3>3 DEF InWindow
  <2>6. QED
    BY <1>2, <2>1, <2>3, <2>4, <2>5
<1>9. QED
  BY <1>3, <1>5, <1>7, <1>8

\* Whatever the length of a day: a maintenance window, across midnight too, ends and begins again exactly at
\* the instants that are announced (window.go:81-107).
THEOREM WindowsReopen == WindowReopens
<1>1. SUFFICES ASSUME NEW from \in 0..(Day - 1), NEW to \in 0..(Day - 1), NEW t \in 0..(2 * Day)
               PROVE  LET o == NextOpen(from, to, t)
                          n == NextStart(from, t)
                      IN  /\ o >= t /\ ~InWindow(from, to, o) /\ \A u \in t..(o - 1) : InWindow(from, to, u)
                          /\ n > t /\ (from # to => InWindow(from, to, n))
                          /\ \A u \in (t + 1)..(n - 1) : InWindow(from, to, u) => InWindow(from, to, u - 1)
  BY DEF WindowReopens
<1>2. t \in Nat
  BY CalendarAssumption
<1>3. QED
  BY <1>2, WindowCloses, WindowBegins

-----------------------------------------------------------------------------
(* What is shown and what is computed *)

\* The list of the API, which looks back only so far, has every blackout that the evaluator finds.
LEMMA ListAgrees ==
  ASSUME RulesOK, clock \in Nat, NEW t \in clock..(clock + Ahead)
  PROVE  BlackedOut(t) <=> \E u \in UpcomingBlackouts : u <= t /\ t < u + length
<1>1. /\ t \in Nat /\ Ahead \in Nat /\ LookBack \in Nat /\ length \in Nat /\ length <= LookBack
      /\ t >= clock /\ t <= clock + Ahead /\ starts \subseteq Nat
  BY RulesType, CalendarAssumption DEF RulesOK
<1>2. BlackedOut(t) <=> \E u \in starts : t - LookBack <= u /\ u <= t /\ t < u + length
  BY DEF BlackedOut, Covering, Between
<1>3. \A u \in starts : u <= t /\ t < u + length
        => t - LookBack <= u /\ u \in UpcomingBlackouts
  BY <1>1 DEF UpcomingBlackouts, Between
<1>4. UpcomingBlackouts \subseteq starts
  BY DEF UpcomingBlackouts, Between
<1>5. QED
  BY <1>2, <1>3, <1>4

\* A single occurrence of the blackout is a window of the scheduler's model, and of several that are active
\* both take the first.
LEMMA SameWindows ==
  ASSUME RulesOK, NEW at \in Nat
  PROVE  /\ Coarse!IsActive(starts, Day, at) <=> BlackedOut(at)
         /\ BlackedOut(at) => Coarse!NextWindowEnd(starts, Day, at) = ActiveEnd(at)
<1>1. length \in Nat /\ LookBack \in Nat /\ length <= LookBack /\ starts \subseteq Nat
  BY RulesType, CalendarAssumption DEF RulesOK
<1>2. Coarse!ActiveWindows(starts, Day, at) = {u \in starts : u <= at /\ at < u + length}
  BY DEF Coarse!ActiveWindows
<1>3. Covering(at) = {u \in starts : u <= at /\ at < u + length}
  <2>1. \A u \in starts : u <= at /\ at < u + length => at - LookBack <= u
    BY <1>1
  <2>2. QED
    BY <2>1, Zenon DEF Covering, Between
<1>4. Coarse!IsActive(starts, Day, at) <=> BlackedOut(at)
  BY <1>2, <1>3 DEF Coarse!IsActive, BlackedOut
<1>5. ASSUME BlackedOut(at) PROVE Coarse!NextWindowEnd(starts, Day, at) = ActiveEnd(at)
  <2>1. PICK s : s = Coarse!FirstActive(starts, Day, at)
    OBVIOUS
  <2>2. PICK C : C = Covering(at)
    OBVIOUS
  <2>3. C \in SUBSET Nat /\ C # {} /\ C \subseteq starts
    BY <1>1, <1>3, <1>5, <2>2 DEF BlackedOut
  <2>4. {w \in C : [u \in starts |-> {Day}][w] = {Day}} = C
    BY <2>3
  <2>5. s = CHOOSE w \in C : \A v \in C : [u \in starts |-> u][w] <= [u \in starts |-> u][v]
    <3>1. Coarse!ActiveWindows(starts, Day, at) = C
      BY <1>2, <1>3, <2>2
    <3>2. QED
      BY <2>1, <2>3, <2>4, <3>1, Zenon DEF Coarse!FirstActive
  <2>6. Min(C) \in C /\ \A v \in C : Min(C) <= v
    BY <2>3, LeastNat
  <2>7. \E w \in C : \A v \in C : [u \in starts |-> u][w] <= [u \in starts |-> u][v]
    BY <2>3, <2>6
  <2>8. s \in C /\ \A v \in C : [u \in starts |-> u][s] <= [u \in starts |-> u][v]
    BY <2>5, <2>7
  <2>9. \A v \in C : s <= v
    BY <2>3, <2>8
  <2>10. s = Min(C)
    <3>1. s <= Min(C) /\ Min(C) <= s /\ s \in Nat /\ Min(C) \in Nat
      BY <2>3, <2>6, <2>8, <2>9
    <3>2. QED
      BY <3>1
  <2>11. QED
    BY <2>1, <2>2, <2>3, <2>8, <2>10 DEF Coarse!NextWindowEnd, ActiveEnd
<1>6. QED
  BY <1>4, <1>5

\* rule.After, of the scheduler's model and of the calendar.
LEMMA SameAfter ==
  ASSUME RulesOK, NEW at \in Nat
  PROVE  Coarse!After(Day, at) = StrictlyAfter(at)
<1>1. PICK later : later = {u \in occurrences : u > at}
  OBVIOUS
<1>2. {u \in [r \in {Day} |-> occurrences][Day] : at < u} = later
  <2>1. [r \in {Day} |-> occurrences][Day] = occurrences
    OBVIOUS
  <2>2. {u \in occurrences : at < u} = later
    BY <1>1, RulesType
  <2>3. QED
    BY <2>1, <2>2, Zenon
<1>3. CASE later = {}
  <2>1. Coarse!After(Day, at) = Never
    BY <1>2, <1>3, Zenon DEF Coarse!After
  <2>2. QED
    BY <1>1, <1>3, <2>1 DEF StrictlyAfter
<1>4. CASE later # {}
  <2>1. later \in SUBSET Nat
    BY <1>1, RulesType
  <2>2. Min(later) \in later /\ \A y \in later : Min(later) <= y
    BY <1>4, <2>1, LeastNat
  <2>3. Coarse!After(Day, at) \in later /\ \A y \in later : Coarse!After(Day, at) <= y
    BY <1>2, <1>4, <2>2, Zenon DEF Coarse!After
  <2>4. PICK m \in Nat : m = Min(later) /\ m \in later /\ \A y \in later : m <= y
    BY <2>1, <2>2
  <2>5. PICK c \in Nat : c = Coarse!After(Day, at) /\ c \in later /\ \A y \in later : c <= y
    BY <2>1, <2>3
  <2>6. c <= m /\ m <= c
    BY <2>4, <2>5
  <2>7. c = m
    BY <2>6
  <2>8. QED
    BY <1>1, <1>4, <2>4, <2>5, <2>7 DEF StrictlyAfter
<1>5. QED
  BY <1>3, <1>4

\* Jitter aside, the scheduler's model, which takes every occurrence of a blackout for a window of its own,
\* computes the next run that the code computes from the two rules.
LEMMA SameSearch ==
  ASSUME RulesOK, jitter = 0, NEW now \in Nat
  PROVE  NextRun(now) = Coarse!ComputeNextRunAt(Day, starts, Day, now)
<1>1. PICK try : try = Candidates(now)
  OBVIOUS
<1>2. PICK cand : cand = Coarse!Candidate(Day, starts, Day, now)
  OBVIOUS
<1>3. /\ try \in [0..MaxTries -> DatesAfter(now)]
      /\ try[0] = Jittered(StrictlyAfter(now))
      /\ \A k \in 1..MaxTries : try[k] = Skipped(try[k - 1])
  BY <1>1, CandidatesLaw
<1>4. \A c \in DatesAfter(now) : c = Never \/ (c \in Nat /\ c # Never)
  BY RulesType DEF DatesAfter
<1>5. ASSUME NEW at \in Nat
      PROVE  Jittered(StrictlyAfter(at)) = Coarse!After(Day, at)
  <2>1. StrictlyAfter(at) = Never \/ StrictlyAfter(at) \in Nat
    BY AfterLaw, RulesType
  <2>2. Jittered(StrictlyAfter(at)) = StrictlyAfter(at)
    BY <2>1 DEF Jittered
  <2>3. QED
    BY <2>2, SameAfter
<1>6. ASSUME NEW c \in DatesAfter(now)
      PROVE  Skipped(c) = IF c = Never \/ ~Coarse!IsActive(starts, Day, c) THEN c
                          ELSE Coarse!After(Day, Coarse!NextWindowEnd(starts, Day, c))
  <2>1. CASE c = Never
    BY <2>1 DEF Skipped
  <2>2. CASE c \in Nat /\ c # Never /\ ~BlackedOut(c)
    BY <2>2, SameWindows DEF Skipped
  <2>3. CASE c \in Nat /\ c # Never /\ BlackedOut(c)
    <3>1. Coarse!IsActive(starts, Day, c) /\ Coarse!NextWindowEnd(starts, Day, c) = ActiveEnd(c)
      BY <2>3, SameWindows
    <3>2. ActiveEnd(c) \in Nat
      BY <2>3, EndLaw, RulesType
    <3>3. Skipped(c) = Coarse!After(Day, ActiveEnd(c))
      BY <1>5, <2>3, <3>2 DEF Skipped
    <3>4. QED
      BY <2>3, <3>1, <3>3
  <2>4. QED
    BY <1>4, <2>1, <2>2, <2>3
<1>7. try = [i \in 0..MaxTries |->
               IF i = 0 THEN Coarse!After(Day, now)
               ELSE LET c == try[i - 1]
                    IN  IF c = Never \/ ~Coarse!IsActive(starts, Day, c) THEN c
                        ELSE Coarse!After(Day, Coarse!NextWindowEnd(starts, Day, c))]
  <2>1. try[0] = Coarse!After(Day, now)
    BY <1>3, <1>5
  <2>2. ASSUME NEW k \in 1..MaxTries
        PROVE  try[k] = IF try[k - 1] = Never \/ ~Coarse!IsActive(starts, Day, try[k - 1]) THEN try[k - 1]
                        ELSE Coarse!After(Day, Coarse!NextWindowEnd(starts, Day, try[k - 1]))
    <3>1. k - 1 \in 0..MaxTries
      BY RulesType
    <3>2. QED
      BY <1>3, <1>6, <3>1
  <2>3. try = [i \in 0..MaxTries |-> try[i]]
    BY <1>3
  <2>4. \A i \in 0..MaxTries : i = 0 \/ i \in 1..MaxTries
    BY RulesType
  <2>5. QED
    BY <2>1, <2>2, <2>3, <2>4
<1>8. cand = [i \in 0..MaxTries |->
                IF i = 0 THEN Coarse!After(Day, now)
                ELSE LET c == cand[i - 1]
                     IN  IF c = Never \/ ~Coarse!IsActive(starts, Day, c) THEN c
                         ELSE Coarse!After(Day, Coarse!NextWindowEnd(starts, Day, c))]
  BY <1>2, <1>7 DEF Coarse!Candidate
<1>9. PICK S : S = {k \in 0..MaxTries : try[k] = cand[k]}
  OBVIOUS
<1>10. 0 \in S
  <2>1. 0 \in 0..MaxTries
    BY RulesType
  <2>2. try[0] = cand[0]
    BY <1>3, <1>5, <1>8, <2>1
  <2>3. QED
    BY <1>9, <2>1, <2>2
<1>11. ASSUME NEW k \in 1..MaxTries, k - 1 \in S PROVE k \in S
  <2>1. k \in 0..MaxTries /\ k # 0 /\ try[k - 1] = cand[k - 1]
    BY <1>9, <1>11, RulesType
  <2>2. try[k] = cand[k]
    <3>1. PICK c : c = cand[k - 1]
      OBVIOUS
    <3>2. try[k] = IF c = Never \/ ~Coarse!IsActive(starts, Day, c) THEN c
                   ELSE Coarse!After(Day, Coarse!NextWindowEnd(starts, Day, c))
      BY <1>7, <2>1, <3>1
    <3>3. cand[k] = IF c = Never \/ ~Coarse!IsActive(starts, Day, c) THEN c
                    ELSE Coarse!After(Day, Coarse!NextWindowEnd(starts, Day, c))
      BY <1>8, <2>1, <3>1
    <3>4. QED
      BY <3>2, <3>3
  <2>3. QED
    BY <1>9, <2>1, <2>2
<1>12. 0..MaxTries \subseteq S
  BY <1>10, <1>11, RulesType, Along
<1>13. /\ MaxTries \in 0..MaxTries /\ MaxTries - 1 \in 0..MaxTries
       /\ try[MaxTries] = cand[MaxTries] /\ try[MaxTries - 1] = cand[MaxTries - 1]
  BY <1>9, <1>12, RulesType
<1>14. PICK last : last = try[MaxTries - 1]
  OBVIOUS
<1>15. last # Never /\ BlackedOut(last) <=> last # Never /\ Coarse!IsActive(starts, Day, last)
  <2>1. last \in DatesAfter(now)
    BY <1>3, <1>13, <1>14
  <2>2. last = Never \/ last \in Nat
    BY <1>4, <2>1
  <2>3. QED
    BY <2>2, SameWindows
<1>16. NextRun(now) = IF last # Never /\ BlackedOut(last) /\ try[MaxTries] # Never
                      THEN Saturated ELSE try[MaxTries]
  BY <1>1, <1>14 DEF NextRun
<1>17. Coarse!ComputeNextRunAt(Day, starts, Day, now)
         = IF last # Never /\ Coarse!IsActive(starts, Day, last) /\ cand[MaxTries] # Never
           THEN Saturated ELSE cand[MaxTries]
  BY <1>2, <1>13, <1>14, Zenon DEF Coarse!ComputeNextRunAt
<1>18. QED
  BY <1>13, <1>15, <1>16, <1>17

\* At every instant of its horizon the list of upcoming blackouts agrees with the evaluator, although both look
\* back only so far (upcoming.go, blackout.go); the scheduler's model computes the next run that the calendar
\* computes, overlapping occurrences included; and maintenance windows reopen as announced (window.go).
THEOREM CalendarsMeet == CalSpec => []CalendarsAgree
<1>1. CalInv => CalendarsAgree
  <2>1. SUFFICES ASSUME CalInv PROVE CalendarsAgree
    OBVIOUS
  <2>2. RulesOK /\ clock \in Nat
    BY <2>1, CalendarAssumption DEF CalInv
  <2>3. \A t \in clock..(clock + Ahead) :
          BlackedOut(t) <=> \E u \in UpcomingBlackouts : u <= t /\ t < u + length
    BY <2>2, ListAgrees
  <2>4. jitter = 0 => NextRun(clock) = Coarse!ComputeNextRunAt(Day, starts, Day, clock)
    BY <2>2, SameSearch
  <2>5. QED
    BY <2>3, <2>4, WindowsReopen DEF CalendarsAgree
<1>2. QED
  BY <1>1, CalInvHolds, PTL
=============================================================================
