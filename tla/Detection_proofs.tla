--------------------------- MODULE Detection_proofs ---------------------------
(***************************************************************************)
(* Proofs about what scans leave behind, for every size of the instance:   *)
(* the log of the scans (LogSink), the names and addresses of one scan     *)
(* (Discovery), the preparation of the database (Boot), and the            *)
(* composition of these parts with the diff phase and the calendar         *)
(* (MCDetection).  What ScanDiff and Calendar promise is proved in modules *)
(* of their own.                                                           *)
(***************************************************************************)
EXTENDS MCDetection, Calendar_proofs, ScanDiff_proofs

-----------------------------------------------------------------------------
(* Sums over a finite set *)

\* g[S] is the sum of f over S, as MapThenSumSet computes it, for the subsets of W with at most n elements.
Sums(g, f, W, n) ==
  \A S \in SUBSET W : Cardinality(S) <= n =>
    g[S] = IF S = {} THEN 0 ELSE LET s == CHOOSE x \in S : TRUE IN f[s] + g[S \ {s}]

\* The element that CHOOSE picks from a finite set leaves one less.
LEMMA PickedLess ==
  ASSUME NEW S, IsFiniteSet(S), S # {}
  PROVE  \E s \in S : /\ s = CHOOSE x \in S : TRUE
                      /\ IsFiniteSet(S \ {s}) /\ Cardinality(S) \in Nat /\ Cardinality(S) >= 1
                      /\ Cardinality(S \ {s}) = Cardinality(S) - 1
<1>1. PICK s : s = CHOOSE x \in S : TRUE
  OBVIOUS
<1>2. s \in S
  BY <1>1
<1>3. Cardinality(S) \in Nat /\ Cardinality(S) # 0
  BY FS_CardinalityType, FS_EmptySet
<1>4. QED
  BY <1>1, <1>2, <1>3, FS_RemoveElement

\* The recursion of a sum has a function that satisfies it, for the subsets of a finite set.
LEMMA SumsExist ==
  ASSUME NEW W, IsFiniteSet(W), NEW f \in [W -> Nat]
  PROVE  \E g \in [SUBSET W -> Nat] : Sums(g, f, W, Cardinality(W))
<1>1. PICK K : K = {k \in Nat : \E g \in [SUBSET W -> Nat] : Sums(g, f, W, k)}
  OBVIOUS
<1>2. 0 \in K
  <2>1. PICK g : g = [S \in SUBSET W |-> 0]
    OBVIOUS
  <2>2. g \in [SUBSET W -> Nat]
    BY <2>1
  <2>3. ASSUME NEW S \in SUBSET W, Cardinality(S) <= 0 PROVE S = {} /\ g[S] = 0
    <3>1. IsFiniteSet(S)
      BY FS_Subset
    <3>2. Cardinality(S) \in Nat
      BY <3>1, FS_CardinalityType
    <3>3. Cardinality(S) = 0
      BY <2>3, <3>2
    <3>4. QED
      BY <2>1, <3>1, <3>3, FS_EmptySet
  <2>4. Sums(g, f, W, 0)
    BY <2>3 DEF Sums
  <2>5. QED
    BY <1>1, <2>2, <2>4
<1>3. ASSUME NEW k \in 1..Cardinality(W), k - 1 \in K PROVE k \in K
  <2>1. k \in Nat /\ k - 1 \in Nat /\ k >= 1
    BY FS_CardinalityType
  <2>2. PICK g \in [SUBSET W -> Nat] : Sums(g, f, W, k - 1)
    BY <1>1, <1>3
  <2>3. PICK h : h = [S \in SUBSET W |->
                        IF Cardinality(S) = k THEN LET s == CHOOSE x \in S : TRUE IN f[s] + g[S \ {s}] ELSE g[S]]
    OBVIOUS
  <2>4. ASSUME NEW S \in SUBSET W, S # {}
        PROVE  \E s \in S : /\ s = CHOOSE x \in S : TRUE
                            /\ f[s] + g[S \ {s}] \in Nat /\ S \ {s} \in SUBSET W
                            /\ Cardinality(S) \in Nat /\ Cardinality(S) >= 1
                            /\ Cardinality(S \ {s}) = Cardinality(S) - 1
    <3>1. IsFiniteSet(S)
      BY FS_Subset
    <3>2. PICK s \in S : /\ s = CHOOSE x \in S : TRUE
                         /\ Cardinality(S) \in Nat /\ Cardinality(S) >= 1
                         /\ Cardinality(S \ {s}) = Cardinality(S) - 1
      BY <2>4, <3>1, PickedLess
    <3>3. S \ {s} \in SUBSET W /\ f[s] \in Nat
      OBVIOUS
    <3>4. g[S \ {s}] \in Nat
      BY <3>3
    <3>5. f[s] + g[S \ {s}] \in Nat
      BY <3>3, <3>4
    <3>6. QED
      BY <3>2, <3>3, <3>5, Zenon
  <2>5. Cardinality({}) = 0
    BY FS_EmptySet
  <2>6. ASSUME NEW S \in SUBSET W PROVE h[S] \in Nat
    <3>1. CASE Cardinality(S) = k
      <4>1. S # {}
        <5>1. Cardinality(S) # 0
          BY <2>1, <3>1
        <5>2. QED
          BY <2>5, <5>1, Zenon
      <4>2. PICK s \in S : s = (CHOOSE x \in S : TRUE) /\ f[s] + g[S \ {s}] \in Nat
        BY <2>4, <4>1
      <4>3. h[S] = f[s] + g[S \ {s}]
        BY <2>3, <3>1, <4>2
      <4>4. QED
        BY <4>2, <4>3
    <3>2. CASE Cardinality(S) # k
      BY <2>3, <3>2
    <3>3. QED
      BY <3>1, <3>2
  <2>7. h \in [SUBSET W -> Nat]
    BY <2>3, <2>6
  <2>8. ASSUME NEW S \in SUBSET W, Cardinality(S) <= k
        PROVE  h[S] = IF S = {} THEN 0 ELSE LET s == CHOOSE x \in S : TRUE IN f[s] + h[S \ {s}]
    <3>1. CASE S = {}
      <4>1. h[S] = g[S]
        BY <2>1, <2>3, <2>5, <3>1
      <4>2. g[S] = 0
        BY <2>1, <2>2, <2>5, <3>1 DEF Sums
      <4>3. QED
        BY <3>1, <4>1, <4>2
    <3>2. CASE S # {}
      <4>1. PICK s \in S : /\ s = CHOOSE x \in S : TRUE
                           /\ S \ {s} \in SUBSET W /\ Cardinality(S) \in Nat /\ Cardinality(S) >= 1
                           /\ Cardinality(S \ {s}) = Cardinality(S) - 1
        BY <2>4, <3>2
      <4>2. h[S \ {s}] = g[S \ {s}]
        <5>1. Cardinality(S \ {s}) # k
          BY <2>1, <2>8, <4>1
        <5>2. QED
          BY <2>3, <4>1, <5>1
      <4>3. h[S] = f[s] + g[S \ {s}]
        <5>1. CASE Cardinality(S) = k
          BY <2>3, <4>1, <5>1
        <5>2. CASE Cardinality(S) # k
          <6>1. Cardinality(S) <= k - 1
            BY <2>1, <2>8, <4>1, <5>2
          <6>2. g[S] = f[s] + g[S \ {s}]
            BY <2>2, <3>2, <4>1, <6>1 DEF Sums
          <6>3. QED
            BY <2>3, <5>2, <6>2
        <5>3. QED
          BY <5>1, <5>2
      <4>4. QED
        BY <3>2, <4>1, <4>2, <4>3
    <3>3. QED
      BY <3>1, <3>2
  <2>9. Sums(h, f, W, k)
    BY <2>8 DEF Sums
  <2>10. QED
    BY <1>1, <2>1, <2>7, <2>9
<1>4. Cardinality(W) \in Nat
  BY FS_CardinalityType
<1>5. Cardinality(W) \in K
  BY <1>2, <1>3, <1>4, Along
<1>6. QED
  BY <1>1, <1>5

\* The function that MapThenSumSet computes with, without the bound of Sums.
TotalsBySet(g, f, W) ==
  g = [S \in SUBSET W |-> IF S = {} THEN 0 ELSE LET s == CHOOSE x \in S : TRUE IN f[s] + g[S \ {s}]]

\* The sum of f over W.
Total(f, W) == MapThenSumSet(LAMBDA s : f[s], W)

\* MapThenSumSet is one of them.
LEMMA TotalLaw ==
  ASSUME NEW W, IsFiniteSet(W), NEW f \in [W -> Nat]
  PROVE  \E g : Sums(g, f, W, Cardinality(W)) /\ g[W] = Total(f, W)
<1>1. PICK g0 \in [SUBSET W -> Nat] : Sums(g0, f, W, Cardinality(W))
  BY SumsExist
<1>2. \A S \in SUBSET W : Cardinality(S) <= Cardinality(W)
  BY FS_Subset
<1>3. TotalsBySet(g0, f, W)
  BY <1>1, <1>2 DEF Sums, TotalsBySet
<1>4. PICK g : g = CHOOSE iter : TotalsBySet(iter, f, W)
  OBVIOUS
<1>5. TotalsBySet(g, f, W)
  BY <1>3, <1>4, Zenon
<1>6. g[W] = Total(f, W)
  BY <1>4, Zenon DEF TotalsBySet, Total, MapThenSumSet, MapThenFoldSet
<1>7. Sums(g, f, W, Cardinality(W))
  BY <1>5 DEF TotalsBySet, Sums
<1>8. QED
  BY <1>6, <1>7

\* One more for one of them is one more in all.
LEMMA TotalStep ==
  ASSUME NEW W, IsFiniteSet(W), NEW f \in [W -> Nat], NEW w \in W, NEW h, h = [f EXCEPT ![w] = @ + 1]
  PROVE  Total(h, W) = Total(f, W) + 1 /\ Total(f, W) \in Nat
<1>1. PICK a : Sums(a, f, W, Cardinality(W)) /\ a[W] = Total(f, W)
  BY TotalLaw
<1>2. h \in [W -> Nat]
  OBVIOUS
<1>3. PICK b : Sums(b, h, W, Cardinality(W)) /\ b[W] = Total(h, W)
  BY <1>2, TotalLaw
<1>4. PICK K : K = {k \in Nat : \A S \in SUBSET W : Cardinality(S) = k
                                  => a[S] \in Nat /\ b[S] = IF w \in S THEN a[S] + 1 ELSE a[S]}
  OBVIOUS
<1>5. \A S \in SUBSET W : IsFiniteSet(S) /\ Cardinality(S) <= Cardinality(W)
  BY FS_Subset
<1>6. 0 \in K
  <2>1. ASSUME NEW S \in SUBSET W, Cardinality(S) = 0
        PROVE  a[S] \in Nat /\ b[S] = IF w \in S THEN a[S] + 1 ELSE a[S]
    <3>1. S = {}
      BY <1>5, <2>1, FS_EmptySet
    <3>2. a[S] = 0 /\ b[S] = 0
      BY <1>1, <1>3, <1>5, <3>1 DEF Sums
    <3>3. QED
      BY <3>1, <3>2
  <2>2. QED
    BY <1>4, <2>1
<1>7. ASSUME NEW k \in 1..Cardinality(W), k - 1 \in K PROVE k \in K
  <2>1. k \in Nat /\ k >= 1
    BY FS_CardinalityType
  <2>2. ASSUME NEW S \in SUBSET W, Cardinality(S) = k
        PROVE  a[S] \in Nat /\ b[S] = IF w \in S THEN a[S] + 1 ELSE a[S]
    <3>1. S # {}
      <4>1. Cardinality(S) # 0
        BY <2>1, <2>2
      <4>2. Cardinality({}) = 0
        BY FS_EmptySet
      <4>3. QED
        BY <4>1, <4>2, Zenon
    <3>2. PICK s \in S : s = (CHOOSE x \in S : TRUE) /\ Cardinality(S \ {s}) = Cardinality(S) - 1
      BY <1>5, <3>1, PickedLess
    <3>3. a[S] = f[s] + a[S \ {s}] /\ b[S] = h[s] + b[S \ {s}]
      BY <1>1, <1>3, <1>5, <3>1, <3>2 DEF Sums
    <3>4. PICK T \in SUBSET W : T = S \ {s}
      OBVIOUS
    <3>5. Cardinality(T) = k - 1
      BY <2>2, <3>2, <3>4
    <3>6. a[T] \in Nat /\ b[T] = IF w \in T THEN a[T] + 1 ELSE a[T]
      BY <1>4, <1>7, <3>5
    <3>7. f[s] \in Nat /\ h[s] = IF s = w THEN f[s] + 1 ELSE f[s]
      OBVIOUS
    <3>8. w \in S <=> w \in T \/ w = s
      BY <3>4
    <3>9. w \in T => w # s
      BY <3>4
    <3>10. a[S] = f[s] + a[T] /\ b[S] = h[s] + b[T]
      BY <3>3, <3>4
    <3>11. QED
      BY <3>6, <3>7, <3>8, <3>9, <3>10
  <2>3. QED
    BY <1>4, <2>1, <2>2
<1>8. Cardinality(W) \in Nat
  BY FS_CardinalityType
<1>9. Cardinality(W) \in K
  BY <1>6, <1>7, <1>8, Along
<1>10. a[W] \in Nat /\ b[W] = a[W] + 1
  BY <1>4, <1>9
<1>11. QED
  BY <1>1, <1>3, <1>10

\* Nothing sums up to nothing.
LEMMA TotalZero ==
  ASSUME NEW W, IsFiniteSet(W), NEW f, f = [w \in W |-> 0]
  PROVE  Total(f, W) = 0
<1>1. f \in [W -> Nat]
  OBVIOUS
<1>2. PICK a : Sums(a, f, W, Cardinality(W)) /\ a[W] = Total(f, W)
  BY <1>1, TotalLaw
<1>3. PICK K : K = {k \in Nat : \A S \in SUBSET W : Cardinality(S) = k => a[S] = 0}
  OBVIOUS
<1>4. \A S \in SUBSET W : IsFiniteSet(S) /\ Cardinality(S) <= Cardinality(W)
  BY FS_Subset
<1>5. 0 \in K
  <2>1. ASSUME NEW S \in SUBSET W, Cardinality(S) = 0 PROVE a[S] = 0
    <3>1. S = {}
      BY <1>4, <2>1, FS_EmptySet
    <3>2. QED
      BY <1>2, <1>4, <3>1 DEF Sums
  <2>2. QED
    BY <1>3, <2>1
<1>6. ASSUME NEW k \in 1..Cardinality(W), k - 1 \in K PROVE k \in K
  <2>1. k \in Nat /\ k >= 1
    BY FS_CardinalityType
  <2>2. ASSUME NEW S \in SUBSET W, Cardinality(S) = k PROVE a[S] = 0
    <3>1. S # {}
      <4>1. Cardinality(S) # 0
        BY <2>1, <2>2
      <4>2. Cardinality({}) = 0
        BY FS_EmptySet
      <4>3. QED
        BY <4>1, <4>2, Zenon
    <3>2. PICK s \in S : s = (CHOOSE x \in S : TRUE) /\ Cardinality(S \ {s}) = Cardinality(S) - 1
      BY <1>4, <3>1, PickedLess
    <3>3. a[S] = f[s] + a[S \ {s}]
      BY <1>2, <1>4, <3>1, <3>2 DEF Sums
    <3>4. a[S \ {s}] = 0
      BY <1>3, <1>6, <2>2, <3>2
    <3>5. QED
      BY <3>3, <3>4
  <2>3. QED
    BY <1>3, <2>1, <2>2
<1>7. Cardinality(W) \in Nat
  BY FS_CardinalityType
<1>8. Cardinality(W) \in K
  BY <1>5, <1>6, <1>7, Along
<1>9. QED
  BY <1>2, <1>3, <1>8

-----------------------------------------------------------------------------
(* Lines in the order in which they were written *)

\* Every line of p was written before every line of the same scan in q.
Earlier(p, q) == \A i \in 1..Len(p), j \in 1..Len(q) : p[i][1] = q[j][1] => p[i][2] < q[j][2]

\* No line has a number that its scan has not reached.
Written(p, count) == \A i \in 1..Len(p) : p[i][2] <= count[p[i][1]]

LEMMA LineType ==
  ASSUME NEW l \in Line
  PROVE  l[1] \in Writers /\ l[2] \in Nat /\ l[2] >= 1 /\ l[2] <= Lines /\ Lines \in Nat
  BY LogAssumption DEF Line

LEMMA ElementType ==
  ASSUME NEW p \in Seq(Line), NEW i \in 1..Len(p)
  PROVE  p[i] \in Line /\ p[i][1] \in Writers /\ p[i][2] \in Nat
<1>1. p[i] \in Line
  OBVIOUS
<1>2. QED
  BY <1>1, LineType

\* A line that is later than all of them comes last.
LEMMA AppendLaw ==
  ASSUME NEW p \in Seq(Line), NEW l \in Line, NEW q \in Seq(Line),
         \A i \in 1..Len(p) : p[i][1] = l[1] => p[i][2] < l[2]
  PROVE  /\ Append(p, l) \in Seq(Line)
         /\ Rising(p) => Rising(Append(p, l))
         /\ Earlier(q, p) /\ (\A i \in 1..Len(q) : q[i][1] = l[1] => q[i][2] < l[2]) => Earlier(q, Append(p, l))
         /\ Earlier(p, q) /\ (\A i \in 1..Len(q) : q[i][1] = l[1] => l[2] < q[i][2]) => Earlier(Append(p, l), q)
<1>1. PICK r : r = Append(p, l) /\ r \in Seq(Line) /\ Len(r) = Len(p) + 1 /\ r[Len(p) + 1] = l
                /\ \A i \in 1..Len(p) : r[i] = p[i]
  <2>1. Append(p, l) \in Seq(Line) /\ Len(Append(p, l)) = Len(p) + 1 /\ Append(p, l)[Len(p) + 1] = l
    OBVIOUS
  <2>2. \A i \in 1..Len(p) : Append(p, l)[i] = p[i]
    OBVIOUS
  <2>3. QED
    BY <2>1, <2>2, Zenon
<1>2. Len(p) \in Nat /\ \A i \in 1..Len(r) : i \in 1..Len(p) \/ (i = Len(p) + 1 /\ r[i] = l)
  BY <1>1
<1>3. ASSUME Rising(p) PROVE Rising(r)
  <2>1. SUFFICES ASSUME NEW i \in 1..Len(r), NEW j \in 1..Len(r), i < j, r[i][1] = r[j][1] PROVE r[i][2] < r[j][2]
    BY DEF Rising
  <2>2. i \in 1..Len(p)
    BY <1>1, <1>2, <2>1
  <2>3. CASE j \in 1..Len(p)
    BY <1>1, <1>3, <2>1, <2>2, <2>3 DEF Rising
  <2>4. CASE j = Len(p) + 1
    BY <1>1, <2>1, <2>2, <2>4
  <2>5. QED
    BY <1>2, <2>3, <2>4
<1>4. ASSUME Earlier(q, p), \A i \in 1..Len(q) : q[i][1] = l[1] => q[i][2] < l[2] PROVE Earlier(q, r)
  BY <1>1, <1>2, <1>4 DEF Earlier
<1>5. ASSUME Earlier(p, q), \A i \in 1..Len(q) : q[i][1] = l[1] => l[2] < q[i][2] PROVE Earlier(r, q)
  BY <1>1, <1>2, <1>5 DEF Earlier
<1>6. QED
  BY <1>1, <1>3, <1>4, <1>5

\* What is left when the first line goes, and what is said of it.
LEMMA TailLaw ==
  ASSUME NEW p \in Seq(Line), p # <<>>, NEW q \in Seq(Line)
  PROVE  /\ Tail(p) \in Seq(Line) /\ Head(p) \in Line /\ Len(p) = Len(Tail(p)) + 1
         /\ Rising(p) => /\ Rising(Tail(p))
                         /\ \A i \in 1..Len(Tail(p)) : Tail(p)[i][1] = Head(p)[1] => Head(p)[2] < Tail(p)[i][2]
         /\ Earlier(q, p) => /\ Earlier(q, Tail(p))
                             /\ \A i \in 1..Len(q) : q[i][1] = Head(p)[1] => q[i][2] < Head(p)[2]
         /\ \A i \in 1..Len(Tail(p)) : \E j \in 1..Len(p) : Tail(p)[i] = p[j]
         /\ Head(p) = p[1] /\ 1 \in 1..Len(p)
<1>1. Len(p) \in Nat /\ Len(p) >= 1
  OBVIOUS
<1>2. PICK r : r = Tail(p) /\ r \in Seq(Line) /\ Len(p) = Len(r) + 1 /\ \A i \in 1..Len(r) : r[i] = p[i + 1]
  <2>1. Tail(p) \in Seq(Line) /\ Len(p) = Len(Tail(p)) + 1
    BY <1>1
  <2>2. \A i \in 1..Len(Tail(p)) : Tail(p)[i] = p[i + 1]
    BY <1>1
  <2>3. QED
    BY <2>1, <2>2, Zenon
<1>3. Head(p) = p[1] /\ Head(p) \in Line /\ 1 \in 1..Len(p)
  BY <1>1
<1>4. Len(r) \in Nat /\ \A i \in 1..Len(r) : i + 1 \in 1..Len(p) /\ 1 < i + 1 /\ r[i] = p[i + 1]
  BY <1>1, <1>2
<1>5. ASSUME Rising(p)
      PROVE  Rising(r) /\ \A i \in 1..Len(r) : r[i][1] = Head(p)[1] => Head(p)[2] < r[i][2]
  <2>1. ASSUME NEW i \in 1..Len(r), NEW j \in 1..Len(r), i < j, r[i][1] = r[j][1] PROVE r[i][2] < r[j][2]
    <3>1. i + 1 \in 1..Len(p) /\ j + 1 \in 1..Len(p) /\ i + 1 < j + 1 /\ r[i] = p[i + 1] /\ r[j] = p[j + 1]
      BY <1>4, <2>1
    <3>2. QED
      BY <1>5, <2>1, <3>1 DEF Rising
  <2>2. ASSUME NEW i \in 1..Len(r), r[i][1] = Head(p)[1] PROVE Head(p)[2] < r[i][2]
    BY <1>3, <1>4, <1>5, <2>2 DEF Rising
  <2>3. QED
    BY <2>1, <2>2 DEF Rising
<1>6. ASSUME Earlier(q, p)
      PROVE  Earlier(q, r) /\ \A i \in 1..Len(q) : q[i][1] = Head(p)[1] => q[i][2] < Head(p)[2]
  BY <1>3, <1>4, <1>6 DEF Earlier
<1>7. QED
  BY <1>2, <1>3, <1>4, <1>5, <1>6

\* Two runs of lines, one after the other.
Joined(p, q, r, c) ==
  /\ Len(c) = Len(p) + Len(q) /\ \A i \in 1..Len(p) : c[i] = p[i]
  /\ \A i \in 1..Len(c) : i \in 1..Len(p) \/ (i - Len(p) \in 1..Len(q) /\ c[i] = q[i - Len(p)])
  /\ (Rising(p) /\ Rising(q) /\ Earlier(p, q)) => Rising(c)
  /\ (Earlier(p, r) /\ Earlier(q, r)) => Earlier(c, r)

\* What holds of a sequence and of the one that is put behind it holds of both together.
LEMMA ConcatLaw ==
  ASSUME NEW p \in Seq(Line), NEW q \in Seq(Line), NEW r \in Seq(Line), NEW c, c = p \o q
  PROVE  Joined(p, q, r, c)
<1>1. Len(p) \in Nat /\ Len(q) \in Nat /\ Len(c) = Len(p) + Len(q)
  OBVIOUS
<1>2. \A i \in 1..Len(p) : c[i] = p[i]
  OBVIOUS
<1>3. \A i \in 1..Len(c) : i \in 1..Len(p) \/ (i - Len(p) \in 1..Len(q) /\ c[i] = q[i - Len(p)])
  BY <1>1
<1>4. ASSUME Rising(p), Rising(q), Earlier(p, q) PROVE Rising(c)
  <2>1. SUFFICES ASSUME NEW i \in 1..Len(c), NEW j \in 1..Len(c), i < j, c[i][1] = c[j][1] PROVE c[i][2] < c[j][2]
    BY DEF Rising
  <2>2. CASE i \in 1..Len(p) /\ j \in 1..Len(p)
    BY <1>2, <1>4, <2>1, <2>2 DEF Rising
  <2>3. CASE i \in 1..Len(p) /\ j - Len(p) \in 1..Len(q) /\ c[j] = q[j - Len(p)]
    BY <1>2, <1>4, <2>1, <2>3 DEF Earlier
  <2>4. CASE i - Len(p) \in 1..Len(q) /\ c[i] = q[i - Len(p)] /\ j - Len(p) \in 1..Len(q) /\ c[j] = q[j - Len(p)]
    <3>1. i - Len(p) < j - Len(p)
      BY <1>1, <2>1
    <3>2. QED
      BY <1>4, <2>1, <2>4, <3>1 DEF Rising
  <2>5. ~(i \notin 1..Len(p) /\ j \in 1..Len(p))
    BY <1>1, <2>1
  <2>6. QED
    BY <1>3, <2>2, <2>3, <2>4, <2>5
<1>5. ASSUME Earlier(p, r), Earlier(q, r) PROVE Earlier(c, r)
  <2>1. SUFFICES ASSUME NEW i \in 1..Len(c), NEW j \in 1..Len(r), c[i][1] = r[j][1] PROVE c[i][2] < r[j][2]
    BY DEF Earlier
  <2>2. CASE i \in 1..Len(p)
    BY <1>2, <1>5, <2>1, <2>2 DEF Earlier
  <2>3. CASE i - Len(p) \in 1..Len(q) /\ c[i] = q[i - Len(p)]
    BY <1>5, <2>1, <2>3 DEF Earlier
  <2>4. QED
    BY <1>3, <2>2, <2>3
<1>6. QED
  BY <1>1, <1>2, <1>3, <1>4, <1>5 DEF Joined

-----------------------------------------------------------------------------
(* The log of the scans *)

\* The variables of the writing side.
LogTypes ==
  /\ sent \in [Writers -> 0..Lines] /\ full \subseteq Writers
  /\ ch \in Seq(Line) /\ Len(ch) <= Capacity
  /\ batch \in Seq(Line) /\ Len(batch) <= BatchSize
  /\ drain \in {"run", "drain", "last", "done"} /\ flushing \in BOOLEAN
  /\ table \in Seq(Line)
  /\ failed \in Nat /\ dropped \in Nat
  /\ closed \in {"no", "waiting", "returned"} /\ before \in [Writers -> 0..Lines]

\* From the table over the batch to the channel each scan's lines are in order.
InOrderOfWriting ==
  /\ Rising(table) /\ Rising(batch) /\ Rising(ch)
  /\ Earlier(table, batch) /\ Earlier(table, ch) /\ Earlier(batch, ch)
  /\ Written(table, sent) /\ Written(batch, sent) /\ Written(ch, sent)

\* The goroutine leaves only after it has seen stop and the channel empty.
Draining ==
  /\ \A s \in Writers : before[s] <= sent[s]
  /\ drain # "run" => closed # "no"
  /\ closed = "returned" => drain = "done"
  /\ drain = "last" => flushing
  /\ drain = "done" => batch = <<>> /\ ~flushing
  /\ drain \in {"last", "done"} => \A i \in 1..Len(ch) : ch[i][2] > before[ch[i][1]]
  /\ ~flushing => Len(batch) < BatchSize

\* No line is lost without being counted.
Accounted == Total(sent, Writers) = Len(ch) + Len(batch) + Len(table) + failed + dropped

\* The inductive invariant of the writing side.
WriteInv == LogTypes /\ InOrderOfWriting /\ Draining /\ Accounted

LEMMA LogConstants ==
  /\ Lines \in Nat /\ Capacity \in Nat /\ Capacity > 0 /\ BatchSize \in Nat /\ BatchSize > 0
  /\ PageLimit \in Nat /\ PageLimit > 0 /\ Watched \in Writers /\ IsFiniteSet(Writers)
  BY LogAssumption

LEMMA SentType ==
  ASSUME LogTypes, NEW s \in Writers
  PROVE  sent[s] \in Nat /\ sent[s] <= Lines /\ before[s] \in Nat
  BY LogConstants DEF LogTypes

LEMMA TotalType ==
  ASSUME LogTypes
  PROVE  Total(sent, Writers) \in Nat
<1>1. sent \in [Writers -> Nat]
  BY LogConstants DEF LogTypes
<1>2. PICK w \in Writers : w = Watched
  BY LogConstants
<1>3. QED
  BY <1>1, <1>2, LogConstants, TotalStep

LEMMA WriteInit == LogInit => WriteInv
<1>1. SUFFICES ASSUME LogInit PROVE WriteInv
  OBVIOUS
<1> USE <1>1 DEF LogInit
<1>2. LogTypes
  <2>1. sent \in [Writers -> 0..Lines] /\ before \in [Writers -> 0..Lines]
    BY LogConstants
  <2>2. ch \in Seq(Line) /\ batch \in Seq(Line) /\ table \in Seq(Line) /\ Len(ch) <= Capacity /\ Len(batch) <= BatchSize
    BY LogConstants
  <2>3. QED
    BY <2>1, <2>2 DEF LogTypes
<1>3. InOrderOfWriting
  BY DEF InOrderOfWriting, Rising, Earlier, Written
<1>4. Draining
  BY LogConstants DEF Draining
<1>5. Accounted
  BY LogConstants, TotalZero DEF Accounted
<1>6. QED
  BY <1>2, <1>3, <1>4, <1>5 DEF WriteInv

\* enqueue, when there is room and when there is none.
LEMMA SendSound ==
  ASSUME WriteInv, NEW s \in Writers, Send(s)
  PROVE  WriteInv'
<1>1. LogTypes /\ InOrderOfWriting /\ Draining /\ Accounted
  BY DEF WriteInv
<1>2. UNCHANGED <<batch, drain, flushing, table, failed, dropped, closed, before>>
  BY DEF Send
<1>3. CASE ~(Len(ch) < Capacity)
  <2>1. ch' = ch /\ sent' = sent /\ full' \subseteq Writers
    BY <1>1, <1>3 DEF Send, LogTypes
  <2>2. QED
    BY <1>1, <1>2, <2>1 DEF WriteInv, LogTypes, InOrderOfWriting, Draining, Accounted
<1>4. CASE Len(ch) < Capacity
  <2>1. PICK l : l = <<s, sent[s] + 1>>
    OBVIOUS
  <2>2. ch' = Append(ch, l) /\ sent' = [sent EXCEPT ![s] = @ + 1] /\ full' = full /\ sent[s] < Lines
    BY <1>4, <2>1 DEF Send
  <2>3. sent[s] \in Nat /\ l[1] = s /\ l[2] = sent[s] + 1 /\ l \in Line
    BY <1>1, <2>1, <2>2, SentType, LogConstants DEF Line
  <2>4. ch \in Seq(Line) /\ batch \in Seq(Line) /\ table \in Seq(Line)
    BY <1>1 DEF LogTypes
  <2>5. sent \in [Writers -> 0..Lines] /\ sent' \in [Writers -> 0..Lines]
    BY <1>1, <2>2, <2>3, LogConstants DEF LogTypes
  <2>6. LogTypes'
    <3>1. Len(ch') <= Capacity /\ ch' \in Seq(Line)
      BY <1>4, <2>2, <2>3, <2>4, LogConstants
    <3>2. QED
      BY <1>1, <1>2, <2>2, <2>5, <3>1 DEF LogTypes
  <2>7. ASSUME NEW p \in Seq(Line), Written(p, sent)
        PROVE  Written(p, sent') /\ \A i \in 1..Len(p) : p[i][1] = l[1] => p[i][2] < l[2]
    <3>1. ASSUME NEW i \in 1..Len(p) PROVE p[i][2] <= sent'[p[i][1]] /\ (p[i][1] = l[1] => p[i][2] < l[2])
      <4>1. p[i][1] \in Writers /\ p[i][2] \in Nat /\ p[i][2] <= sent[p[i][1]]
        BY <2>7, ElementType DEF Written
      <4>2. PICK w \in Writers : w = p[i][1]
        BY <4>1
      <4>3. sent[w] \in Nat /\ sent'[w] = IF w = s THEN sent[w] + 1 ELSE sent[w]
        BY <1>1, <2>2, <2>5, SentType
      <4>4. p[i][2] <= sent'[w] /\ (w = s => p[i][2] < sent[s] + 1)
        BY <4>1, <4>2, <4>3
      <4>5. QED
        BY <2>3, <4>2, <4>4
    <3>2. QED
      BY <3>1 DEF Written
  <2>8. PICK c : c = Append(ch, l)
    OBVIOUS
  <2>9. Written(c, sent')
    <3>1. \A i \in 1..Len(c) : (i \in 1..Len(ch) /\ c[i] = ch[i]) \/ c[i] = l
      BY <2>3, <2>4, <2>8
    <3>2. Written(ch, sent')
      BY <1>1, <2>4, <2>7 DEF InOrderOfWriting
    <3>3. l[2] <= sent'[l[1]]
      BY <2>2, <2>3, <2>5
    <3>4. QED
      BY <3>1, <3>2, <3>3 DEF Written
  <2>10. InOrderOfWriting'
    <3>1. Rising(c) /\ Earlier(table, c) /\ Earlier(batch, c)
      BY <1>1, <2>3, <2>4, <2>7, <2>8, AppendLaw DEF InOrderOfWriting
    <3>2. Written(table, sent') /\ Written(batch, sent')
      BY <1>1, <2>4, <2>7 DEF InOrderOfWriting
    <3>3. QED
      BY <1>1, <1>2, <2>2, <2>8, <2>9, <3>1, <3>2 DEF InOrderOfWriting
  <2>11. Draining'
    <3>1. \A w \in Writers : before'[w] <= sent'[w]
      <4>1. ASSUME NEW w \in Writers PROVE before[w] <= sent'[w]
        <5>1. before[w] \in Nat /\ sent[w] \in Nat /\ before[w] <= sent[w]
          BY <1>1, SentType DEF Draining
        <5>2. sent'[w] = IF w = s THEN sent[w] + 1 ELSE sent[w]
          BY <2>2, <2>5
        <5>3. QED
          BY <5>1, <5>2
      <4>2. QED
        BY <1>2, <4>1
    <3>2. ASSUME drain \in {"last", "done"} PROVE \A i \in 1..Len(c) : c[i][2] > before[c[i][1]]
      <4>1. \A i \in 1..Len(c) : (i \in 1..Len(ch) /\ c[i] = ch[i]) \/ c[i] = l
        BY <2>3, <2>4, <2>8
      <4>2. before[s] \in Nat /\ before[s] <= sent[s]
        BY <1>1, SentType DEF Draining
      <4>3. l[2] > before[l[1]]
        BY <2>3, <4>2
      <4>4. QED
        BY <1>1, <3>2, <4>1, <4>3 DEF Draining
    <3>3. QED
      BY <1>1, <1>2, <2>2, <2>8, <3>1, <3>2 DEF Draining
  <2>12. Accounted'
    <3>1. sent \in [Writers -> Nat]
      BY <2>5, LogConstants
    <3>2. Total(sent', Writers) = Total(sent, Writers) + 1 /\ Total(sent, Writers) \in Nat
      BY <2>2, <3>1, LogConstants, TotalStep
    <3>3. Len(ch') = Len(ch) + 1 /\ Len(ch) \in Nat /\ Len(batch) \in Nat /\ Len(table) \in Nat
      BY <2>2, <2>3, <2>4
    <3>4. failed \in Nat /\ dropped \in Nat
      BY <1>1 DEF LogTypes
    <3>5. QED
      BY <1>1, <1>2, <3>2, <3>3, <3>4 DEF Accounted
  <2>13. QED
    BY <2>6, <2>10, <2>11, <2>12 DEF WriteInv
<1>5. QED
  BY <1>3, <1>4

\* Its retry drops the oldest line.
LEMMA DropSound ==
  ASSUME WriteInv, NEW s \in Writers, DropOldest(s)
  PROVE  WriteInv'
<1>1. LogTypes /\ InOrderOfWriting /\ Draining /\ Accounted
  BY DEF WriteInv
<1>2. UNCHANGED <<sent, batch, drain, flushing, table, failed, closed, before>> /\ full' \subseteq Writers
  BY <1>1 DEF DropOldest, LogTypes
<1>3. CASE ch = <<>>
  <2>1. ch' = ch /\ dropped' = dropped
    BY <1>3 DEF DropOldest
  <2>2. QED
    BY <1>1, <1>2, <2>1 DEF WriteInv, LogTypes, InOrderOfWriting, Draining, Accounted
<1>4. CASE ch # <<>>
  <2>1. PICK c : c = Tail(ch)
    OBVIOUS
  <2>2. ch' = c /\ dropped' = dropped + 1
    BY <1>4, <2>1 DEF DropOldest
  <2>3. ch \in Seq(Line) /\ batch \in Seq(Line) /\ table \in Seq(Line)
    BY <1>1 DEF LogTypes
  <2>4. /\ c \in Seq(Line) /\ Len(ch) = Len(c) + 1 /\ Rising(c)
        /\ \A i \in 1..Len(c) : \E j \in 1..Len(ch) : c[i] = ch[j]
    BY <1>1, <1>4, <2>1, <2>3, TailLaw DEF InOrderOfWriting
  <2>5. Earlier(table, c) /\ Earlier(batch, c)
    BY <1>1, <1>4, <2>1, <2>3, TailLaw DEF InOrderOfWriting
  <2>6. Written(c, sent)
    BY <1>1, <2>4 DEF InOrderOfWriting, Written
  <2>7. InOrderOfWriting'
    BY <1>1, <1>2, <2>2, <2>4, <2>5, <2>6 DEF InOrderOfWriting
  <2>8. Len(c) \in Nat /\ Len(ch) \in Nat /\ Len(batch) \in Nat /\ Len(table) \in Nat
    BY <2>3, <2>4
  <2>9. LogTypes'
    BY <1>1, <1>2, <2>2, <2>4, <2>8, LogConstants DEF LogTypes
  <2>10. Draining'
    <3>1. drain \in {"last", "done"} => \A i \in 1..Len(c) : c[i][2] > before[c[i][1]]
      BY <1>1, <2>4 DEF Draining
    <3>2. QED
      BY <1>1, <1>2, <2>2, <3>1 DEF Draining
  <2>11. Accounted'
    <3>1. Total(sent, Writers) = Len(ch) + Len(batch) + Len(table) + failed + dropped /\ failed \in Nat /\ dropped \in Nat
      BY <1>1 DEF Accounted, LogTypes
    <3>2. Total(sent, Writers) = Len(c) + Len(batch) + Len(table) + failed + (dropped + 1)
      BY <2>4, <2>8, <3>1
    <3>3. QED
      BY <1>2, <2>2, <3>2 DEF Accounted
  <2>12. QED
    BY <2>7, <2>9, <2>10, <2>11 DEF WriteInv
<1>5. QED
  BY <1>3, <1>4

\* The goroutine moves a line from the channel to the batch.
LEMMA ReceiveSound == WriteInv /\ Receive => WriteInv'
<1>1. SUFFICES ASSUME LogTypes, InOrderOfWriting, Draining, Accounted, Receive PROVE WriteInv'
  BY DEF WriteInv
<1>2. /\ drain \in {"run", "drain"} /\ ~flushing /\ ch # <<>>
      /\ UNCHANGED <<sent, full, drain, table, failed, dropped, closed, before>>
  BY <1>1 DEF Receive
<1>3. PICK c : c = Tail(ch)
  OBVIOUS
<1>4. PICK l : l = Head(ch)
  OBVIOUS
<1>5. PICK b : b = Append(batch, l)
  OBVIOUS
<1>6. ch' = c /\ batch' = b /\ flushing' = (Len(b) >= BatchSize)
  BY <1>1, <1>3, <1>4, <1>5 DEF Receive
<1>7. ch \in Seq(Line) /\ batch \in Seq(Line) /\ table \in Seq(Line)
  BY <1>1 DEF LogTypes
<1>8. /\ c \in Seq(Line) /\ l \in Line /\ Len(ch) = Len(c) + 1 /\ Rising(c)
      /\ \A i \in 1..Len(c) : c[i][1] = l[1] => l[2] < c[i][2]
      /\ \A i \in 1..Len(c) : \E j \in 1..Len(ch) : c[i] = ch[j]
      /\ l = ch[1] /\ 1 \in 1..Len(ch)
  BY <1>1, <1>2, <1>3, <1>4, <1>7, TailLaw DEF InOrderOfWriting
<1>9. /\ Earlier(table, c) /\ \A i \in 1..Len(table) : table[i][1] = l[1] => table[i][2] < l[2]
  BY <1>1, <1>2, <1>3, <1>4, <1>7, TailLaw DEF InOrderOfWriting
<1>10. /\ Earlier(batch, c) /\ \A i \in 1..Len(batch) : batch[i][1] = l[1] => batch[i][2] < l[2]
  BY <1>1, <1>2, <1>3, <1>4, <1>7, TailLaw DEF InOrderOfWriting
<1>11. b \in Seq(Line) /\ Rising(b) /\ Earlier(table, b)
  BY <1>1, <1>5, <1>7, <1>8, <1>9, <1>10, AppendLaw DEF InOrderOfWriting
<1>12. Earlier(b, c)
  BY <1>5, <1>7, <1>8, <1>10, AppendLaw
<1>13. Len(b) = Len(batch) + 1 /\ Len(c) \in Nat /\ Len(ch) \in Nat /\ Len(batch) \in Nat /\ Len(table) \in Nat
       /\ \A i \in 1..Len(b) : (i \in 1..Len(batch) /\ b[i] = batch[i]) \/ b[i] = l
  BY <1>5, <1>7, <1>8
<1>14. Written(c, sent) /\ Written(b, sent)
  BY <1>1, <1>8, <1>13 DEF InOrderOfWriting, Written
<1>15. InOrderOfWriting'
  BY <1>1, <1>2, <1>6, <1>8, <1>9, <1>11, <1>12, <1>14 DEF InOrderOfWriting
<1>16. LogTypes'
  <2>1. Len(b) <= BatchSize /\ Len(c) <= Capacity
    BY <1>1, <1>2, <1>8, <1>13, LogConstants DEF LogTypes, Draining
  <2>2. (Len(b) >= BatchSize) \in BOOLEAN
    OBVIOUS
  <2>3. QED
    BY <1>1, <1>2, <1>6, <1>8, <1>11, <2>1, <2>2 DEF LogTypes
<1>17. Draining'
  <2>1. ~(Len(b) >= BatchSize) => Len(b) < BatchSize
    BY <1>13, LogConstants
  <2>2. drain # "last" /\ drain # "done"
    BY <1>2
  <2>3. QED
    BY <1>1, <1>2, <1>6, <2>1, <2>2 DEF Draining
<1>18. Accounted'
  <2>1. Total(sent, Writers) = Len(ch) + Len(batch) + Len(table) + failed + dropped /\ failed \in Nat /\ dropped \in Nat
    BY <1>1 DEF Accounted, LogTypes
  <2>2. Total(sent, Writers) = Len(c) + Len(b) + Len(table) + failed + dropped
    BY <1>8, <1>13, <2>1
  <2>3. QED
    BY <1>2, <1>6, <2>2 DEF Accounted
<1>19. QED
  BY <1>15, <1>16, <1>17, <1>18 DEF WriteInv

\* It stores the batch, or does not.
LEMMA InsertSound == WriteInv /\ Insert => WriteInv'
<1>1. SUFFICES ASSUME LogTypes, InOrderOfWriting, Draining, Accounted, Insert PROVE WriteInv'
  BY DEF WriteInv
<1>2. /\ flushing /\ flushing' = FALSE /\ batch' = <<>>
      /\ drain' = IF drain = "last" THEN "done" ELSE drain
      /\ UNCHANGED <<sent, full, ch, dropped, closed, before>>
  BY <1>1 DEF Insert
<1>3. ch \in Seq(Line) /\ batch \in Seq(Line) /\ table \in Seq(Line) /\ <<>> \in Seq(Line)
      /\ Len(ch) \in Nat /\ Len(batch) \in Nat /\ Len(table) \in Nat /\ Len(<<>>) = 0
  BY <1>1 DEF LogTypes
<1>4. Draining'
  <2>1. Len(batch') < BatchSize
    BY <1>2, LogConstants
  <2>2. drain' # "last" /\ (drain' # "run" => drain # "run") /\ (drain' = "done" => drain \in {"last", "done"})
        /\ (drain = "done" => drain' = "done")
    BY <1>2
  <2>3. QED
    BY <1>1, <1>2, <2>1, <2>2 DEF Draining
<1>5. Rising(<<>>) /\ Written(<<>>, sent) /\ \A q \in Seq(Line) : Earlier(q, <<>>) /\ Earlier(<<>>, q)
  BY <1>3 DEF Rising, Written, Earlier
<1>6. Total(sent, Writers) = Len(ch) + Len(batch) + Len(table) + failed + dropped /\ failed \in Nat /\ dropped \in Nat
  BY <1>1 DEF Accounted, LogTypes
<1>7. batch' \in Seq(Line) /\ Len(batch') <= BatchSize /\ drain' \in {"run", "drain", "last", "done"}
  BY <1>1, <1>2, <1>3, LogConstants DEF LogTypes
<1>8. failed + Len(batch) \in Nat
  BY <1>3, <1>6
<1>9. CASE table' = table \o batch /\ failed' = failed
  <2>1. PICK t : t = table \o batch
    OBVIOUS
  <2>2. t \in Seq(Line)
    BY <1>3, <2>1
  <2>3. /\ Len(t) = Len(table) + Len(batch) /\ \A i \in 1..Len(table) : t[i] = table[i]
        /\ \A i \in 1..Len(t) : i \in 1..Len(table) \/ (i - Len(table) \in 1..Len(batch) /\ t[i] = batch[i - Len(table)])
        /\ Rising(t) /\ Earlier(t, ch)
    <3>1. /\ Rising(table) /\ Rising(batch) /\ Earlier(table, batch) /\ Earlier(table, ch) /\ Earlier(batch, ch)
      BY <1>1 DEF InOrderOfWriting
    <3>2. Joined(table, batch, ch, t)
      BY <1>3, <2>1, ConcatLaw, Zenon
    <3>3. QED
      BY <3>1, <3>2, Zenon DEF Joined
  <2>4. Written(t, sent)
    BY <1>1, <2>3 DEF InOrderOfWriting, Written
  <2>5. InOrderOfWriting'
    BY <1>1, <1>2, <1>3, <1>5, <1>9, <2>1, <2>2, <2>3, <2>4 DEF InOrderOfWriting
  <2>6. LogTypes'
    BY <1>1, <1>2, <1>7, <1>9, <2>1, <2>2 DEF LogTypes
  <2>7. Accounted'
    <3>1. Total(sent, Writers) = Len(ch) + 0 + Len(t) + failed + dropped
      BY <1>3, <1>6, <2>3
    <3>2. QED
      BY <1>2, <1>3, <1>9, <2>1, <3>1 DEF Accounted
  <2>8. QED
    BY <1>4, <2>5, <2>6, <2>7 DEF WriteInv
<1>10. CASE table' = table /\ failed' = failed + Len(batch)
  <2>1. InOrderOfWriting'
    BY <1>1, <1>2, <1>3, <1>5, <1>10 DEF InOrderOfWriting
  <2>2. LogTypes'
    BY <1>1, <1>2, <1>7, <1>8, <1>10 DEF LogTypes
  <2>3. Accounted'
    <3>1. Total(sent, Writers) = Len(ch) + 0 + Len(table) + (failed + Len(batch)) + dropped
      BY <1>3, <1>6
    <3>2. QED
      BY <1>2, <1>3, <1>10, <3>1 DEF Accounted
  <2>4. QED
    BY <1>4, <2>1, <2>2, <2>3 DEF WriteInv
<1>11. QED
  BY <1>1, <1>9, <1>10 DEF Insert

\* The steps that only move the goroutine, Close and the reader.
LEMMA StopSound ==
  ASSUME WriteInv, FlushTick \/ SeeStop \/ Drained \/ Close \/ CloseReturns \/ Poll \/ UNCHANGED logVars
  PROVE  WriteInv'
<1>1. LogTypes /\ InOrderOfWriting /\ Draining /\ Accounted
  BY DEF WriteInv
<1>2. UNCHANGED <<sent, full, ch, batch, table, failed, dropped>>
  BY DEF FlushTick, SeeStop, Drained, Close, CloseReturns, Poll, logVars
<1>3. InOrderOfWriting' /\ Accounted'
  BY <1>1, <1>2 DEF InOrderOfWriting, Accounted
<1>4. LogTypes'
  BY <1>1, <1>2 DEF LogTypes, FlushTick, SeeStop, Drained, Close, CloseReturns, Poll, logVars
<1>5. Draining'
  <2>1. CASE FlushTick \/ SeeStop
    BY <1>1, <2>1 DEF Draining, FlushTick, SeeStop
  <2>2. CASE Drained
    BY <1>1, <2>2 DEF Draining, Drained
  <2>3. CASE Close
    <3>1. drain = "run"
      BY <1>1, <2>3 DEF Draining, Close
    <3>2. \A s \in Writers : sent[s] <= sent[s]
      BY <1>1, SentType
    <3>3. QED
      BY <1>1, <2>3, <3>1, <3>2 DEF Draining, Close
  <2>4. CASE CloseReturns
    BY <1>1, <2>4 DEF Draining, CloseReturns
  <2>5. CASE Poll \/ UNCHANGED logVars
    BY <1>1, <2>5 DEF Draining, Poll, logVars
  <2>6. QED
    BY <2>1, <2>2, <2>3, <2>4, <2>5
<1>6. QED
  BY <1>3, <1>4, <1>5 DEF WriteInv

LEMMA WriteInvHolds == LogSpec => []WriteInv
<1>1. WriteInv /\ [LogNext]_logVars => WriteInv'
  BY SendSound, DropSound, ReceiveSound, InsertSound, StopSound DEF LogNext
<1>2. QED
  BY <1>1, WriteInit, PTL DEF LogSpec

\* Every line is stored, on its way or counted as lost, and none enqueued before Close was called is left
\* behind when it has returned, however scans go on writing while it drains (the comment of Close).
THEOREM NothingLeftBehind == LogSpec => []CloseFlushes
<1>1. WriteInv => CloseFlushes
  BY DEF WriteInv, Accounted, Draining, Total, CloseFlushes
<1>2. QED
  BY <1>1, WriteInvHolds, PTL

-----------------------------------------------------------------------------
(* Finite sets of numbers in their order *)

\* A bounded set of numbers that is not empty has a greatest one, and Max is it.
LEMMA GreatestNat ==
  ASSUME NEW n \in Nat, NEW S \in SUBSET (0..n), S # {}
  PROVE  Max(S) \in S /\ \A y \in S : Max(S) >= y
<1>1. PICK R : R = {n - x : x \in S}
  OBVIOUS
<1>2. R \in SUBSET Nat /\ R # {}
  <2>1. \A x \in S : n - x \in Nat
    OBVIOUS
  <2>2. PICK x \in S : TRUE
    OBVIOUS
  <2>3. n - x \in R
    BY <1>1
  <2>4. QED
    BY <1>1, <2>1, <2>3, Zenon
<1>3. PICK m \in R : \A y \in R : m <= y
  BY <1>2, LeastNat
<1>4. PICK x \in S : m = n - x
  BY <1>1, <1>3
<1>5. ASSUME NEW y \in S PROVE x >= y
  <2>1. n - y \in R
    BY <1>1
  <2>2. n - x <= n - y
    BY <1>3, <1>4, <2>1
  <2>3. QED
    BY <2>2
<1>6. QED
  BY <1>5 DEF Max

\* f lists S in increasing order.
Increasing(f, S) == f \in [1..Cardinality(S) -> S] /\ \A i, j \in 1..Cardinality(S) : i < j => f[i] < f[j]

\* Every finite set of numbers can be listed in increasing order.
LEMMA Enumeration ==
  ASSUME NEW S \in SUBSET Nat, IsFiniteSet(S)
  PROVE  \E f : Increasing(f, S)
<1>1. PICK K : K = {k \in Nat : \A T \in SUBSET S : Cardinality(T) = k => \E f : Increasing(f, T)}
  OBVIOUS
<1>2. 0 \in K
  <2>1. SUFFICES ASSUME NEW T \in SUBSET S, Cardinality(T) = 0 PROVE \E f : Increasing(f, T)
    BY <1>1
  <2>2. 1..Cardinality(T) = {}
    BY <2>1
  <2>3. Increasing([i \in {} |-> i], T)
    BY <2>2 DEF Increasing
  <2>4. QED
    BY <2>3
<1>3. ASSUME NEW k \in 1..Cardinality(S), k - 1 \in K PROVE k \in K
  <2>1. SUFFICES ASSUME NEW T \in SUBSET S, Cardinality(T) = k PROVE \E f : Increasing(f, T)
    BY <1>1, FS_CardinalityType
  <2>2. IsFiniteSet(T) /\ T # {} /\ T \in SUBSET Nat
    <3>1. IsFiniteSet(T)
      BY <2>1, FS_Subset, Zenon
    <3>2. T # {}
      BY <2>1, FS_EmptySet
    <3>3. QED
      BY <2>1, <3>1, <3>2
  <2>3. PICK m \in T : \A y \in T : m <= y
    BY <2>2, LeastNat
  <2>4. PICK R : R = T \ {m}
    OBVIOUS
  <2>5. IsFiniteSet(R) /\ Cardinality(R) = k - 1
    BY <2>1, <2>2, <2>4, FS_RemoveElement
  <2>6. PICK f : Increasing(f, R)
    BY <1>1, <1>3, <2>4, <2>5
  <2>7. f \in [1..(k - 1) -> R] /\ \A i, j \in 1..(k - 1) : i < j => f[i] < f[j]
    BY <2>5, <2>6 DEF Increasing
  <2>8. PICK g : g = [i \in 1..k |-> IF i = 1 THEN m ELSE f[i - 1]]
    OBVIOUS
  <2>9. g \in [1..k -> T]
    <3>1. ASSUME NEW i \in 1..k, i # 1 PROVE f[i - 1] \in T
      BY <2>4, <2>7, <3>1
    <3>2. QED
      BY <2>8, <3>1
  <2>10. ASSUME NEW i \in 1..k, NEW j \in 1..k, i < j PROVE g[i] < g[j]
    <3>1. j - 1 \in 1..(k - 1) /\ j # 1
      BY <2>10
    <3>2. g[j] = f[j - 1] /\ f[j - 1] \in R
      BY <2>7, <2>8, <3>1
    <3>3. CASE i = 1
      <4>1. m <= f[j - 1] /\ m # f[j - 1] /\ m \in Nat /\ f[j - 1] \in Nat
        BY <2>2, <2>3, <2>4, <3>2
      <4>2. QED
        BY <2>8, <3>2, <3>3, <4>1
    <3>4. CASE i # 1
      <4>1. i - 1 \in 1..(k - 1) /\ i - 1 < j - 1 /\ g[i] = f[i - 1]
        BY <2>8, <2>10, <3>4
      <4>2. QED
        BY <2>7, <3>1, <3>2, <4>1
    <3>5. QED
      BY <3>3, <3>4
  <2>11. QED
    BY <2>1, <2>9, <2>10 DEF Increasing
<1>4. Cardinality(S) \in Nat
  BY FS_CardinalityType
<1>5. 0..Cardinality(S) \subseteq K
  BY <1>2, <1>3, <1>4, Along
<1>6. QED
  BY <1>1, <1>4, <1>5

\* InOrder lists a finite set of ids in increasing order, all of it.
LEMMA OrderLaw ==
  ASSUME NEW S \in SUBSET Nat, IsFiniteSet(S)
  PROVE  Increasing(InOrder(S), S) /\ \A x \in S : \E i \in 1..Cardinality(S) : InOrder(S)[i] = x
<1>1. PICK n : n = Cardinality(S)
  OBVIOUS
<1>2. n \in Nat
  BY <1>1, FS_CardinalityType
<1>3. \E f \in [1..n -> S] : \A i, j \in DOMAIN f : i < j => f[i] < f[j]
  BY <1>1, Enumeration DEF Increasing
<1>4. PICK f : f = InOrder(S)
  OBVIOUS
<1>5. f \in [1..n -> S] /\ \A i, j \in DOMAIN f : i < j => f[i] < f[j]
  BY <1>1, <1>3, <1>4, Zenon DEF InOrder
<1>6. DOMAIN f = 1..n
  BY <1>5
<1>7. Increasing(f, S)
  BY <1>1, <1>5, <1>6 DEF Increasing
<1>8. f \in Injection(1..n, S)
  <2>1. ASSUME NEW i \in 1..n, NEW j \in 1..n, f[i] = f[j] PROVE i = j
    <3>1. f[i] \in Nat /\ ~(f[i] < f[j]) /\ ~(f[j] < f[i])
      <4>1. f[i] \in S
        BY <1>5
      <4>2. f[i] \in Nat
        BY <4>1
      <4>3. ~(f[i] < f[i])
        BY <4>2
      <4>4. QED
        BY <2>1, <4>2, <4>3
    <3>2. ~(i < j) /\ ~(j < i)
      BY <1>5, <1>6, <3>1
    <3>3. QED
      BY <1>2, <3>2
  <2>2. QED
    BY <1>5, <1>6, <2>1 DEF Injection, IsInjective
<1>9. Cardinality(1..n) = n
  BY <1>2, FS_Interval
<1>10. f \in Surjection(1..n, S)
  BY <1>1, <1>8, <1>9, FS_Injection
<1>11. \A x \in S : \E i \in 1..n : f[i] = x
  BY <1>10 DEF Surjection
<1>12. QED
  BY <1>1, <1>4, <1>7, <1>11

-----------------------------------------------------------------------------
(* The page of a scan *)

\* The ids of the watched lines that the cursor has passed.
Seen == {j \in 1..cursor : table[j][1] = Watched}

\* The inductive invariant of the reading side, beside WriteInv.
ReadInv ==
  /\ cursor \in 0..Len(table) /\ shown \in Seq(Line)
  /\ ToSet(shown) = {table[i] : i \in Seen} /\ Rising(shown)

LEMMA ReadInit == LogInit => ReadInv
<1>1. SUFFICES ASSUME LogInit PROVE ReadInv
  OBVIOUS
<1>2. shown = <<>> /\ cursor = 0 /\ table = <<>>
  BY <1>1 DEF LogInit
<1>3. ToSet(shown) = {} /\ Seen = {} /\ Rising(shown)
  BY <1>2 DEF ToSet, Seen, Rising
<1>4. QED
  BY <1>2, <1>3 DEF ReadInv

\* What the page polls: the watched lines after the cursor, up to the new cursor, without a gap.
LEMMA PageLaw ==
  ASSUME WriteInv, cursor \in 0..Len(table)
  PROVE  /\ Page \in SUBSET Nat /\ IsFiniteSet(Page)
         /\ NextCursor(Page) \in cursor..Len(table)
         /\ Page = {j \in (cursor + 1)..NextCursor(Page) : table[j][1] = Watched}
<1>1. PICK ids : ids = {i \in (cursor + 1)..Len(table) : table[i][1] = Watched}
  OBVIOUS
<1>2. table \in Seq(Line) /\ Len(table) \in Nat /\ cursor \in Nat
  BY DEF WriteInv, LogTypes
<1>3. IsFiniteSet(ids) /\ ids \in SUBSET (0..Len(table))
  <2>1. IsFiniteSet((cursor + 1)..Len(table))
    BY <1>2, FS_Interval
  <2>2. ids \in SUBSET ((cursor + 1)..Len(table))
    BY <1>1
  <2>3. IsFiniteSet(ids)
    BY <2>1, <2>2, FS_Subset, Zenon
  <2>4. QED
    BY <1>2, <2>2, <2>3
<1>4. Page = {i \in ids : Cardinality({j \in ids : j < i}) < PageLimit}
  BY <1>1, Zenon DEF Page
<1>5. IsFiniteSet(Page) /\ Page \in SUBSET (0..Len(table)) /\ Page \subseteq ids
  BY <1>3, <1>4, FS_Subset
<1>6. CASE Page = {}
  <2>1. NextCursor(Page) = cursor
    BY <1>6 DEF NextCursor
  <2>2. (cursor + 1)..cursor = {}
    BY <1>2
  <2>3. QED
    BY <1>2, <1>5, <1>6, <2>1, <2>2
<1>7. CASE Page # {}
  <2>1. PICK m : m = Max(Page)
    OBVIOUS
  <2>2. m \in Page /\ \A y \in Page : m >= y
    BY <1>2, <1>5, <1>7, <2>1, GreatestNat
  <2>3. NextCursor(Page) = m
    BY <1>7, <2>1 DEF NextCursor
  <2>4. m \in (cursor + 1)..Len(table) /\ m \in Nat
    BY <1>1, <1>2, <1>5, <2>2
  <2>5. ASSUME NEW i \in ids, i <= m PROVE i \in Page
    <3>1. IsFiniteSet({j \in ids : j < m}) /\ {j \in ids : j < i} \subseteq {j \in ids : j < m}
      <4>1. {j \in ids : j < m} \in SUBSET ids
        OBVIOUS
      <4>2. IsFiniteSet({j \in ids : j < m})
        BY <1>3, <4>1, FS_Subset, Zenon
      <4>3. \A j \in ids : j < i => j < m
        BY <1>2, <1>3, <2>4, <2>5
      <4>4. QED
        BY <4>2, <4>3
    <3>2. /\ Cardinality({j \in ids : j < i}) <= Cardinality({j \in ids : j < m})
          /\ Cardinality({j \in ids : j < i}) \in Nat /\ Cardinality({j \in ids : j < m}) \in Nat
      BY <3>1, FS_Subset, FS_CardinalityType
    <3>3. Cardinality({j \in ids : j < m}) < PageLimit
      BY <1>4, <2>2
    <3>4. QED
      BY <1>4, <3>2, <3>3, LogConstants
  <2>6. Page = {j \in (cursor + 1)..m : table[j][1] = Watched}
    <3>1. ASSUME NEW j \in Page PROVE j \in (cursor + 1)..m /\ table[j][1] = Watched
      BY <1>1, <1>2, <1>5, <2>2, <2>4
    <3>2. ASSUME NEW j \in (cursor + 1)..m, table[j][1] = Watched PROVE j \in Page
      <4>1. j \in ids /\ j <= m
        BY <1>1, <1>2, <2>4, <3>2
      <4>2. QED
        BY <2>5, <4>1
    <3>3. QED
      BY <3>1, <3>2
  <2>7. QED
    BY <1>2, <1>5, <2>3, <2>4, <2>6
<1>8. QED
  BY <1>6, <1>7

\* The lines of a page, in the order of their ids.
LEMMA ShownLaw ==
  ASSUME NEW P \in SUBSET (1..Len(table)), IsFiniteSet(P), table \in Seq(Line)
  PROVE  /\ Shown(P) \in Seq(Line)
         /\ \A i \in 1..Len(Shown(P)) : InOrder(P)[i] \in P /\ Shown(P)[i] = table[InOrder(P)[i]]
         /\ \A i, j \in 1..Len(Shown(P)) : i < j => InOrder(P)[i] < InOrder(P)[j]
         /\ ToSet(Shown(P)) = {table[i] : i \in P}
<1>1. PICK n : n = Cardinality(P)
  OBVIOUS
<1>2. n \in Nat
  BY <1>1, FS_CardinalityType
<1>3. PICK f : f = InOrder(P)
  OBVIOUS
<1>4. f \in [1..n -> P] /\ (\A i, j \in 1..n : i < j => f[i] < f[j]) /\ \A x \in P : \E i \in 1..n : f[i] = x
  BY <1>1, <1>3, OrderLaw DEF Increasing
<1>5. PICK s : s = Shown(P)
  OBVIOUS
<1>6. s = [i \in 1..n |-> table[f[i]]]
  BY <1>1, <1>3, <1>5 DEF Shown
<1>7. \A i \in 1..n : table[f[i]] \in Line
  <2>1. ASSUME NEW i \in 1..n PROVE f[i] \in 1..Len(table)
    <3>1. f[i] \in P
      BY <1>4
    <3>2. QED
      BY <3>1
  <2>2. QED
    BY <2>1, ElementType
<1>8. s \in Seq(Line) /\ Len(s) = n
  BY <1>2, <1>6, <1>7
<1>9. \A i \in 1..n : s[i] = table[f[i]]
  BY <1>6
<1>10. ToSet(s) = {table[i] : i \in P}
  <2>1. ToSet(s) = {s[i] : i \in 1..n}
    BY <1>6 DEF ToSet
  <2>2. ASSUME NEW i \in 1..n PROVE s[i] \in {table[k] : k \in P}
    <3>1. f[i] \in P
      BY <1>4
    <3>2. QED
      BY <1>9, <3>1
  <2>3. ASSUME NEW x \in P PROVE table[x] \in {s[i] : i \in 1..n}
    <3>1. PICK i \in 1..n : f[i] = x
      BY <1>4
    <3>2. s[i] = table[x]
      BY <1>9, <3>1
    <3>3. QED
      BY <3>2
  <2>4. QED
    BY <2>1, <2>2, <2>3
<1>11. QED
  BY <1>3, <1>4, <1>5, <1>8, <1>9, <1>10

\* The elements of two sequences, one behind the other.
LEMMA SetOfBoth ==
  ASSUME NEW p \in Seq(Line), NEW q \in Seq(Line)
  PROVE  ToSet(p \o q) = ToSet(p) \cup ToSet(q)
<1>1. PICK c : c = p \o q
  OBVIOUS
<1>2. Len(p) \in Nat /\ Len(q) \in Nat /\ Len(c) = Len(p) + Len(q) /\ DOMAIN p = 1..Len(p) /\ DOMAIN q = 1..Len(q)
      /\ DOMAIN c = 1..Len(c)
  BY <1>1
<1>3. \A i \in 1..Len(p) : i \in 1..Len(c) /\ c[i] = p[i]
  BY <1>1, <1>2
<1>4. \A i \in 1..Len(q) : i + Len(p) \in 1..Len(c) /\ c[i + Len(p)] = q[i]
  BY <1>1, <1>2
<1>5. \A i \in 1..Len(c) : i \in 1..Len(p) \/ i - Len(p) \in 1..Len(q)
  BY <1>2
<1>6. \A i \in 1..Len(c) : (i \in 1..Len(p) /\ c[i] = p[i]) \/ (i - Len(p) \in 1..Len(q) /\ c[i] = q[i - Len(p)])
  BY <1>1, <1>2, <1>3, <1>5
<1>7. PICK A, B, C : A = ToSet(p) /\ B = ToSet(q) /\ C = ToSet(c)
  OBVIOUS
<1>8. A = {p[i] : i \in 1..Len(p)} /\ B = {q[i] : i \in 1..Len(q)} /\ C = {c[i] : i \in 1..Len(c)}
  BY <1>2, <1>7 DEF ToSet
<1>9. ASSUME NEW x \in A PROVE x \in C
  <2>1. PICK i \in 1..Len(p) : x = p[i]
    BY <1>8
  <2>2. QED
    BY <1>3, <1>8, <2>1
<1>10. ASSUME NEW x \in B PROVE x \in C
  <2>1. PICK i \in 1..Len(q) : x = q[i]
    BY <1>8
  <2>2. QED
    BY <1>4, <1>8, <2>1
<1>11. ASSUME NEW x \in C PROVE x \in A \/ x \in B
  <2>1. PICK i \in 1..Len(c) : x = c[i]
    BY <1>8
  <2>2. QED
    BY <1>6, <1>8, <2>1
<1>12. QED
  BY <1>1, <1>7, <1>9, <1>10, <1>11

\* A poll shows the next lines, each once, and moves the cursor past them.
LEMMA PollSound == WriteInv /\ ReadInv /\ Poll => ReadInv'
<1>1. SUFFICES ASSUME WriteInv, ReadInv, Poll PROVE ReadInv'
  OBVIOUS
<1>2. table \in Seq(Line) /\ Len(table) \in Nat /\ cursor \in 0..Len(table) /\ shown \in Seq(Line) /\ Len(shown) \in Nat
  BY <1>1 DEF WriteInv, LogTypes, ReadInv
<1>3. PICK P : P = Page
  OBVIOUS
<1>4. PICK c : c = NextCursor(Page)
  OBVIOUS
<1>5. IsFiniteSet(P) /\ c \in cursor..Len(table) /\ P = {j \in (cursor + 1)..c : table[j][1] = Watched}
  BY <1>1, <1>2, <1>3, <1>4, PageLaw
<1>6. PICK new : new = Shown(P)
  OBVIOUS
<1>7. cursor' = c /\ shown' = shown \o new /\ table' = table
  BY <1>1, <1>3, <1>4, <1>6 DEF Poll
<1>8. P \in SUBSET (1..Len(table))
  BY <1>2, <1>5
<1>9. /\ new \in Seq(Line)
      /\ \A i \in 1..Len(new) : InOrder(P)[i] \in P /\ new[i] = table[InOrder(P)[i]]
      /\ \A i, j \in 1..Len(new) : i < j => InOrder(P)[i] < InOrder(P)[j]
      /\ ToSet(new) = {table[i] : i \in P}
  BY <1>2, <1>5, <1>6, <1>8, ShownLaw, Zenon
<1>10. Rising(table) /\ Rising(shown) /\ ToSet(shown) = {table[i] : i \in Seen}
  BY <1>1 DEF WriteInv, InOrderOfWriting, ReadInv
<1>11. Rising(new)
  <2>1. SUFFICES ASSUME NEW i \in 1..Len(new), NEW j \in 1..Len(new), i < j, new[i][1] = new[j][1]
                 PROVE  new[i][2] < new[j][2]
    BY DEF Rising
  <2>2. PICK a \in P, b \in P : new[i] = table[a] /\ new[j] = table[b] /\ a < b
    BY <1>9, <2>1
  <2>3. a \in 1..Len(table) /\ b \in 1..Len(table)
    BY <1>8
  <2>4. QED
    BY <1>10, <2>1, <2>2, <2>3 DEF Rising
<1>12. Earlier(shown, new)
  <2>1. SUFFICES ASSUME NEW i \in 1..Len(shown), NEW j \in 1..Len(new), shown[i][1] = new[j][1]
                 PROVE  shown[i][2] < new[j][2]
    BY DEF Earlier
  <2>2. shown[i] \in ToSet(shown)
    BY <1>2 DEF ToSet
  <2>3. PICK a \in Seen : shown[i] = table[a]
    BY <1>10, <2>2
  <2>4. PICK b \in P : new[j] = table[b]
    BY <1>9
  <2>5. a \in 1..Len(table) /\ b \in 1..Len(table) /\ a < b
    BY <1>2, <1>5 DEF Seen
  <2>6. QED
    BY <1>10, <2>1, <2>3, <2>4, <2>5 DEF Rising
<1>13. Joined(shown, new, new, shown \o new)
  BY <1>2, <1>9, ConcatLaw
<1>14. Rising(shown \o new)
  BY <1>10, <1>11, <1>12, <1>13 DEF Joined
<1>15. ToSet(shown \o new) = ToSet(shown) \cup ToSet(new)
  BY <1>2, <1>9, SetOfBoth
<1>16. ToSet(shown \o new) = {table[i] : i \in {j \in 1..c : table[j][1] = Watched}}
  <2>1. {j \in 1..c : table[j][1] = Watched} = Seen \cup P
    BY <1>2, <1>5 DEF Seen
  <2>2. QED
    BY <1>9, <1>10, <1>15, <2>1
<1>17. shown \o new \in Seq(Line)
  BY <1>2, <1>9
<1>18. c \in 0..Len(table)
  BY <1>2, <1>5
<1>19. QED
  BY <1>7, <1>14, <1>16, <1>17, <1>18 DEF ReadInv, Seen

\* Lines that are stored meanwhile come behind the cursor.
LEMMA StoreSound == WriteInv /\ ReadInv /\ Insert => ReadInv'
<1>1. SUFFICES ASSUME WriteInv, ReadInv, Insert PROVE ReadInv'
  OBVIOUS
<1>2. table \in Seq(Line) /\ batch \in Seq(Line) /\ ch \in Seq(Line) /\ Len(table) \in Nat /\ Len(batch) \in Nat
  BY <1>1 DEF WriteInv, LogTypes
<1>3. PICK t : t = table'
  OBVIOUS
<1>4. Len(t) \in Nat /\ Len(t) >= Len(table) /\ \A i \in 1..Len(table) : t[i] = table[i]
  <2>1. CASE t = table \o batch
    <3>1. Joined(table, batch, ch, t)
      BY <1>2, <2>1, ConcatLaw, Zenon
    <3>2. QED
      BY <1>2, <3>1 DEF Joined
  <2>2. CASE t = table
    BY <1>2, <2>2
  <2>3. QED
    BY <1>1, <1>3, <2>1, <2>2 DEF Insert
<1>5. cursor' = cursor /\ shown' = shown
  BY <1>1 DEF Insert
<1>6. cursor \in 0..Len(table) /\ shown \in Seq(Line) /\ ToSet(shown) = {table[i] : i \in Seen} /\ Rising(shown)
  BY <1>1 DEF ReadInv
<1>7. {j \in 1..cursor : t[j][1] = Watched} = Seen
  <2>1. \A j \in 1..cursor : t[j] = table[j]
    BY <1>2, <1>4, <1>6
  <2>2. QED
    BY <2>1 DEF Seen
<1>8. {t[i] : i \in Seen} = {table[i] : i \in Seen}
  <2>1. \A j \in Seen : t[j] = table[j]
    BY <1>2, <1>4, <1>6 DEF Seen
  <2>2. QED
    BY <2>1
<1>9. cursor \in 0..Len(t)
  BY <1>2, <1>4, <1>6
<1>10. QED
  BY <1>3, <1>5, <1>6, <1>7, <1>8, <1>9 DEF ReadInv, Seen

LEMMA ReadInvHolds == LogSpec => []ReadInv
<1>1. WriteInv /\ ReadInv /\ [LogNext]_logVars => ReadInv'
  <2>1. SUFFICES ASSUME ReadInv, WriteInv, [LogNext]_logVars PROVE ReadInv'
    OBVIOUS
  <2>2. CASE Insert
    BY <2>1, <2>2, StoreSound
  <2>3. CASE Poll
    BY <2>1, <2>3, PollSound
  <2>4. CASE UNCHANGED <<table, cursor, shown>>
    BY <2>1, <2>4 DEF ReadInv, Seen
  <2>5. QED
    BY <2>1, <2>2, <2>3, <2>4
    DEF LogNext, Send, DropOldest, Receive, FlushTick, SeeStop, Drained, Close, CloseReturns, logVars
<1>2. QED
  BY <1>1, ReadInit, WriteInvHolds, PTL DEF LogSpec

\* The page of a scan has shown each of its stored lines up to the cursor, once and in the order in which
\* the scan wrote them, for every number of scans, every limit of a page and every size of the channel.
THEOREM NothingUnseen == LogSpec => []ReaderSeesAll
<1>1. WriteInv /\ ReadInv => ReaderSeesAll
  BY DEF WriteInv, InOrderOfWriting, ReadInv, Seen, ReaderSeesAll
<1>2. QED
  BY <1>1, WriteInvHolds, ReadInvHolds, PTL

\* The parts of the log have the types LogTypeOK gives them: the channel and the batch within their
\* bounds, the cursor within the table.
THEOREM LogTypeCorrect == LogSpec => []LogTypeOK
<1>1. WriteInv /\ ReadInv => LogTypeOK
  BY DEF WriteInv, LogTypes, ReadInv, LogTypeOK
<1>2. QED
  BY <1>1, WriteInvHolds, ReadInvHolds, PTL

-----------------------------------------------------------------------------
(* The names and addresses of one scan *)

\* An address was resolved for the host that is expected to answer behind it.
Owned(x) == x.behalf \in Hosts => x.dial \in Addr[x.behalf]

\* Nothing is probed before the probes, and the inputs of the port scan are what dnsx has resolved.
Unprobed ==
  /\ stage \in {"discovery", "resolution", "port_scan"} => urls = {} /\ assessed = {} /\ ~ported
  /\ stage = "port_scan" => inputs \subseteq Plain(ResolvedIps \cup Hosts)

\* After the port scan every probe expects a host of the target.
Expects == ported => (\A x \in inputs : ExpectedHost(x) \in Hosts) /\ \A u \in urls : u.host \in Hosts

\* Who stands behind a URL.
Backed(u) == u.host \in Hosts => u.from = u.host \/ u.cert \/ u.from \in Addr[u.host]

\* Each result is of another host whose lookup is over.
LookedUp == IsFiniteSet(looked) /\ Len(results) <= Cardinality(looked)

\* NamesTypeOK but for the number of results, which LookedUp bounds.
NamesTypes ==
  /\ kind \in {"full", "quick", "discovery"} /\ stage \in Stages
  /\ hostnames \subseteq Hosts /\ looked \subseteq Hosts
  /\ results \in Seq(Hosts)
  /\ inputs \subseteq Input /\ ported \in BOOLEAN
  /\ urls \subseteq Url /\ assessed \subseteq urls

\* The inductive invariant of one scan's tools.
NamesInv ==
  /\ NamesTypes /\ LookedUp /\ Unprobed /\ Expects
  /\ \A x \in inputs : Owned(x)
  /\ \A u \in urls : Backed(u)

LEMMA NamesConstants ==
  /\ Root \in Hosts /\ NoHost \notin Hosts /\ NoHost \notin Addresses /\ Elsewhere \notin Hosts
  /\ Elsewhere \notin Addresses /\ Hosts \cap Addresses = {} /\ MaxUrls \in Nat
  /\ \A h \in Hosts : Addr[h] \subseteq Addresses
  BY DiscoveryAssumption

\* resolved_from: the owner of an address is a host that has it.
LEMMA OwnerLaw ==
  ASSUME results \in Seq(Hosts), NEW ip \in ResolvedIps
  PROVE  OwnerOfIp(ip) \in Hosts /\ ip \in Addr[OwnerOfIp(ip)] /\ ip \in Addresses
<1>1. PICK S : S = {k \in 1..Len(results) : ip \in Addr[results[k]]}
  OBVIOUS
<1>2. S \in SUBSET Nat
  BY <1>1
<1>3. S # {}
  BY <1>1 DEF ResolvedIps, ToSet
<1>4. Min(S) \in S
  BY <1>2, <1>3, LeastNat
<1>5. OwnerOfIp(ip) = results[Min(S)]
  BY <1>1 DEF OwnerOfIp
<1>6. OwnerOfIp(ip) \in Hosts /\ ip \in Addr[OwnerOfIp(ip)]
  BY <1>1, <1>4, <1>5
<1>7. QED
  BY <1>6, NamesConstants

\* An input of plain names has nobody behind it.
LEMMA PlainLaw ==
  ASSUME NEW names \in SUBSET Names, NEW x \in Plain(names)
  PROVE  x \in Input /\ x.behalf = NoHost /\ x.dial \in names /\ Owned(x)
  BY NamesConstants DEF Plain, Input, Owned

\* A scan starts with the root of its target, which stands for itself.
LEMMA NamesInitSound == NamesInit => NamesInv
<1>1. SUFFICES ASSUME NamesInit PROVE NamesInv
  OBVIOUS
<1> USE <1>1 DEF NamesInit
<1>2. {Root} \subseteq Names /\ {Root} \subseteq Hosts
  BY NamesConstants DEF Names
<1>3. NamesTypes
  <2>1. \A x \in Plain({Root}) : x \in Input
    BY <1>2, PlainLaw
  <2>2. results \in Seq(Hosts)
    OBVIOUS
  <2>3. QED
    BY <1>2, <2>1, <2>2 DEF NamesTypes, Stages
<1>4. LookedUp
  BY FS_EmptySet DEF LookedUp
<1>5. Unprobed /\ Expects
  BY DEF Unprobed, Expects
<1>6. QED
  BY <1>2, <1>3, <1>4, <1>5, PlainLaw DEF NamesInv

\* subfinder hands on hostnames of the target.
LEMMA EnumerateSound == NamesInv /\ Enumerate => NamesInv'
<1>1. SUFFICES ASSUME NamesInv, Enumerate PROVE NamesInv'
  OBVIOUS
<1>2. /\ stage = "discovery" /\ stage' = "resolution" /\ hostnames' \subseteq Hosts /\ inputs' = Plain(hostnames')
      /\ UNCHANGED <<kind, looked, results, ported, urls, assessed>>
  BY <1>1, NamesConstants DEF Enumerate
<1>3. hostnames' \in SUBSET Names
  BY <1>2 DEF Names
<1>4. \A x \in inputs' : x \in Input /\ Owned(x)
  BY <1>2, <1>3, PlainLaw
<1>5. NamesTypes'
  BY <1>1, <1>2, <1>4 DEF NamesInv, NamesTypes, Stages
<1>6. LookedUp' /\ Unprobed' /\ Expects'
  BY <1>1, <1>2 DEF NamesInv, LookedUp, Unprobed, Expects
<1>7. QED
  BY <1>1, <1>2, <1>4, <1>5, <1>6 DEF NamesInv, Owned, Backed

\* A lookup that is over adds one result at most.
LEMMA LookupSound ==
  ASSUME NamesInv, NEW h \in Hosts, Lookup(h)
  PROVE  NamesInv'
<1>1. /\ stage = "resolution" /\ h \in hostnames \ looked /\ looked' = looked \cup {h}
      /\ results' = Append(results, h) \/ results' = results
      /\ UNCHANGED <<kind, stage, hostnames, inputs, ported, urls, assessed>>
  BY DEF Lookup
<1>2. results \in Seq(Hosts) /\ looked \subseteq Hosts /\ LookedUp
  BY DEF NamesInv, NamesTypes
<1>3. results' \in Seq(Hosts) /\ (Len(results') = Len(results) \/ Len(results') = Len(results) + 1)
  BY <1>1, <1>2
<1>4. IsFiniteSet(looked') /\ Cardinality(looked') = Cardinality(looked) + 1
  BY <1>1, <1>2, FS_AddElement DEF LookedUp
<1>5. LookedUp'
  <2>1. Cardinality(looked) \in Nat /\ Len(results) \in Nat
    BY <1>2, FS_CardinalityType DEF LookedUp
  <2>2. QED
    BY <1>2, <1>3, <1>4, <2>1 DEF LookedUp
<1>6. NamesTypes'
  BY <1>1, <1>2, <1>3 DEF NamesInv, NamesTypes
<1>7. Unprobed' /\ Expects'
  BY <1>1 DEF NamesInv, Unprobed, Expects, ExpectedHost
<1>8. QED
  BY <1>1, <1>5, <1>6, <1>7 DEF NamesInv, Owned, Backed

\* What dnsx hands on: plain names and addresses, the addresses with an owner.
LEMMA ResolutionSound == NamesInv /\ ResolutionDone => NamesInv'
<1>1. SUFFICES ASSUME NamesInv, ResolutionDone PROVE NamesInv'
  OBVIOUS
<1>2. /\ stage = "resolution" /\ stage' \in {"port_scan", "http_probe", "completed"}
      /\ hostnames' = Narrowed /\ inputs' = Plain(ResolvedIps \cup Narrowed)
      /\ UNCHANGED <<kind, looked, results, ported, urls, assessed>>
  BY <1>1 DEF ResolutionDone, AfterResolution, NamesInv, NamesTypes
<1>3. results \in Seq(Hosts) /\ hostnames \subseteq Hosts
  BY <1>1 DEF NamesInv, NamesTypes
<1>4. Narrowed \subseteq Hosts
  BY <1>3 DEF Narrowed
<1>5. ResolvedIps \subseteq Addresses
  BY <1>3, OwnerLaw
<1>6. ResolvedIps \cup Narrowed \in SUBSET Names
  BY <1>4, <1>5 DEF Names
<1>7. \A x \in inputs' : x \in Input /\ Owned(x) /\ x \in Plain(ResolvedIps \cup Hosts)
  <2>1. Plain(ResolvedIps \cup Narrowed) \subseteq Plain(ResolvedIps \cup Hosts)
    BY <1>4 DEF Plain
  <2>2. QED
    BY <1>2, <1>6, <2>1, PlainLaw
<1>8. NamesTypes'
  BY <1>1, <1>2, <1>4, <1>7 DEF NamesInv, NamesTypes, Stages
<1>9. LookedUp' /\ Expects'
  BY <1>1, <1>2 DEF NamesInv, LookedUp, Unprobed, Expects
<1>10. Unprobed'
  <2>1. ResolvedIps' = ResolvedIps
    BY <1>2 DEF ResolvedIps
  <2>2. inputs' \subseteq Plain(ResolvedIps \cup Hosts)' 
    BY <1>7, <2>1 DEF Plain
  <2>3. QED
    BY <1>1, <1>2, <2>2 DEF NamesInv, Unprobed
<1>11. QED
  BY <1>1, <1>2, <1>7, <1>8, <1>9, <1>10 DEF NamesInv, Owned, Backed

\* An open port of an address is dialled for a host that has it.
LEMMA ScanPortsSound == NamesInv /\ ScanPorts => NamesInv'
<1>1. SUFFICES ASSUME NamesInv, ScanPorts PROVE NamesInv'
  OBVIOUS
<1>2. PICK open \in SUBSET {x.dial : x \in inputs} : inputs' = {Enrich(n) : n \in open} \cup Plain(hostnames)
  BY <1>1 DEF ScanPorts
<1>3. /\ stage = "port_scan" /\ stage' = "http_probe" /\ ported' = TRUE
      /\ UNCHANGED <<kind, hostnames, looked, results, urls, assessed>>
  BY <1>1 DEF ScanPorts
<1>4. results \in Seq(Hosts) /\ hostnames \subseteq Hosts /\ urls = {} /\ inputs \subseteq Plain(ResolvedIps \cup Hosts)
  BY <1>1, <1>3 DEF NamesInv, NamesTypes, Unprobed
<1>5. ResolvedIps \subseteq Addresses
  BY <1>4, OwnerLaw
<1>6. open \subseteq ResolvedIps \cup Hosts
  BY <1>4 DEF Plain
<1>7. ASSUME NEW n \in open PROVE Enrich(n) \in Input /\ Owned(Enrich(n)) /\ ExpectedHost(Enrich(n)) \in Hosts
  <2>1. CASE n \in ResolvedIps
    <3>1. Enrich(n) = [behalf |-> OwnerOfIp(n), dial |-> n]
      BY <2>1 DEF Enrich
    <3>2. OwnerOfIp(n) \in Hosts /\ n \in Addr[OwnerOfIp(n)] /\ n \in Addresses
      BY <1>4, <2>1, OwnerLaw
    <3>3. QED
      BY <3>1, <3>2, NamesConstants DEF Input, Names, Owned, ExpectedHost
  <2>2. CASE n \notin ResolvedIps
    <3>1. Enrich(n) = [behalf |-> NoHost, dial |-> n] /\ n \in Hosts
      BY <1>6, <2>2 DEF Enrich
    <3>2. QED
      BY <3>1, NamesConstants DEF Input, Names, Owned, ExpectedHost
  <2>3. QED
    BY <2>1, <2>2
<1>8. ASSUME NEW x \in Plain(hostnames) PROVE x \in Input /\ Owned(x) /\ ExpectedHost(x) \in Hosts
  <2>1. hostnames \in SUBSET Names
    BY <1>4 DEF Names
  <2>2. QED
    BY <1>4, <2>1, PlainLaw DEF ExpectedHost
<1>9. \A x \in inputs' : x \in Input /\ Owned(x) /\ ExpectedHost(x) \in Hosts
  BY <1>2, <1>7, <1>8
<1>10. NamesTypes'
  BY <1>1, <1>3, <1>9 DEF NamesInv, NamesTypes, Stages
<1>11. LookedUp' /\ Unprobed' /\ Expects'
  BY <1>1, <1>3, <1>4, <1>9 DEF NamesInv, LookedUp, Unprobed, Expects, ExpectedHost
<1>12. QED
  BY <1>1, <1>3, <1>9, <1>10, <1>11 DEF NamesInv, Owned, Backed

\* An answer out of scope leaves nothing, whoever it came from.
LEMMA ProbeSound ==
  ASSUME NamesInv, NEW x \in inputs, ProbeURL(x)
  PROVE  NamesInv'
<1>1. PICK r \in Answers : InScopeOf(x, r) /\ urls' = urls \cup {Recorded(x, r)}
  BY DEF ProbeURL
<1>2. stage = "http_probe" /\ UNCHANGED <<kind, stage, hostnames, looked, results, inputs, ported, assessed>>
  BY DEF ProbeURL
<1>3. PICK e : e = ExpectedHost(x)
  OBVIOUS
<1>4. x \in Input /\ Owned(x)
  BY DEF NamesInv, NamesTypes
<1>5. e = NoHost \/ (e \in Hosts /\ (x.dial \in Addresses => x.dial \in Addr[e]))
  <2>1. x.behalf \in Hosts \cup {NoHost} /\ x.dial \in Hosts \cup Addresses
    BY <1>4 DEF Input, Names
  <2>2. CASE x.behalf # NoHost
    BY <1>3, <1>4, <2>1, <2>2 DEF Owned, ExpectedHost
  <2>3. CASE x.behalf = NoHost
    BY <1>3, <2>1, <2>3, NamesConstants DEF ExpectedHost
  <2>4. QED
    BY <2>2, <2>3
<1>6. r.final \in Names \cup {Elsewhere} /\ r.tls \in BOOLEAN /\ r.covers \in SUBSET Hosts
  <2>1. r \in [final : Names \cup {Elsewhere}, tls : {TRUE}, covers : {{}} \cup {{h} : h \in Hosts}]
          \/ r \in [final : Names \cup {Elsewhere}, tls : {FALSE}, covers : {{}}]
    BY DEF Answers
  <2>2. \A S \in {{}} \cup {{h} : h \in Hosts} : S \subseteq Hosts
    OBVIOUS
  <2>3. QED
    BY <2>1, <2>2
<1>7. PICK u : u = Recorded(x, r)
  OBVIOUS
<1>8. u = [host |-> IF e = NoHost THEN r.final ELSE e, from |-> r.final, cert |-> r.tls /\ e \in r.covers]
  BY <1>3, <1>7 DEF Recorded
<1>9. (r.tls /\ e \in r.covers) \in BOOLEAN
  BY <1>6
<1>10. u \in Url
  BY <1>5, <1>6, <1>8, <1>9 DEF Url, Names
<1>11. Backed(u)
  BY <1>1, <1>3, <1>5, <1>6, <1>8 DEF InScopeOf, ScopeMatches, Backed
<1>12. ported => u.host \in Hosts
  BY <1>3, <1>8, NamesConstants DEF NamesInv, Expects
<1>13. NamesTypes'
  BY <1>1, <1>2, <1>7, <1>10 DEF NamesInv, NamesTypes
<1>14. LookedUp' /\ Unprobed' /\ Expects'
  BY <1>1, <1>2, <1>7, <1>12 DEF NamesInv, LookedUp, Unprobed, Expects, ExpectedHost
<1>15. QED
  BY <1>1, <1>2, <1>7, <1>11, <1>13, <1>14 DEF NamesInv, Owned, Backed

\* The steps that only move on to another tool.
LEMMA MovesSound ==
  ASSUME NamesInv, EnumerateFails \/ ScanPortsFails \/ ProbesDone \/ Assess \/ UNCHANGED nameVars
  PROVE  NamesInv'
<1>1. UNCHANGED <<kind, hostnames, looked, results, inputs, ported, urls>>
  BY DEF EnumerateFails, ScanPortsFails, ProbesDone, Assess, nameVars
<1>2. /\ stage' = stage \/ (stage' \in {"failed", "completed", "http_probe", "assessment"})
      /\ assessed' = assessed \/ (assessed' = ForNuclei /\ stage' # stage)
  BY DEF EnumerateFails, ScanPortsFails, ProbesDone, Assess, nameVars
<1>3. ForNuclei \subseteq urls
  BY DEF ForNuclei
<1>4. NamesTypes'
  BY <1>1, <1>2, <1>3 DEF NamesInv, NamesTypes, Stages
<1>5. LookedUp' /\ Expects'
  BY <1>1 DEF NamesInv, LookedUp, Expects, ExpectedHost
<1>6. Unprobed'
  BY <1>1, <1>2 DEF NamesInv, Unprobed, Plain, ResolvedIps
<1>7. QED
  BY <1>1, <1>4, <1>5, <1>6 DEF NamesInv, Owned, Backed

LEMMA NamesInvHolds == NamesSpec => []NamesInv
<1>1. NamesInv /\ [NamesNext]_nameVars => NamesInv'
  BY EnumerateSound, LookupSound, ResolutionSound, ScanPortsSound, ProbeSound, MovesSound DEF NamesNext
<1>2. QED
  BY <1>1, NamesInitSound, PTL DEF NamesSpec

\* A URL stands under a hostname only if that name itself answered, or an address that DNS has for it, or
\* someone whose certificate covers it, and after a port scan nuclei is sent to hosts of the target only, in
\* whatever order lookups that share addresses ended and wherever probes were redirected (httpx.go:98-107).
THEOREM StaysInScope == NamesSpec => []InScope
<1>1. NamesInv => InScope
  BY DEF NamesInv, NamesTypes, Backed, Expects, InScope
<1>2. QED
  BY <1>1, NamesInvHolds, PTL

\* Type correctness: an address is looked up once, so dnsx has no more results than the target has hosts, and
\* nuclei is handed URLs that httpx has recorded.
THEOREM NamesTypeCorrect == NamesSpec => []NamesTypeOK
<1>1. NamesInv => NamesTypeOK
  <2>1. SUFFICES ASSUME NamesInv PROVE NamesTypeOK
    OBVIOUS
  <2>2. NamesTypes /\ Len(results) <= Cardinality(looked) /\ looked \subseteq Hosts /\ Len(results) \in Nat
    BY <2>1 DEF NamesInv, LookedUp, NamesTypes
  <2>3. Cardinality(looked) <= Cardinality(Hosts) /\ Cardinality(looked) \in Nat /\ Cardinality(Hosts) \in Nat
    <3>1. IsFiniteSet(Hosts)
      BY DiscoveryAssumption
    <3>2. IsFiniteSet(looked) /\ Cardinality(looked) <= Cardinality(Hosts)
      BY <2>2, <3>1, FS_Subset
    <3>3. QED
      BY <3>1, <3>2, FS_CardinalityType
  <2>4. Len(results) <= Cardinality(Hosts)
    BY <2>2, <2>3
  <2>5. QED
    BY <2>2, <2>4 DEF NamesTypes, NamesTypeOK
<1>2. QED
  BY <1>1, NamesInvHolds, PTL

-----------------------------------------------------------------------------
(* The preparation of the database *)

\* A process runs a migration only if there is one that it has not come past.
HasNext == \A p \in Boots : at[p] \in {"begin", "end"} => seen[p].version < Latest

\* Tables that a process has come past stay complete: migrations that are run again find them so.
SeenIsNew == \A p \in Boots : \A k \in 1..seen[p].version : k \notin Rebuilds => schema[k] = "new"

\* Nothing of the promotion is there before its commit, and what follows the commit finds it done.
Promotion ==
  /\ ~promoted => schedules = {} /\ deleted = {}
  /\ \A p \in Boots : at[p] = "rename" => promoted
  /\ \A p \in Boots : at[p] = "seed" => file = "archived"

BootInv == BootTypeOK /\ HasNext /\ SeenIsNew /\ Promotion /\ BootsOnce

\* A database of an earlier version, before the first boot, satisfies the invariant.
LEMMA BootInitInv == BootInit => BootInv
  <1> USE BootAssumption
  <1> SUFFICES ASSUME BootInit PROVE BootInv
    OBVIOUS
  <1>1. BootTypeOK
    <2> USE DEF BootInit
    <2>1. schema \in [Migration -> {"old", "half", "new"}] /\ version \in 0..Latest
      BY DEF Migration
    <2>2. sites \in [Sites -> {"absent", "off", "on"}] /\ builtins \in [Builtins -> {"absent", "seeded", "edited"}]
      OBVIOUS
    <2>3. at \in [Boots -> BootSteps]
      BY DEF BootSteps
    <2>4. seen \in [Boots -> [version : 0..Latest, sites : SUBSET Sites]]
      OBVIOUS
    <2> QED BY <2>1, <2>2, <2>3, <2>4 DEF BootTypeOK
  <1>2. HasNext /\ SeenIsNew /\ Promotion
    BY DEF BootInit, HasNext, SeenIsNew, Promotion
  <1>3. BootsOnce
    BY DEF BootInit, BootsOnce, Migration
  <1> QED BY <1>1, <1>2, <1>3 DEF BootInv

\* A step of a migration keeps every table new that a version vouches for.
LEMMA BegunKeepsNew ==
  ASSUME NEW k \in Migration, schema[k] = "new", k \notin Rebuilds, Begun(k) # "error"
  PROVE  Begun(k) = "new"
  BY DEF Begun

\* Steps of a process before it has opened the store (runMigrations).
LEMMA MigrationSteps ==
  ASSUME BootInv, NEW p \in Boots,
         Launch(p) \/ ReadVersion(p) \/ BeginMigration(p) \/ EndMigration(p) \/ Opened(p)
  PROVE  BootInv'
  <1> USE BootAssumption DEF BootInv
  <1>1. CASE Launch(p)
    <2> USE <1>1 DEF Launch, Step
    <2>1. BootTypeOK' /\ HasNext'
      BY DEF BootTypeOK, HasNext, BootSteps
    <2>2. SeenIsNew'
      BY DEF SeenIsNew, BootTypeOK
    <2>3. Promotion' /\ BootsOnce'
      BY DEF Promotion, BootsOnce, BootTypeOK
    <2> QED BY <2>1, <2>2, <2>3
  <1>2. CASE ReadVersion(p)
    <2> USE <1>2 DEF ReadVersion, Step
    <2>0. /\ at' \in [Boots -> BootSteps] /\ UNCHANGED <<schema, version, file, promoted, sites, schedules, deleted, builtins>>
          /\ \/ UNCHANGED seen
             \/ seen' = [seen EXCEPT ![p] = [version |-> seen[p].version + 1, sites |-> seen[p].sites]] /\ UNCHANGED at
      BY DEF BootTypeOK, BootSteps
    <2>1. BootTypeOK'
      BY <2>0 DEF BootTypeOK
    <2>a. HasNext'
      BY DEF BootTypeOK, HasNext
    <2>2. SeenIsNew'
      BY DEF SeenIsNew, BootTypeOK, BootsOnce
    <2>3. Promotion' /\ BootsOnce'
      BY DEF Promotion, BootsOnce, BootTypeOK
    <2> QED BY <2>1, <2>a, <2>2, <2>3
  <1>3. CASE BeginMigration(p)
    <2> DEFINE k == seen[p].version + 1
    <2>0. at[p] = "begin" /\ k \in Migration
      BY <1>3 DEF BeginMigration, HasNext, BootTypeOK, Migration
    <2>1. CASE Begun(k) = "error"
      <3>1. at' = [at EXCEPT ![p] = "failed"]
            /\ UNCHANGED <<schema, version, file, promoted, sites, schedules, deleted, builtins, seen>>
        BY <1>3, <2>1 DEF BeginMigration, Step
      <3>2. BootTypeOK' /\ HasNext' /\ SeenIsNew'
        BY <3>1 DEF BootTypeOK, HasNext, SeenIsNew, BootSteps
      <3>3. Promotion' /\ BootsOnce'
        BY <3>1 DEF Promotion, BootsOnce, BootTypeOK
      <3> QED BY <3>2, <3>3
    <2>2. CASE Begun(k) # "error"
      <3>1. /\ at' = [at EXCEPT ![p] = "end"] /\ schema' = [schema EXCEPT ![k] = Begun(k)]
            /\ UNCHANGED <<version, file, promoted, sites, schedules, deleted, builtins, seen>>
        BY <1>3, <2>2 DEF BeginMigration, Step
      <3>2. Begun(k) \in {"half", "new"}
        BY <2>2 DEF Begun
      <3>3. \A j \in Migration : j \notin Rebuilds /\ schema[j] = "new" => schema'[j] = "new"
        BY <2>0, <2>2, <3>1, BegunKeepsNew DEF BootTypeOK
      <3>4. BootTypeOK' /\ HasNext'
        BY <2>0, <3>1, <3>2 DEF BootTypeOK, HasNext, BootSteps
      <3>5. SeenIsNew'
        BY <3>1, <3>3 DEF SeenIsNew, BootTypeOK, Migration
      <3>6. Promotion' /\ BootsOnce'
        BY <3>1, <3>3 DEF Promotion, BootsOnce, BootTypeOK, Migration
      <3> QED BY <3>4, <3>5, <3>6
    <2> QED BY <2>1, <2>2
  <1>4. CASE EndMigration(p)
    <2> DEFINE k == seen[p].version + 1
    <2>0. k \in Migration
      BY <1>4 DEF EndMigration, Step, HasNext, BootTypeOK, Migration
    <2>1. /\ at' = [at EXCEPT ![p] = "version"] /\ schema' = [schema EXCEPT ![k] = "new"] /\ version' = k
          /\ seen' = [seen EXCEPT ![p].version = k]
          /\ UNCHANGED <<file, promoted, sites, schedules, deleted, builtins>>
      BY <1>4 DEF EndMigration, Step
    <2>a. k \in 0..Latest /\ seen' = [seen EXCEPT ![p] = [version |-> k, sites |-> seen[p].sites]]
      <3>1. k \in 0..Latest
        BY <2>0 DEF Migration
      <3>2. seen[p] \in [version : 0..Latest, sites : SUBSET Sites]
        BY DEF BootTypeOK
      <3>3. [seen[p] EXCEPT !.version = k] = [version |-> k, sites |-> seen[p].sites]
        BY <3>2
      <3>4. seen' = [seen EXCEPT ![p] = [seen[p] EXCEPT !.version = k]]
        BY <2>1
      <3> QED BY <3>1, <3>3, <3>4
    <2>b. BootTypeOK'
      BY <2>0, <2>1, <2>a DEF BootTypeOK, BootSteps
    <2>c. HasNext'
      BY <2>1, <2>a DEF HasNext, BootTypeOK
    <2>3. \A j \in 1..k : j \notin Rebuilds => schema'[j] = "new"
      BY <2>0, <2>1 DEF SeenIsNew, BootTypeOK, Migration
    <2>4. SeenIsNew'
      BY <2>0, <2>1, <2>3 DEF SeenIsNew, BootTypeOK, Migration
    <2>5. Promotion' /\ BootsOnce'
      BY <2>1, <2>3 DEF Promotion, BootsOnce, BootTypeOK
    <2> QED BY <2>b, <2>c, <2>4, <2>5
  <1>5. CASE Opened(p)
    <2> USE <1>5 DEF Opened, Step
    <2>1. BootTypeOK' /\ HasNext' /\ SeenIsNew'
      BY DEF BootTypeOK, HasNext, SeenIsNew, BootSteps
    <2>2. Promotion' /\ BootsOnce'
      BY DEF Promotion, BootsOnce, BootTypeOK
    <2> QED BY <2>1, <2>2
  <1> QED BY <1>1, <1>2, <1>3, <1>4, <1>5

\* Steps of a process that promotes the legacy file, seeds the templates, or ends.
LEMMA PromotionSteps ==
  ASSUME BootInv, NEW p \in Boots,
         Stat(p) \/ ListSites(p) \/ Commit(p) \/ Rename(p) \/ Seed(p) \/ Die(p)
  PROVE  BootInv'
  <1> USE BootAssumption DEF BootInv, Step
  <1>1. UNCHANGED <<schema, version>> /\ \A q \in Boots : seen'[q].version = seen[q].version
    BY DEF Stat, ListSites, Commit, Rename, Seed, Die, BootTypeOK
  <1>2. SeenIsNew'
    BY <1>1 DEF SeenIsNew
  <1>3. BootTypeOK'
    <2>1. /\ file' \in {"source", "archived"} /\ promoted' \in BOOLEAN
          /\ schedules' \subseteq Sites /\ UNCHANGED <<sites, deleted>>
      <3>1. CASE Commit(p)
        <4>1. seen[p].sites \subseteq Sites
          BY DEF BootTypeOK
        <4> QED BY <3>1, <4>1 DEF Commit, BootTypeOK
      <3>2. CASE Stat(p) \/ ListSites(p) \/ Rename(p) \/ Seed(p) \/ Die(p)
        BY <3>2 DEF Stat, ListSites, Rename, Seed, Die, BootTypeOK
      <3> QED BY <3>1, <3>2
    <2>2. builtins' \in [Builtins -> {"absent", "seeded", "edited"}]
      BY DEF Stat, ListSites, Commit, Rename, Seed, Die, BootTypeOK
    <2>3. at' \in [Boots -> BootSteps]
      BY DEF Stat, ListSites, Commit, Rename, Seed, Die, BootTypeOK, BootSteps
    <2>4. seen' \in [Boots -> [version : 0..Latest, sites : SUBSET Sites]]
      <3>1. CASE UNCHANGED seen
        BY <3>1 DEF BootTypeOK
      <3>2. CASE ListSites(p)
        <4>1. seen' = [seen EXCEPT ![p] = [version |-> seen[p].version, sites |-> {t \in Sites : sites[t] = "on"}]]
          <5> DEFINE on == {t \in Sites : sites[t] = "on"}
          <5> HIDE DEF on
          <5>1. seen' = [seen EXCEPT ![p] = [seen[p] EXCEPT !.sites = on]]
            BY <3>2 DEF ListSites, on
          <5>2. seen[p] \in [version : 0..Latest, sites : SUBSET Sites]
            BY DEF BootTypeOK
          <5>3. [seen[p] EXCEPT !.sites = on] = [version |-> seen[p].version, sites |-> on]
            BY <5>2
          <5> QED BY <5>1, <5>3 DEF on
        <4> QED BY <4>1 DEF BootTypeOK
      <3> QED BY <3>1, <3>2 DEF Stat, Commit, Rename, Seed, Die
    <2> QED BY <1>1, <2>1, <2>2, <2>3, <2>4 DEF BootTypeOK
  <1>4. HasNext'
    BY <1>1 DEF Stat, ListSites, Commit, Rename, Seed, Die, BootTypeOK, HasNext
  <1>5. Promotion'
    BY DEF Stat, ListSites, Commit, Rename, Seed, Die, BootTypeOK, Promotion
  <1>6. BootsOnce'
    <2>1. \A j \in 1..version' : j \notin Rebuilds => schema'[j] = "new"
      BY <1>1 DEF BootsOnce
    <2>2. file' = "archived" => promoted'
      BY DEF Stat, ListSites, Commit, Rename, Seed, Die, BootTypeOK, BootsOnce, Promotion
    <2>3. schedules' \cap deleted' = {}
      BY DEF Stat, ListSites, Commit, Rename, Seed, Die, BootsOnce, Promotion
    <2>4. \A q \in Boots : at'[q] = "up" => file' = "archived" /\ \A b \in Builtins : builtins'[b] # "absent"
      BY DEF Stat, ListSites, Commit, Rename, Seed, Die, BootTypeOK, BootsOnce, Promotion
    <2> QED BY <2>1, <2>2, <2>3, <2>4 DEF BootsOnce
  <1> QED BY <1>2, <1>3, <1>4, <1>5, <1>6

\* What operators change meanwhile.
LEMMA OperatorSteps ==
  ASSUME BootInv,
         \/ \E t \in Sites : EditSite(t) \/ DropSchedule(t)
         \/ \E b \in Builtins : EditBuiltin(b)
  PROVE  BootInv'
  <1> USE BootAssumption DEF BootInv, EditSite, DropSchedule, EditBuiltin
  <1>1. BootTypeOK' /\ HasNext' /\ SeenIsNew'
    BY DEF BootTypeOK, HasNext, SeenIsNew
  <1>2. Promotion'
    BY DEF Promotion
  <1>3. BootsOnce'
    BY DEF BootsOnce, BootTypeOK
  <1> QED BY <1>1, <1>2, <1>3

\* Every step keeps the invariant.
LEMMA BootStep == BootInv /\ [BootNext]_bootVars => BootInv'
  <1> SUFFICES ASSUME BootInv, [BootNext]_bootVars PROVE BootInv'
    OBVIOUS
  <1>1. CASE UNCHANGED bootVars
    BY <1>1 DEF bootVars, BootInv, BootTypeOK, HasNext, SeenIsNew, Promotion, BootsOnce
  <1>2. CASE BootNext
    BY <1>2, MigrationSteps, PromotionSteps, OperatorSteps DEF BootNext
  <1> QED BY <1>1, <1>2

\* The state that boots share is well typed (storage.go, migrate_legacy.go, seed_templates.go).
THEOREM BootTypeCorrect == BootSpec => []BootTypeOK
  <1>1. BootInv => BootTypeOK
    BY DEF BootInv
  <1> QED BY <1>1, BootInitInv, BootStep, PTL DEF BootSpec

\* Versions vouch for complete tables, the file is archived only when promoted, deleted schedules do not come
\* back, and a process that is up finds all of it, whichever boots crash or run at the same time.
THEOREM BootsOnceHolds == BootSpec => []BootsOnce
  <1>1. BootInv => BootsOnce
    BY DEF BootInv
  <1> QED BY <1>1, BootInitInv, BootStep, PTL DEF BootSpec

-----------------------------------------------------------------------------
(* The parts together *)

\* A step of one part is a step of it, and a stutter of the others.
LEMMA PartStep ==
  ASSUME [DetNext]_detVars
  PROVE  /\ [Next]_vars /\ [NamesNext]_nameVars /\ [LogNext]_logVars /\ [BootNext]_bootVars
         /\ part' = part
         /\ IF part = "calendar" THEN [CalNext]_calVars ELSE UNCHANGED calVars
  BY DEF DetNext, InDiff, InNames, InLog, InCalendar, InBoot, detVars

\* A behaviour of the composition is one of the diff phase, of the tools, of the log and of the boot, so what
\* is proved of these holds in the composition that TLC runs.
THEOREM PartsAreBehaviours == DetSpec => Spec /\ NamesSpec /\ LogSpec /\ BootSpec
<1>1. DetInit => Init /\ NamesInit /\ LogInit /\ BootInit
  BY DEF DetInit
<1>2. [DetNext]_detVars => [Next]_vars /\ [NamesNext]_nameVars /\ [LogNext]_logVars /\ [BootNext]_bootVars
  BY PartStep
<1>3. QED
  BY <1>1, <1>2, PTL DEF DetSpec, Spec, NamesSpec, LogSpec, BootSpec

\* The calendar, or what DetInit makes of it when it has no part.
Resting ==
  /\ occurrences = {} /\ starts = {} /\ length = 1 /\ jitter = 0 /\ clock = 0
  /\ next = Never /\ fired = {} /\ gaveUp = FALSE

\* The calendar runs, or is as DetInit has left it.
CalendarPart == IF part = "calendar" THEN CalInv ELSE Resting

\* Every part is well typed, whichever of them a behaviour is about.
THEOREM DetTypeCorrect == DetSpec => []DetTypeOK
<1>1. DetInit => CalendarPart
  BY InitSound DEF DetInit, CalendarPart, Resting
<1>2. CalendarPart /\ [DetNext]_detVars => CalendarPart'
  <2>1. SUFFICES ASSUME CalendarPart, [DetNext]_detVars PROVE CalendarPart'
    OBVIOUS
  <2>2. CASE part = "calendar"
    BY <2>1, <2>2, PartStep, CalStep DEF CalendarPart
  <2>3. CASE part # "calendar"
    BY <2>1, <2>3, PartStep DEF CalendarPart, Resting, calVars
  <2>4. QED
    BY <2>2, <2>3
<1>3. CalendarPart => CalTypeOK
  <2>1. CASE part = "calendar"
    BY <2>1, CalInvTyped DEF CalendarPart
  <2>2. CASE part # "calendar"
    <3>1. 1 \in 1..MaxLength /\ 0 \in 0..MaxJitter /\ 0 \in 0..LastInstant
      BY CalendarAssumption
    <3>2. QED
      BY <2>2, <3>1 DEF CalendarPart, Resting, CalTypeOK
  <2>3. QED
    BY <2>1, <2>2
<1>4. DetSpec => []CalTypeOK
  BY <1>1, <1>2, <1>3, PTL DEF DetSpec
<1>5. QED
  BY <1>4, PartsAreBehaviours, DiffTypeCorrect, NamesTypeCorrect, LogTypeCorrect, BootTypeCorrect, PTL DEF DetTypeOK
=============================================================================
