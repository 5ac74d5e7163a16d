------------------------- MODULE FeatureStoreProofs -------------------------
(***************************************************************************)
(* Proofs about stored feature sets: every stored row is computed from the *)
(* unbroken run of candles that ends with its own and does not depend on   *)
(* later ones; writers of one set never meet; what is stored under a key   *)
(* is what the key's candles give; the defensive checks on stored sets     *)
(* never fire.                                                             *)
(***************************************************************************)
EXTENDS FeatureStore, FiniteSetTheorems, WellFoundedInduction, TLAPS

(***************************************************************************)
(* Slots in order.                                                         *)
(***************************************************************************)

\* A set of numbers has a least one.
LEMMA LeastSlot ==
    ASSUME NEW S \in SUBSET Nat, S # {}
    PROVE  \E m \in S : \A x \in S : m <= x
<1> DEFINE R == OpToRel(<, Nat)
<1>1. PICK m \in S : \A x \in S : ~ (<<x, m>> \in R)
  BY NatLessThanWellFounded, WFMin
<1>2. \A x \in S : x < m => <<x, m>> \in R
  BY DEF OpToRel
<1>3. \A x \in S : ~(x < m)
  BY <1>1, <1>2
<1> HIDE DEF R
<1>4. \A x \in S : m <= x
  BY <1>3, S \subseteq Nat
<1> QED BY <1>4

\* A set of numbers up to i has a greatest one.
LEMMA GreatestIndex ==
    ASSUME NEW i \in Nat, NEW S \in SUBSET (1..i), S # {}
    PROVE  \E m \in S : \A x \in S : x <= m
<1> DEFINE D == {d \in Nat : i - d \in S}
<1>1. D \subseteq Nat /\ D # {}
  <2>1. PICK x \in S : TRUE
    OBVIOUS
  <2>2. x \in 1..i
    BY <2>1
  <2>3. i - x \in Nat /\ i - (i - x) = x
    BY <2>2
  <2> QED BY <2>1, <2>3
<1> HIDE DEF D
<1>2. PICK d \in D : \A e \in D : d <= e
  BY <1>1, LeastSlot
<1>3. d \in Nat /\ i - d \in S
  BY DEF D
<1>4. ASSUME NEW x \in S PROVE x <= i - d
  <2>1. x \in 1..i
    OBVIOUS
  <2>2. i - x \in Nat /\ i - (i - x) = x
    BY <2>1
  <2>3. i - x \in D
    BY <2>2 DEF D
  <2>4. d <= i - x
    BY <1>2, <2>3
  <2> QED BY <1>3, <2>1, <2>4
<1> QED BY <1>3, <1>4

\* Ranks of the slots of a finite set are as the slots.
LEMMA RankGrows ==
    ASSUME NEW S \in SUBSET Nat, IsFiniteSet(S), NEW t \in S, NEW u \in S
    PROVE  /\ Rank(S, t) \in 1..Cardinality(S)
           /\ t < u => Rank(S, t) < Rank(S, u)
           /\ t = u <=> Rank(S, t) = Rank(S, u)
<1> DEFINE upTo(x) == {v \in S : v <= x}
<1>1. \A x \in S : /\ upTo(x) \subseteq S /\ x \in upTo(x)
                   /\ IsFiniteSet(upTo(x))
                   /\ Cardinality(upTo(x)) \in Nat
                   /\ Cardinality(upTo(x)) <= Cardinality(S)
  <2> TAKE x \in S
  <2>1. upTo(x) \subseteq S /\ x \in upTo(x)
    OBVIOUS
  <2> HIDE DEF upTo
  <2>2. /\ IsFiniteSet(upTo(x)) /\ Cardinality(upTo(x)) <= Cardinality(S)
    BY <2>1, FS_Subset
  <2> QED BY <2>1, <2>2, FS_CardinalityType
<1>2. Cardinality(S) \in Nat
  BY FS_CardinalityType
<1>3. \A x \in S : Cardinality(upTo(x)) \in 1..Cardinality(S)
  <2> TAKE x \in S
  <2> HIDE DEF upTo
  <2>1. Cardinality(upTo(x)) # 0
    BY <1>1, FS_EmptySet
  <2> QED BY <1>1, <1>2, <2>1
<1>4. ASSUME NEW x \in S, NEW y \in S, x < y
      PROVE  Cardinality(upTo(x)) < Cardinality(upTo(y))
  <2>1. upTo(x) \subseteq upTo(y) /\ y \in upTo(y) /\ y \notin upTo(x)
    <3>1. x \in Nat /\ y \in Nat /\ \A v \in S : v \in Nat
      OBVIOUS
    <3>2. \A v \in S : v <= x => v <= y
      BY <1>4, <3>1
    <3>3. ~(y <= x) /\ y <= y
      BY <1>4, <3>1
    <3> QED BY <3>2, <3>3
  <2>2. upTo(x) # upTo(y)
    BY <2>1
  <2> HIDE DEF upTo
  <2>3. /\ Cardinality(upTo(x)) <= Cardinality(upTo(y))
        /\ Cardinality(upTo(x)) # Cardinality(upTo(y))
    BY <1>1, <2>1, <2>2, FS_Subset
  <2> QED BY <1>1, <2>3
<1>5. \A x \in S : Rank(S, x) = Cardinality(upTo(x))
  BY DEF Rank
<1> HIDE DEF upTo
<1>6. \A x \in S : Rank(S, x) \in 1..Cardinality(S)
  BY <1>3, <1>5
<1>7. \A x, y \in S : x < y => Rank(S, x) < Rank(S, y)
  BY <1>4, <1>5
<1>8. t \in Nat /\ u \in Nat /\ Rank(S, t) \in Nat /\ Rank(S, u) \in Nat
  BY <1>2, <1>6
<1>9. Rank(S, t) = Rank(S, u) => t = u
  <2>1. t < u \/ t = u \/ u < t
    BY <1>8
  <2> QED BY <1>7, <1>8, <2>1
<1> QED BY <1>6, <1>7, <1>9

\* The sequence of a finite set's slots has each of them, in order of time.
LEMMA SlotsInOrder ==
    ASSUME NEW S \in SUBSET Nat, IsFiniteSet(S)
    PROVE  /\ Cardinality(S) \in Nat
           /\ DOMAIN InOrder(S) = 1..Cardinality(S)
           /\ \A n \in 1..Cardinality(S) : InOrder(S)[n] \in S
           /\ \A t \in S : \E n \in 1..Cardinality(S) : InOrder(S)[n] = t
           /\ \A n, m \in 1..Cardinality(S) :
                 n < m => InOrder(S)[n] < InOrder(S)[m]
<1> DEFINE N == Cardinality(S)
           rank == [t \in S |-> Rank(S, t)]
<1>1. N \in Nat /\ IsFiniteSet(1..N) /\ Cardinality(1..N) = N
  <2>1. N \in Nat
    BY FS_CardinalityType
  <2> HIDE DEF N
  <2> QED BY <2>1, FS_Interval
<1>2. rank \in Injection(S, 1..N)
  <2>1. \A t \in S : rank[t] \in 1..N
    BY RankGrows
  <2>2. \A t, u \in S : rank[t] = rank[u] => t = u
    BY RankGrows
  <2> QED BY <2>1, <2>2 DEF Injection, IsInjective
<1>3. rank \in Surjection(S, 1..N)
  <2> HIDE DEF rank
  <2> QED BY <1>1, <1>2, FS_Injection
<1>4. \A n \in 1..N : \E t \in S : Rank(S, t) = n
  <2> HIDE DEF N
  <2> QED BY <1>3 DEF Surjection
<1>5. \A n \in 1..N : InOrder(S)[n] \in S /\ Rank(S, InOrder(S)[n]) = n
  <2> TAKE n \in 1..N
  <2>1. InOrder(S)[n] = CHOOSE t \in S : Rank(S, t) = n
    BY DEF InOrder
  <2> HIDE DEF N
  <2> QED BY <1>4, <2>1
<1>6. ASSUME NEW t \in S PROVE \E n \in 1..N : InOrder(S)[n] = t
  <2>1. Rank(S, t) \in 1..N
    BY RankGrows
  <2>2. /\ InOrder(S)[Rank(S, t)] \in S
        /\ Rank(S, InOrder(S)[Rank(S, t)]) = Rank(S, t)
    BY <1>5, <2>1
  <2>3. InOrder(S)[Rank(S, t)] = t
    BY <2>2, RankGrows
  <2> QED BY <2>1, <2>3
<1>7. ASSUME NEW n \in 1..N, NEW m \in 1..N, n < m
      PROVE  InOrder(S)[n] < InOrder(S)[m]
  <2> DEFINE a == InOrder(S)[n]
             b == InOrder(S)[m]
  <2>1. a \in S /\ b \in S /\ Rank(S, a) = n /\ Rank(S, b) = m
    BY <1>5
  <2> HIDE DEF a, b, N
  <2>2. a \in Nat /\ b \in Nat
    BY <2>1
  <2>3. ~(b < a) /\ a # b
    BY <1>1, <1>7, <2>1, RankGrows
  <2>4. a < b
    BY <2>2, <2>3
  <2> QED BY <2>4 DEF a, b
<1>8. DOMAIN InOrder(S) = 1..N
  BY DEF InOrder
<1> QED BY <1>1, <1>5, <1>6, <1>7, <1>8

(***************************************************************************)
(* Segments.                                                               *)
(***************************************************************************)

\* Every candle has a segment, which begins at the last break up to it.
LEMMA SegmentBegins ==
    ASSUME NEW series, NEW i \in Nat, i >= 1
    PROVE  /\ Begin(series, i) \in 1..i
           /\ Breaks(series, Begin(series, i))
           /\ \A j \in (Begin(series, i) + 1)..i : ~Breaks(series, j)
<1> DEFINE B == {b \in 1..i : Breaks(series, b)}
<1>1. 1 \in B /\ B \subseteq 1..i
  BY DEF Breaks
<1> HIDE DEF B
<1>2. PICK m \in B : \A x \in B : x <= m
  BY <1>1, GreatestIndex
<1>3. m \in 1..i /\ Breaks(series, m)
  BY <1>1, <1>2 DEF B
<1>4. \A j \in (m + 1)..i : ~Breaks(series, j)
  <2> TAKE j \in (m + 1)..i
  <2>1. j \in 1..i /\ ~(j <= m)
    BY <1>3
  <2>2. j \notin B
    BY <1>2, <2>1
  <2> QED BY <2>1, <2>2 DEF B
<1> QED BY <1>3, <1>4 DEF Begin

\* The unbroken run of a set's slots up to one.
RunIn(S, t) == {u \in 0..t : \A v \in u..t : v \in S}

\* A candle's segment up to it is the unbroken run of slots that it ends.
LEMMA SegmentIsRun ==
    ASSUME NEW S \in SUBSET Nat, IsFiniteSet(S),
           NEW i \in 1..Cardinality(S)
    PROVE  LET series == InOrder(S)
               b == Begin(series, i)
           IN  /\ {series[j] : j \in b..i} = RunIn(S, series[i])
               /\ RunIn(S, series[i]) = series[b]..series[i]
               /\ series[i] - series[b] = i - b
               /\ b \in 1..i /\ series[b] \in S /\ series[i] \in S
               /\ b > 1 => \E u \in S : u < series[b]
               /\ series[1] \in S /\ series[1] <= series[b]
<1> DEFINE N == Cardinality(S)
           series == InOrder(S)
           b == Begin(series, i)
<1>1. /\ N \in Nat
      /\ \A n \in 1..N : series[n] \in S /\ series[n] \in Nat
      /\ \A t \in S : \E n \in 1..N : series[n] = t
      /\ \A n, m \in 1..N : n < m => series[n] < series[m]
  BY SlotsInOrder
<1>2. i \in Nat /\ 1 <= i /\ i <= N
  BY <1>1
<1>3. /\ b \in 1..i /\ b \in 1..N /\ Breaks(series, b)
      /\ \A j \in (b + 1)..i : ~Breaks(series, j)
  <2> HIDE DEF series
  <2>1. /\ b \in 1..i /\ Breaks(series, b)
        /\ \A j \in (b + 1)..i : ~Breaks(series, j)
    BY <1>2, SegmentBegins
  <2> HIDE DEF b
  <2> QED BY <1>1, <1>2, <2>1
<1> HIDE DEF N, series, b
<1>4. \A j \in b..i : series[j] = series[i] - (i - j)
  <2> DEFINE Bad == {j \in 1..i : b <= j /\ series[j] # series[i] - (i - j)}
  <2>1. SUFFICES ASSUME Bad # {} PROVE FALSE
    <3> SUFFICES ASSUME NEW j \in b..i, Bad = {}
                 PROVE  series[j] = series[i] - (i - j)
      BY <2>1
    <3>1. j \in 1..i /\ b <= j
      BY <1>2, <1>3
    <3> QED BY <3>1
  <2>2. Bad \subseteq 1..i
    OBVIOUS
  <2> HIDE DEF Bad
  <2>3. PICK k \in Bad : \A x \in Bad : x <= k
    BY <1>2, <2>1, <2>2, GreatestIndex
  <2>4. k \in 1..i /\ b <= k /\ series[k] # series[i] - (i - k)
    BY <2>3 DEF Bad
  <2>5. k # i
    <3>1. series[i] \in Nat
      BY <1>1, <1>2
    <3>2. series[i] = series[i] - (i - i)
      BY <1>2, <3>1
    <3> QED BY <2>4, <3>2
  <2>6. /\ k + 1 \in 1..i /\ k + 1 \in (b + 1)..i /\ k \in 1..N /\ k + 1 \in 1..N
        /\ k + 1 # 1 /\ (k + 1) - 1 = k
    BY <1>1, <1>2, <1>3, <2>4, <2>5
  <2>7. series[k + 1] = series[k] + 1
    BY <1>3, <2>6 DEF Breaks
  <2>8. series[k + 1] = series[i] - (i - (k + 1))
    <3>1. k + 1 \notin Bad
      BY <2>3, <2>4
    <3>2. b <= k + 1
      BY <1>3, <2>4
    <3> QED BY <2>6, <3>1, <3>2 DEF Bad
  <2>9. series[k] \in Nat /\ series[i] \in Nat
    BY <1>1, <1>2, <2>6
  <2> QED BY <1>2, <2>4, <2>7, <2>8, <2>9
<1>5. /\ series[b] \in S /\ series[b] \in Nat /\ series[i] \in S /\ series[i] \in Nat
      /\ series[i] - series[b] = i - b
  <2>1. series[b] \in S /\ series[b] \in Nat /\ series[i] \in S /\ series[i] \in Nat
    BY <1>1, <1>2, <1>3
  <2>2. series[b] = series[i] - (i - b)
    BY <1>2, <1>3, <1>4
  <2> QED BY <1>2, <1>3, <2>1, <2>2
<1>6. {series[j] : j \in b..i} = series[b]..series[i]
  <2>1. ASSUME NEW j \in b..i PROVE series[j] \in series[b]..series[i]
    <3>1. series[j] = series[i] - (i - j) /\ j \in Nat /\ b <= j /\ j <= i
      BY <1>2, <1>3, <1>4
    <3> QED BY <1>2, <1>3, <1>5, <3>1
  <2>2. ASSUME NEW u \in series[b]..series[i]
        PROVE  \E j \in b..i : series[j] = u
    <3> DEFINE j == i - (series[i] - u)
    <3>1. j \in b..i /\ series[i] - (i - j) = u
      BY <1>2, <1>3, <1>5
    <3> HIDE DEF j
    <3> QED BY <1>4, <3>1
  <2> QED BY <2>1, <2>2
<1>7. \A u \in series[b]..series[i] : u \in S
  <2> TAKE u \in series[b]..series[i]
  <2>1. PICK j \in b..i : series[j] = u
    BY <1>6
  <2>2. j \in 1..N
    BY <1>2, <1>3, <1>1
  <2> QED BY <1>1, <2>1, <2>2
<1>8. b > 1 => series[b] - 1 \notin S /\ \E u \in S : u < series[b]
  <2> SUFFICES ASSUME b > 1
               PROVE  series[b] - 1 \notin S /\ \E u \in S : u < series[b]
    OBVIOUS
  <2>1. b - 1 \in 1..N /\ b - 1 < b /\ b # 1 /\ b \in Nat
    BY <1>1, <1>3
  <2>2. /\ series[b - 1] \in S /\ series[b - 1] \in Nat
        /\ series[b - 1] < series[b] /\ series[b] # series[b - 1] + 1
    BY <1>1, <1>3, <2>1 DEF Breaks
  <2>3. ASSUME series[b] - 1 \in S PROVE FALSE
    <3>1. PICK n \in 1..N : series[n] = series[b] - 1
      BY <1>1, <2>3
    <3>2. n \in Nat /\ ~(b < n) /\ n # b
      BY <1>1, <1>3, <1>5, <3>1
    <3>3. n = b - 1 \/ n < b - 1
      BY <2>1, <3>2
    <3>4. CASE n = b - 1
      BY <1>5, <2>2, <3>1, <3>4
    <3>5. CASE n < b - 1
      <4>1. series[n] < series[b - 1]
        BY <1>1, <2>1, <3>5
      <4> QED BY <1>5, <2>2, <3>1, <4>1
    <3> QED BY <3>3, <3>4, <3>5
  <2> QED BY <2>2, <2>3
<1>9. series[1] \in S /\ series[1] \in Nat /\ series[1] <= series[b]
  <2>1. 1 \in 1..N
    BY <1>1, <1>2
  <2>2. b = 1 \/ 1 < b
    BY <1>3
  <2> QED BY <1>1, <1>3, <2>1, <2>2
<1>10. RunIn(S, series[i]) = series[b]..series[i]
  <2>1. ASSUME NEW u \in series[b]..series[i]
        PROVE  u \in RunIn(S, series[i])
    <3>1. u \in 0..series[i]
      BY <1>5
    <3>2. \A v \in u..series[i] : v \in series[b]..series[i]
      BY <1>5
    <3> QED BY <1>7, <3>1, <3>2 DEF RunIn
  <2>2. ASSUME NEW u \in RunIn(S, series[i])
        PROVE  u \in series[b]..series[i]
    <3>1. u \in 0..series[i] /\ \A v \in u..series[i] : v \in S
      BY DEF RunIn
    <3>2. CASE series[b] <= u
      BY <1>5, <3>1, <3>2
    <3>3. CASE u < series[b]
      <4>1. series[b] - 1 \in u..series[i]
        BY <1>2, <1>3, <1>5, <3>1, <3>3
      <4>2. b = 1
        BY <1>3, <1>8, <3>1, <4>1
      <4>3. u \in S /\ u \in Nat
        <5>1. u \in u..series[i]
          BY <1>5, <3>1
        <5> QED BY <3>1, <5>1
      <4>4. PICK n \in 1..N : series[n] = u
        BY <1>1, <4>3
      <4>5. n = b \/ b < n
        BY <1>1, <4>2
      <4> QED BY <1>1, <1>3, <1>5, <3>3, <4>3, <4>4, <4>5
    <3> QED BY <1>5, <3>1, <3>2, <3>3
  <2> QED BY <2>1, <2>2
<1> QED BY <1>3, <1>5, <1>6, <1>8, <1>9, <1>10 DEF series, b

(***************************************************************************)
(* Rows.                                                                   *)
(***************************************************************************)

\* The row of a slot, said of the unbroken run that ends with it.
RunRow(s, t, run, first) ==
    [symbol |-> s, slot |-> t, inputs |-> run,
     withheld |-> IF Cardinality(run) > Lookback THEN "no"
                  ELSE IF first \in run THEN "WARMUP" ELSE "GAP_WARMUP",
     gapBefore |-> first \notin run /\ Cardinality(run) = 1]

\* What the engine makes of a candle is the row of its run: where segments
\* begin, and whether they follow a gap, depends on no later candle and on no
\* earlier one but those of the run.
LEMMA RowOfRun ==
    ASSUME NEW S \in SUBSET Nat, IsFiniteSet(S), NEW i \in 1..Cardinality(S),
           NEW first \in Nat, \A t \in S : first <= t, NEW s
    PROVE  /\ InOrder(S)[i] \in S
           /\ RowOf(s, InOrder(S), i, first) =
                RunRow(s, InOrder(S)[i], RunIn(S, InOrder(S)[i]), first)
<1> DEFINE series == InOrder(S)
           b == Begin(series, i)
           run == RunIn(S, series[i])
           gap == AfterGap(series, b, first)
<1>1. /\ {series[j] : j \in b..i} = run
      /\ run = series[b]..series[i]
      /\ series[i] - series[b] = i - b
      /\ b \in 1..i /\ series[b] \in S /\ series[i] \in S
      /\ b > 1 => \E u \in S : u < series[b]
      /\ series[1] \in S /\ series[1] <= series[b]
  BY SegmentIsRun
<1>2. Cardinality(S) \in Nat /\ i \in Nat /\ 1 <= i
  <2>1. Cardinality(S) \in Nat
    BY FS_CardinalityType
  <2> QED BY <2>1
<1> HIDE DEF series, b, run, gap
<1>3. /\ series[b] \in Nat /\ series[i] \in Nat /\ series[1] \in Nat
      /\ b \in Nat /\ 1 <= b /\ b <= i
  BY <1>1, <1>2
<1>4. Cardinality(run) = i - b + 1
  <2> DEFINE p == series[b]
             q == series[i]
             c == Cardinality(p..q)
  <2>1. p \in Int /\ q \in Int /\ p <= q /\ q - p = i - b
    BY <1>1, <1>3
  <2>2. run = p..q
    BY <1>1
  <2> HIDE DEF p, q
  <2>3. c = q - p + 1
    <3>1. c = IF p > q THEN 0 ELSE q - p + 1
      BY <2>1, FS_Interval
    <3> HIDE DEF c
    <3> QED BY <2>1, <3>1
  <2> HIDE DEF c
  <2>4. c = i - b + 1
    BY <1>3, <1>2, <2>1, <2>3
  <2> QED BY <2>2, <2>4 DEF c
<1>5. gap <=> first \notin run
  <2>1. first <= series[1] /\ first <= series[b]
    BY <1>1
  <2>2. ASSUME gap, first \in run PROVE FALSE
    <3>1. series[b] = first /\ series[1] = first
      BY <1>1, <1>3, <2>1, <2>2
    <3>2. b > 1 \/ series[1] # first
      BY <2>2 DEF gap, AfterGap
    <3>3. PICK u \in S : u < series[b]
      BY <1>1, <3>1, <3>2
    <3> QED BY <3>1, <3>3
  <2>3. ASSUME ~gap PROVE first \in run
    <3>1. b = 1 /\ series[1] = first
      BY <1>3, <2>3 DEF gap, AfterGap
    <3>2. series[b] <= series[i]
      BY <1>1, <1>3
    <3> QED BY <1>1, <1>3, <3>1, <3>2
  <2> QED BY <2>2, <2>3
<1>6. Lookback \in Nat
  BY LookbackAssumption
<1>7. /\ Cardinality(run) > Lookback <=> i - b >= Lookback
      /\ Cardinality(run) > Lookback <=> ~(i - b < Lookback)
      /\ Cardinality(run) = 1 <=> i = b
      /\ (i - b >= Lookback) <=> ~(i - b < Lookback)
  <2> DEFINE c == Cardinality(run)
  <2> HIDE DEF c
  <2>1. c = i - b + 1
    BY <1>4 DEF c
  <2>2. /\ c > Lookback <=> i - b >= Lookback
        /\ c > Lookback <=> ~(i - b < Lookback)
        /\ c = 1 <=> i = b
        /\ (i - b >= Lookback) <=> ~(i - b < Lookback)
    BY <1>3, <1>2, <1>6, <2>1
  <2> QED BY <2>2 DEF c
<1> DEFINE long == i - b >= Lookback
           short == i - b < Lookback
           row(w) == [symbol |-> s, slot |-> series[i],
                      inputs |-> run, withheld |-> w,
                      gapBefore |-> gap /\ i = b]
<1>8. RowOf(s, series, i, first) =
        row(CASE long -> "no" [] short /\ gap -> "GAP_WARMUP"
              [] short /\ ~gap -> "WARMUP")
  BY <1>1 DEF RowOf, b, gap
<1>9. RunRow(s, series[i], run, first) =
        row(IF long THEN "no" ELSE IF ~gap THEN "WARMUP" ELSE "GAP_WARMUP")
  BY <1>5, <1>7 DEF RunRow
<1>10. (CASE long -> "no" [] short /\ gap -> "GAP_WARMUP"
          [] short /\ ~gap -> "WARMUP")
        = IF long THEN "no" ELSE IF ~gap THEN "WARMUP" ELSE "GAP_WARMUP"
  <2>1. long <=> ~short
    BY <1>7
  <2> HIDE DEF long, short
  <2>2. CASE long
    BY <2>1, <2>2
  <2>3. CASE ~long /\ gap
    BY <2>1, <2>3
  <2>4. CASE ~long /\ ~gap
    BY <2>1, <2>4
  <2> QED BY <2>2, <2>3, <2>4
<1>11. RowOf(s, series, i, first) = RunRow(s, series[i], run, first)
  <2> HIDE DEF long, short, row
  <2> QED BY <1>8, <1>9, <1>10
<1> QED BY <1>1, <1>11 DEF series, run

\* Candles are pairs of a symbol and a slot.
LEMMA SlotsFinite ==
    ASSUME NEW X, NEW candles \in SUBSET (X \X Nat), IsFiniteSet(candles), NEW s
    PROVE  /\ SlotsOf(candles, s) \in SUBSET Nat
           /\ IsFiniteSet(SlotsOf(candles, s))
           /\ \A t : t \in SlotsOf(candles, s) <=> <<s, t>> \in candles
<1> DEFINE own == {c \in candles : c[1] = s}
           f == [c \in own |-> c[2]]
<1>1. \A c \in candles : c = <<c[1], c[2]>> /\ c[2] \in Nat
  OBVIOUS
<1>2. IsFiniteSet(own)
  BY FS_Subset
<1>3. SlotsOf(candles, s) = {c[2] : c \in own}
  BY DEF SlotsOf
<1>4. f \in Surjection(own, SlotsOf(candles, s))
  BY <1>3 DEF Surjection
<1>5. IsFiniteSet(SlotsOf(candles, s))
  <2> HIDE DEF own, f
  <2> QED BY <1>2, <1>4, FS_Surjection
<1>6. \A t : t \in SlotsOf(candles, s) <=> <<s, t>> \in candles
  <2> TAKE t
  <2>1. ASSUME t \in SlotsOf(candles, s) PROVE <<s, t>> \in candles
    <3>1. PICK c \in own : t = c[2]
      BY <1>3, <2>1
    <3> QED BY <1>1, <3>1
  <2>2. ASSUME <<s, t>> \in candles PROVE t \in SlotsOf(candles, s)
    <3>1. <<s, t>> \in own /\ <<s, t>>[2] = t
      BY <2>2
    <3> QED BY <1>3, <3>1
  <2> QED BY <2>1, <2>2
<1> QED BY <1>1, <1>3, <1>5, <1>6

\* The rows of a set of candles are the rows of their runs.
LEMMA RowsOfRuns ==
    ASSUME NEW X, NEW candles \in SUBSET (X \X Nat), IsFiniteSet(candles),
           NEW first \in Nat, \A c \in candles : first <= c[2]
    PROVE  /\ RowsOf(candles, first) =
                {RunRow(c[1], c[2], RunIn(SlotsOf(candles, c[1]), c[2]), first) :
                   c \in candles}
           /\ IsFiniteSet(RowsOf(candles, first))
<1> DEFINE S(s) == SlotsOf(candles, s)
           made(c) == RunRow(c[1], c[2], RunIn(S(c[1]), c[2]), first)
           f == [c \in candles |-> made(c)]
<1>1. \A s : /\ S(s) \in SUBSET Nat /\ IsFiniteSet(S(s))
             /\ \A t : t \in S(s) <=> <<s, t>> \in candles
             /\ \A t \in S(s) : first <= t
  <2> TAKE s
  <2>1. /\ S(s) \in SUBSET Nat /\ IsFiniteSet(S(s))
        /\ \A t : t \in S(s) <=> <<s, t>> \in candles
    BY SlotsFinite
  <2>2. ASSUME NEW t \in S(s) PROVE first <= t
    <3>1. <<s, t>> \in candles /\ <<s, t>>[2] = t
      BY <2>1
    <3> QED BY <3>1
  <2> QED BY <2>1, <2>2
<1>2. \A c \in candles : c = <<c[1], c[2]>>
  OBVIOUS
<1>3. \A s : /\ DOMAIN InOrder(S(s)) = 1..Cardinality(S(s))
             /\ \A t \in S(s) : \E n \in 1..Cardinality(S(s)) : InOrder(S(s))[n] = t
  BY <1>1, SlotsInOrder
<1>4. \A s : \A i \in DOMAIN InOrder(S(s)) :
         /\ InOrder(S(s))[i] \in S(s)
         /\ RowOf(s, InOrder(S(s)), i, first) =
              RunRow(s, InOrder(S(s))[i], RunIn(S(s), InOrder(S(s))[i]), first)
  <2> TAKE s
  <2> TAKE i \in DOMAIN InOrder(S(s))
  <2>1. i \in 1..Cardinality(S(s))
    BY <1>3
  <2> QED BY <1>1, <2>1, RowOfRun
<1> HIDE DEF S
<1>5. RowsOf(candles, first) =
        UNION {{RowOf(s, InOrder(S(s)), i, first) : i \in DOMAIN InOrder(S(s))} :
                 s \in {c[1] : c \in candles}}
  BY DEF RowsOf, SeriesOf, S
<1>6. ASSUME NEW row \in RowsOf(candles, first)
      PROVE  \E c \in candles : row = made(c)
  <2>1. PICK s \in {c[1] : c \in candles} :
           \E i \in DOMAIN InOrder(S(s)) : row = RowOf(s, InOrder(S(s)), i, first)
    BY <1>5
  <2>2. PICK i \in DOMAIN InOrder(S(s)) : row = RowOf(s, InOrder(S(s)), i, first)
    BY <2>1
  <2>3. <<s, InOrder(S(s))[i]>> \in candles
    BY <1>1, <1>4
  <2>4. row = RunRow(s, InOrder(S(s))[i], RunIn(S(s), InOrder(S(s))[i]), first)
    BY <1>4, <2>2
  <2> DEFINE c == <<s, InOrder(S(s))[i]>>
  <2>5. c[1] = s /\ c[2] = InOrder(S(s))[i]
    OBVIOUS
  <2> QED BY <2>3, <2>4, <2>5
<1>7. ASSUME NEW c \in candles
      PROVE  made(c) \in RowsOf(candles, first)
  <2> DEFINE s == c[1]
  <2>1. c[2] \in S(s)
    BY <1>1, <1>2
  <2>2. PICK i \in DOMAIN InOrder(S(s)) : InOrder(S(s))[i] = c[2]
    BY <1>3, <2>1
  <2>3. RowOf(s, InOrder(S(s)), i, first) = made(c)
    BY <1>4, <2>2
  <2>4. s \in {d[1] : d \in candles}
    OBVIOUS
  <2> HIDE DEF made, s
  <2> QED BY <1>5, <2>2, <2>3, <2>4
<1>8. RowsOf(candles, first) = {made(c) : c \in candles}
  <2> HIDE DEF made
  <2> QED BY <1>6, <1>7
<1>9. f \in Surjection(candles, RowsOf(candles, first))
  <2> HIDE DEF made
  <2> QED BY <1>8 DEF Surjection
<1>10. IsFiniteSet(RowsOf(candles, first))
  <2> HIDE DEF f
  <2> QED BY <1>9, FS_Surjection
<1> QED BY <1>8, <1>10 DEF S

(***************************************************************************)
(* Keys and what is stored under them.                                     *)
(***************************************************************************)

\* A key of a snapshot: there are candles, and they lie in its range.
WellKeyed(k) ==
    /\ k \in Keys /\ k.candles # {}
    /\ \A c \in k.candles : k.request[1] <= c[2] /\ c[2] <= k.request[2]

RowsUnder(k) == Computed(k.request, k.candles)

\* A key's rows are finitely many, one for each candle.
LEMMA RowsUnderKey ==
    ASSUME NEW k, WellKeyed(k)
    PROVE  /\ RowsUnder(k) =
                {RunRow(c[1], c[2], RunIn(SlotsOf(k.candles, c[1]), c[2]),
                        k.request[1]) : c \in k.candles}
           /\ IsFiniteSet(RowsUnder(k))
           /\ IsFiniteSet(k.candles) /\ k.candles \in SUBSET (Symbols \X Nat)
           /\ k.request[1] \in Nat /\ k.request[2] \in Nat
           /\ RowsUnder(k) \subseteq Rows /\ RowsUnder(k) # {}
<1>1. AllWanted \in SUBSET (Symbols \X Nat) /\ IsFiniteSet(AllWanted)
  BY StoreAssumption DEF AllWanted
<1>2. k.candles \in SUBSET (Symbols \X Nat) /\ IsFiniteSet(k.candles)
  <2>1. k.candles \subseteq AllWanted
    BY DEF WellKeyed, Keys
  <2> QED BY <1>1, <2>1, FS_Subset
<1>3. /\ k.request[1] \in Nat /\ k.request[2] \in Nat
      /\ \A c \in k.candles : k.request[1] <= c[2]
  BY StoreAssumption DEF WellKeyed, Keys
<1> DEFINE candles == k.candles
           first == k.request[1]
<1>4. RowsUnder(k) = RowsOf(candles, first)
  BY DEF RowsUnder, Computed
<1> HIDE DEF candles, first
<1>5. /\ candles \in SUBSET (Symbols \X Nat) /\ IsFiniteSet(candles)
      /\ first \in Nat /\ \A c \in candles : first <= c[2]
  BY <1>2, <1>3 DEF candles, first
<1>6. /\ RowsOf(candles, first) =
           {RunRow(c[1], c[2], RunIn(SlotsOf(candles, c[1]), c[2]), first) :
              c \in candles}
      /\ IsFiniteSet(RowsOf(candles, first))
  BY <1>5, RowsOfRuns
<1>7. ASSUME NEW c \in candles
      PROVE  RunRow(c[1], c[2], RunIn(SlotsOf(candles, c[1]), c[2]), first) \in Rows
  <2>1. c[1] \in Symbols /\ c[2] \in Nat
    BY <1>5
  <2>2. RunIn(SlotsOf(candles, c[1]), c[2]) \subseteq Nat
    BY DEF RunIn
  <2> HIDE DEF candles, first
  <2> QED BY <2>1, <2>2 DEF RunRow, Rows
<1>8. candles # {}
  BY DEF candles, WellKeyed
<1>9. RowsOf(candles, first) \subseteq Rows /\ RowsOf(candles, first) # {}
  BY <1>6, <1>7, <1>8
<1> QED BY <1>2, <1>3, <1>4, <1>6, <1>9 DEF candles, first

(***************************************************************************)
(* The invariant.                                                          *)
(***************************************************************************)

HasSet(table, k) == \E s \in table : s.key = k

\* Every candle comes from an import that has announced itself.
Announcements ==
    /\ \A c \in AllWanted : store[c] \in identities \cup {Nobody}
    /\ \A r \in Imports : pc[r] = "import" => r \in identities

\* The tables hold whole sets of rows, each computed from its key's candles.
Tables(table, entries) ==
    /\ \A s \in table :
          /\ WellKeyed(s.key) /\ s.count = Cardinality(RowsUnder(s.key))
          /\ \A row \in RowsUnder(s.key) : [key |-> s.key, row |-> row] \in entries
    /\ \A v \in entries :
          /\ HasSet(table, v.key) /\ v.row \in RowsUnder(v.key)
          /\ v = [key |-> v.key, row |-> v.row]

\* A generator has the rows of its key; between its two looks at the key none
\* can have been stored, since no other has locked it.
Saving(place, k, computed, table) ==
    /\ place \in {"save", "check", "insert", "inserted", "reused"} =>
          WellKeyed(k) /\ computed = RowsUnder(k)
    /\ place = "insert" => ~HasSet(table, k)
    /\ place \in {"inserted", "reused"} => HasSet(table, k)

Locked(place) == place \in {"check", "insert"}

\* A backtest that has found its key keeps finding it, and has computed what
\* the key stands for.
Loading(place, k, computed, asked, table) ==
    /\ place = "manifest" => WellKeyed(k)
    /\ place \in {"snapshot"} \cup Symbols => WellKeyed(k) /\ HasSet(table, k)
    /\ place \in Symbols => computed = RowsUnder(k) /\ k.request = asked

Never == {"unidentified", "incomplete", "disagrees"}

StoreInv ==
    /\ pc \in [Imports \cup Processes -> Places \cup Symbols \cup Outcomes]
    /\ store \in [AllWanted -> Imports \cup {Nobody}]
    /\ identities \subseteq Imports
    /\ \A p \in Processes : rows[p] \subseteq Rows
    /\ key = [p \in Processes |-> key[p]] /\ rows = [p \in Processes |-> rows[p]]
    /\ Announcements
    /\ Tables(sets, values)
    /\ \A p \in Processes : key[p] = NoKey \/ WellKeyed(key[p])
    /\ \A g \in Generators : Saving(pc[g], key[g], rows[g], sets)
    /\ \A g, h \in Generators :
          g # h /\ Locked(pc[g]) /\ Locked(pc[h]) => key[g] # key[h]
    /\ \A l \in Loaders : Loading(pc[l], key[l], rows[l], Asked[l], sets)
    /\ \A p \in Processes : pc[p] \notin Never

\* Nothing is stored and nobody has begun.
LEMMA StoreStarts == Init => StoreInv
<1> SUFFICES ASSUME Init PROVE StoreInv
  OBVIOUS
<1>1. /\ \A p \in Imports \cup Processes : pc[p] = "start"
      /\ \A c \in AllWanted : store[c] = Nobody
      /\ \A p \in Processes : key[p] = NoKey
      /\ sets = {} /\ values = {}
  BY DEF Init
<1>2. "start" \notin Symbols
  BY StoreAssumption DEF Places
<1>3. pc \in [Imports \cup Processes -> Places \cup Symbols \cup Outcomes]
  BY DEF Init, Places
<1>4. /\ store \in [AllWanted -> Imports \cup {Nobody}]
      /\ key = [p \in Processes |-> key[p]] /\ rows = [p \in Processes |-> rows[p]]
  BY DEF Init
<1>5. identities \subseteq Imports /\ \A p \in Processes : rows[p] \subseteq Rows
  BY DEF Init
<1>6. Announcements /\ Tables(sets, values)
  BY <1>1 DEF Announcements, Tables
<1>7. \A p \in Processes : pc[p] \notin Never /\ ~Locked(pc[p])
  BY <1>1 DEF Never, Locked
<1>8. \A g \in Generators : Saving(pc[g], key[g], rows[g], sets)
  BY <1>1 DEF Saving, Processes
<1>9. \A l \in Loaders : Loading(pc[l], key[l], rows[l], Asked[l], sets)
  BY <1>1, <1>2 DEF Loading, Processes
<1> QED BY <1>1, <1>3, <1>4, <1>5, <1>6, <1>7, <1>8, <1>9 DEF StoreInv, Processes

\* A process that moves on, with a key and rows that its new place allows,
\* while the database stays as it is.
LEMMA ProcessMoves ==
    ASSUME StoreInv, NEW p \in Processes, NEW next, NEW k, NEW computed,
           pc' = [pc EXCEPT ![p] = next],
           key' = [key EXCEPT ![p] = k], rows' = [rows EXCEPT ![p] = computed],
           UNCHANGED <<store, identities, sets, values>>,
           next \in (Places \cup Symbols \cup Outcomes) \ Never,
           k = NoKey \/ WellKeyed(k), computed \subseteq Rows,
           p \in Generators => Saving(next, k, computed, sets),
           p \in Generators /\ Locked(next) =>
              \A h \in Generators : h # p /\ Locked(pc[h]) => key[h] # k,
           p \in Loaders => Loading(next, k, computed, Asked[p], sets)
    PROVE  StoreInv'
<1>1. /\ pc \in [Imports \cup Processes -> Places \cup Symbols \cup Outcomes]
      /\ key = [q \in Processes |-> key[q]] /\ rows = [q \in Processes |-> rows[q]]
  BY DEF StoreInv
<1>2. /\ pc' \in [Imports \cup Processes -> Places \cup Symbols \cup Outcomes]
      /\ \A q \in Imports \cup Processes : pc'[q] = IF q = p THEN next ELSE pc[q]
  BY <1>1
<1>3. /\ key' = [q \in Processes |-> key'[q]]
      /\ \A q \in Processes : key'[q] = IF q = p THEN k ELSE key[q]
  <2>1. key' = [q \in Processes |-> IF q = p THEN k ELSE key[q]]
    BY <1>1
  <2> QED BY <2>1
<1>4. /\ rows' = [q \in Processes |-> rows'[q]]
      /\ \A q \in Processes : rows'[q] = IF q = p THEN computed ELSE rows[q]
  <2>1. rows' = [q \in Processes |-> IF q = p THEN computed ELSE rows[q]]
    BY <1>1
  <2> QED BY <2>1
<1>5. Generators \subseteq Processes /\ Loaders \subseteq Processes
      /\ \A r \in Imports : r # p
  BY StoreAssumption DEF Processes
<1>6. Announcements'
  BY <1>2, <1>5 DEF StoreInv, Announcements
<1>7. \A g \in Generators : Saving(pc'[g], key'[g], rows'[g], sets')
  BY <1>2, <1>3, <1>4, <1>5 DEF StoreInv
<1>8. \A l \in Loaders : Loading(pc'[l], key'[l], rows'[l], Asked[l], sets')
  BY <1>2, <1>3, <1>4, <1>5 DEF StoreInv
<1>9. ASSUME NEW g \in Generators, NEW h \in Generators, g # h,
             Locked(pc'[g]), Locked(pc'[h])
      PROVE  key'[g] # key'[h]
  <2>1. CASE g = p
    BY <1>2, <1>3, <1>5, <1>9, <2>1
  <2>2. CASE h = p
    BY <1>2, <1>3, <1>5, <1>9, <2>2
  <2>3. CASE g # p /\ h # p
    BY <1>2, <1>3, <1>5, <1>9, <2>3 DEF StoreInv
  <2> QED BY <2>1, <2>2, <2>3
<1>10. \A q \in Processes : /\ pc'[q] \notin Never
                            /\ key'[q] = NoKey \/ WellKeyed(key'[q])
  BY <1>2, <1>3 DEF StoreInv
<1>11. /\ Tables(sets', values') /\ store' \in [AllWanted -> Imports \cup {Nobody}]
       /\ identities' \subseteq Imports
  BY DEF StoreInv
<1>12. \A q \in Processes : rows'[q] \subseteq Rows
  BY <1>4 DEF StoreInv
<1> QED BY <1>2, <1>3, <1>4, <1>6, <1>7, <1>8, <1>9, <1>10, <1>11, <1>12 DEF StoreInv

\* The same for a process that only moves on.
LEMMA ProcessGoes ==
    ASSUME StoreInv, NEW p \in Processes, NEW next, Goto(p, next),
           UNCHANGED <<store, identities, sets, values, key, rows>>,
           next \in (Places \cup Symbols \cup Outcomes) \ Never,
           p \in Generators => Saving(next, key[p], rows[p], sets),
           p \in Generators /\ Locked(next) =>
              \A h \in Generators : h # p /\ Locked(pc[h]) => key[h] # key[p],
           p \in Loaders => Loading(next, key[p], rows[p], Asked[p], sets)
    PROVE  StoreInv'
<1>1. key' = [key EXCEPT ![p] = key[p]] /\ rows' = [rows EXCEPT ![p] = rows[p]]
  <2>1. key = [q \in Processes |-> key[q]] /\ rows = [q \in Processes |-> rows[q]]
    BY DEF StoreInv
  <2>2. key = [key EXCEPT ![p] = key[p]] /\ rows = [rows EXCEPT ![p] = rows[p]]
    BY <2>1
  <2> QED BY <2>2
<1>2. pc' = [pc EXCEPT ![p] = next]
  BY DEF Goto
<1>3. (key[p] = NoKey \/ WellKeyed(key[p])) /\ rows[p] \subseteq Rows
  BY DEF StoreInv
<1> QED BY <1>1, <1>2, <1>3, ProcessMoves

(***************************************************************************)
(* Imports and snapshots.                                                  *)
(***************************************************************************)

\* Imports leave processes and the tables of features alone.
LEMMA ImportsKeep ==
    ASSUME StoreInv, NEW r \in Imports, BeginImport(r) \/ EndImport(r)
    PROVE  StoreInv'
<1> DEFINE next == IF BeginImport(r) THEN "import" ELSE "done"
<1>1. /\ pc \in [Imports \cup Processes -> Places \cup Symbols \cup Outcomes]
      /\ UNCHANGED <<sets, values, key, rows>>
      /\ \E place \in {"import", "done"} : Goto(r, place)
  BY DEF StoreInv, BeginImport, EndImport
<1>2. /\ pc' \in [Imports \cup Processes -> Places \cup Symbols \cup Outcomes]
      /\ \A q \in Imports \cup Processes : q # r => pc'[q] = pc[q]
  BY <1>1 DEF Goto, Places, Outcomes
<1>3. /\ Generators \subseteq Processes /\ Loaders \subseteq Processes
      /\ \A p \in Processes : pc'[p] = pc[p]
  BY <1>2, StoreAssumption DEF Processes
<1>4. /\ store' \in [AllWanted -> Imports \cup {Nobody}]
      /\ Announcements' /\ identities' \subseteq Imports
  <2>1. CASE BeginImport(r)
    <3>1. /\ identities' = identities \cup {r} /\ store' = store
          /\ pc' = [pc EXCEPT ![r] = "import"]
      BY <2>1 DEF BeginImport, Announced, Goto
    <3> QED BY <1>1, <3>1 DEF StoreInv, Announcements
  <2>2. CASE EndImport(r)
    <3>1. /\ identities' = identities /\ pc[r] = "import"
          /\ pc' = [pc EXCEPT ![r] = "done"]
      BY <2>2 DEF EndImport, Goto
    <3>2. PICK new \in SUBSET (Wanted[r] \ Stored) :
             store' = [c \in DOMAIN store |-> IF c \in new THEN r ELSE store[c]]
      BY <2>2 DEF EndImport
    <3>3. store' \in [AllWanted -> Imports \cup {Nobody}]
          /\ \A c \in AllWanted : store'[c] \in {r, store[c]}
      BY <3>2 DEF StoreInv
    <3> QED BY <1>1, <3>1, <3>3 DEF StoreInv, Announcements
  <2> QED BY <2>1, <2>2
<1>5. /\ \A g \in Generators : Saving(pc'[g], key'[g], rows'[g], sets')
      /\ \A l \in Loaders : Loading(pc'[l], key'[l], rows'[l], Asked[l], sets')
  BY <1>1, <1>3 DEF StoreInv
<1>6. \A g, h \in Generators :
         g # h /\ Locked(pc'[g]) /\ Locked(pc'[h]) => key'[g] # key'[h]
  BY <1>1, <1>3 DEF StoreInv
<1>7. /\ key' = [p \in Processes |-> key'[p]] /\ rows' = [p \in Processes |-> rows'[p]]
      /\ Tables(sets', values')
      /\ \A p \in Processes : key'[p] = NoKey \/ WellKeyed(key'[p])
  BY <1>1 DEF StoreInv
<1>8. \A p \in Processes : pc'[p] \notin Never /\ rows'[p] \subseteq Rows
  BY <1>1, <1>3 DEF StoreInv
<1> QED BY <1>2, <1>4, <1>5, <1>6, <1>7, <1>8 DEF StoreInv

\* A snapshot finds every candle's import identified, and gives a key whose
\* rows are those computed from it.
LEMMA SnapshotKey ==
    ASSUME StoreInv, NEW range \in Requests
    PROVE  LET candles == Snapshot(range)
               k == KeyOf(range, candles)
           IN  /\ Identified(candles)
               /\ Computable(candles) => WellKeyed(k)
               /\ k.request = range
               /\ Computed(range, candles) = RowsUnder(k)
<1> DEFINE candles == Snapshot(range)
           k == KeyOf(range, candles)
<1>1. /\ DOMAIN store = AllWanted
      /\ \A c \in AllWanted : store[c] \in identities \cup {Nobody}
  BY DEF StoreInv, Announcements
<1>2. /\ candles \subseteq AllWanted
      /\ \A c \in candles : range[1] <= c[2] /\ c[2] <= range[2]
      /\ \A c \in candles : store[c] # Nobody
  BY <1>1 DEF Snapshot, Stored
<1>3. Identified(candles)
  BY <1>1, <1>2 DEF Identified, Origins
<1>4. k.request = range /\ k.candles = candles
  BY DEF KeyOf
<1>5. ASSUME Computable(candles) PROVE WellKeyed(k)
  <2>1. Origins(candles) \subseteq Imports
    BY <1>1, <1>2 DEF StoreInv, Origins
  <2>2. candles # {}
    <3>1. Symbols # {}
      <4>1. SymbolOrder[1] \in Symbols
        BY StoreAssumption
      <4> QED BY <4>1
    <3> QED BY <1>5, <3>1 DEF Computable
  <2> HIDE DEF candles
  <2>3. k \in Keys
    BY <1>2, <2>1 DEF Keys, KeyOf
  <2> HIDE DEF k
  <2> QED BY <1>2, <1>4, <2>2, <2>3 DEF WellKeyed
<1> HIDE DEF candles, k
<1>6. Computed(range, candles) = RowsUnder(k)
  BY <1>4 DEF RowsUnder
<1> QED BY <1>3, <1>4, <1>5, <1>6 DEF candles, k

(***************************************************************************)
(* Generators.                                                             *)
(***************************************************************************)

\* A look at the table of sets.
LEMMA SetsFound ==
    ASSUME NEW k
    PROVE  SetsWith(k) = {} <=> ~HasSet(sets, k)
  BY DEF SetsWith, HasSet

\* What is stored under a key that has a set is the rows of the key, and the
\* set's count is theirs.
LEMMA WholeSets ==
    ASSUME StoreInv, NEW k, HasSet(sets, k)
    PROVE  /\ {v.row : v \in ValuesWith(k)} = RowsUnder(k)
           /\ Cardinality(ValuesWith(k)) = Cardinality(RowsUnder(k))
           /\ \A s \in SetsWith(k) : s.count = Cardinality(RowsUnder(k))
<1>1. PICK s \in sets : s.key = k
  BY DEF HasSet
<1>2. /\ WellKeyed(k)
      /\ \A row \in RowsUnder(k) : [key |-> k, row |-> row] \in values
  BY <1>1 DEF StoreInv, Tables
<1>3. \A v \in ValuesWith(k) : /\ v.row \in RowsUnder(k)
                               /\ v = [key |-> k, row |-> v.row]
  BY DEF ValuesWith, StoreInv, Tables
<1>4. \A row \in RowsUnder(k) :
         /\ [key |-> k, row |-> row] \in ValuesWith(k)
         /\ [key |-> k, row |-> row].row = row
  BY <1>2 DEF ValuesWith
<1>5. {v.row : v \in ValuesWith(k)} = RowsUnder(k)
  BY <1>3, <1>4
<1> DEFINE entry == [row \in RowsUnder(k) |-> [key |-> k, row |-> row]]
<1>6. entry \in Surjection(RowsUnder(k), ValuesWith(k))
  BY <1>3, <1>4 DEF Surjection
<1>7. entry \in Injection(RowsUnder(k), ValuesWith(k))
  <2>1. \A a, b \in RowsUnder(k) :
           [key |-> k, row |-> a] = [key |-> k, row |-> b] => a = b
    OBVIOUS
  <2>2. \A a \in RowsUnder(k) : entry[a] = [key |-> k, row |-> a]
    OBVIOUS
  <2> QED BY <1>4, <2>1, <2>2 DEF Injection, IsInjective
<1>8. IsFiniteSet(RowsUnder(k))
  BY <1>2, RowsUnderKey
<1>9. Cardinality(ValuesWith(k)) = Cardinality(RowsUnder(k))
  <2> HIDE DEF entry
  <2> QED BY <1>6, <1>7, <1>8, FS_Surjection
<1>10. \A t \in SetsWith(k) : t.count = Cardinality(RowsUnder(k))
  BY DEF SetsWith, StoreInv, Tables
<1> QED BY <1>5, <1>9, <1>10

\* The steps of a generator that leave the tables as they are.
LEMMA GeneratorSteps ==
    ASSUME StoreInv, NEW g \in Generators,
           \/ Compute(g) \/ ComputeFails(g) \/ LockKey(g)
           \/ CheckExisting(g) \/ SaveFails(g)
    PROVE  StoreInv'
<1>1. g \in Processes /\ g \notin Loaders
  BY StoreAssumption DEF Processes
<1>2. /\ {"save", "check", "insert", "reused", "raised"}
           \subseteq (Places \cup Symbols \cup Outcomes) \ Never
  BY DEF Places, Outcomes, Never
<1>3. Saving(pc[g], key[g], rows[g], sets)
  BY DEF StoreInv
<1>4. \A k, computed : Saving("raised", k, computed, sets) /\ ~Locked("raised")
  BY DEF Saving, Locked
<1>5. CASE Compute(g)
  <2>1. PICK range \in Requests :
           /\ Computable(Snapshot(range))
           /\ key' = [key EXCEPT ![g] = KeyOf(range, Snapshot(range))]
           /\ rows' = [rows EXCEPT ![g] = Computed(range, Snapshot(range))]
    BY <1>5 DEF Compute
  <2> DEFINE k == KeyOf(range, Snapshot(range))
             computed == Computed(range, Snapshot(range))
  <2>2. WellKeyed(k) /\ computed = RowsUnder(k) /\ computed \subseteq Rows
    BY <2>1, SnapshotKey, RowsUnderKey
  <2>3. /\ pc' = [pc EXCEPT ![g] = "save"]
        /\ UNCHANGED <<store, identities, sets, values>>
    BY <1>5 DEF Compute, Goto
  <2>4. key' = [key EXCEPT ![g] = k] /\ rows' = [rows EXCEPT ![g] = computed]
    BY <2>1
  <2> HIDE DEF k, computed
  <2>5. Saving("save", k, computed, sets) /\ ~Locked("save")
    BY <2>2 DEF Saving, Locked
  <2> QED BY <1>1, <1>2, <2>2, <2>3, <2>4, <2>5, ProcessMoves
<1>6. CASE ComputeFails(g)
  <2>1. PICK range \in Requests :
           Fails(g, IF Identified(Snapshot(range)) THEN "raised" ELSE "unidentified")
    BY <1>6 DEF ComputeFails
  <2>2. Fails(g, "raised")
    BY <2>1, SnapshotKey
  <2> QED BY <1>1, <1>2, <1>4, <2>2, ProcessGoes DEF Fails
<1>7. CASE LockKey(g)
  <2>1. /\ pc[g] = "save" /\ KeyFree(key[g]) /\ Goto(g, "check")
        /\ UNCHANGED <<store, identities, sets, values, key, rows>>
    BY <1>7 DEF LockKey
  <2>2. Saving("check", key[g], rows[g], sets)
    BY <1>3, <2>1 DEF Saving
  <2>3. \A h \in Generators : h # g /\ Locked(pc[h]) => key[h] # key[g]
    BY <2>1 DEF KeyFree, Locked
  <2> QED BY <1>1, <1>2, <2>1, <2>2, <2>3, ProcessGoes
<1>8. CASE CheckExisting(g)
  <2>1. /\ pc[g] = "check" /\ UNCHANGED <<store, identities, sets, values, key, rows>>
    BY <1>8 DEF CheckExisting
  <2>2. \A h \in Generators : h # g /\ Locked(pc[h]) => key[h] # key[g]
    BY <2>1 DEF StoreInv, Locked
  <2>3. WellKeyed(key[g]) /\ rows[g] = RowsUnder(key[g])
    BY <1>3, <2>1 DEF Saving
  <2>4. CASE SetsWith(key[g]) = {} /\ Goto(g, "insert")
    <3>1. Saving("insert", key[g], rows[g], sets)
      BY <2>3, <2>4, SetsFound DEF Saving
    <3> QED BY <1>1, <1>2, <2>1, <2>2, <2>4, <3>1, ProcessGoes
  <2>5. CASE /\ SetsWith(key[g]) # {}
             /\ Goto(g, IF Whole(g) THEN "reused" ELSE "incomplete")
    <3>1. HasSet(sets, key[g])
      BY <2>5, SetsFound
    <3>2. Whole(g)
      BY <2>3, <3>1, WholeSets DEF Whole
    <3>3. Goto(g, "reused") /\ Saving("reused", key[g], rows[g], sets)
          /\ ~Locked("reused")
      BY <2>3, <2>5, <3>1, <3>2 DEF Saving, Locked
    <3> QED BY <1>1, <1>2, <2>1, <3>3, ProcessGoes
  <2> QED BY <1>8, <2>4, <2>5 DEF CheckExisting
<1>9. CASE SaveFails(g)
  BY <1>1, <1>2, <1>4, <1>9, ProcessGoes DEF SaveFails, Fails
<1> QED BY <1>5, <1>6, <1>7, <1>8, <1>9

\* A generator that stores its set: a set for one more key, whole, which no
\* other generator in its transaction has.
LEMMA GeneratorCommits ==
    ASSUME StoreInv, NEW g \in Generators, CommitSet(g)
    PROVE  StoreInv'
<1> DEFINE k == key[g]
           new == [key |-> k, count |-> Cardinality(RowsUnder(k))]
<1>1. g \in Processes /\ g \notin Loaders
      /\ Generators \subseteq Processes /\ Loaders \subseteq Processes
      /\ \A r \in Imports : r # g
  BY StoreAssumption DEF Processes
<1>2. pc[g] = "insert" /\ UNCHANGED <<store, identities, key, rows>>
  BY DEF CommitSet
<1>3. WellKeyed(k) /\ rows[g] = RowsUnder(k)
  BY <1>1, <1>2 DEF StoreInv, Saving
<1>4. PICK next \in {"inserted", "raised"} : pc' = [pc EXCEPT ![g] = next]
  BY DEF CommitSet, Goto
<1>5. /\ sets' = sets \cup {new}
      /\ values' = values \cup {[key |-> k, row |-> row] : row \in RowsUnder(k)}
  BY <1>3 DEF CommitSet, Insert
<1>6. /\ pc' \in [Imports \cup Processes -> Places \cup Symbols \cup Outcomes]
      /\ \A q \in Imports \cup Processes : pc'[q] = IF q = g THEN next ELSE pc[q]
  <2>1. pc \in [Imports \cup Processes -> Places \cup Symbols \cup Outcomes]
    BY DEF StoreInv
  <2>2. next \in Outcomes
    BY DEF Outcomes
  <2> QED BY <1>4, <2>1, <2>2
<1>7. new.key = k /\ new.count = Cardinality(RowsUnder(k))
  OBVIOUS
<1> HIDE DEF new
<1>8. \A q : HasSet(sets', q) <=> HasSet(sets, q) \/ q = k
  BY <1>5, <1>7 DEF HasSet
<1>9. Tables(sets', values')
  <2>1. ASSUME NEW s \in sets'
        PROVE  /\ WellKeyed(s.key) /\ s.count = Cardinality(RowsUnder(s.key))
               /\ \A row \in RowsUnder(s.key) : [key |-> s.key, row |-> row] \in values'
    <3>1. CASE s \in sets
      BY <1>5, <3>1 DEF StoreInv, Tables
    <3>2. CASE s = new
      BY <1>3, <1>5, <1>7, <3>2
    <3> QED BY <1>5, <3>1, <3>2
  <2>2. ASSUME NEW v \in values'
        PROVE  /\ HasSet(sets', v.key) /\ v.row \in RowsUnder(v.key)
               /\ v = [key |-> v.key, row |-> v.row]
    <3>1. CASE v \in values
      BY <1>8, <3>1 DEF StoreInv, Tables
    <3>2. CASE v \in {[key |-> k, row |-> row] : row \in RowsUnder(k)}
      <4>1. PICK row \in RowsUnder(k) : v = [key |-> k, row |-> row]
        BY <3>2
      <4>2. v.key = k /\ v.row = row
        BY <4>1
      <4> QED BY <1>8, <4>1, <4>2
    <3> QED BY <1>5, <3>1, <3>2
  <2> QED BY <2>1, <2>2 DEF Tables
<1>10. ASSUME NEW h \in Generators PROVE Saving(pc'[h], key'[h], rows'[h], sets')
  <2>1. key'[h] = key[h] /\ rows'[h] = rows[h] /\ Saving(pc[h], key[h], rows[h], sets)
    BY <1>2 DEF StoreInv
  <2>2. CASE h = g
    BY <1>1, <1>3, <1>6, <1>8, <2>1, <2>2 DEF Saving
  <2>3. CASE h # g
    <3>1. pc'[h] = pc[h]
      BY <1>1, <1>6, <2>3
    <3>2. pc[h] = "insert" => key[h] # k
      BY <1>2, <2>3 DEF StoreInv, Locked
    <3> QED BY <1>8, <2>1, <3>1, <3>2 DEF Saving
  <2> QED BY <2>2, <2>3
<1>11. ASSUME NEW l \in Loaders PROVE Loading(pc'[l], key'[l], rows'[l], Asked[l], sets')
  <2>1. pc'[l] = pc[l] /\ key'[l] = key[l] /\ rows'[l] = rows[l]
    BY <1>1, <1>2, <1>6
  <2>2. Loading(pc[l], key[l], rows[l], Asked[l], sets)
    BY DEF StoreInv
  <2> QED BY <1>8, <2>1, <2>2 DEF Loading
<1>12. \A h, i \in Generators :
          h # i /\ Locked(pc'[h]) /\ Locked(pc'[i]) => key'[h] # key'[i]
  <2>1. \A h \in Generators : Locked(pc'[h]) => pc'[h] = pc[h]
    BY <1>1, <1>6 DEF Locked
  <2> QED BY <1>2, <2>1 DEF StoreInv
<1>13. \A p \in Processes : /\ pc'[p] \notin Never
                            /\ key'[p] = NoKey \/ WellKeyed(key'[p])
  BY <1>2, <1>6 DEF StoreInv, Never
<1>14. Announcements'
  BY <1>1, <1>2, <1>6 DEF StoreInv, Announcements
<1>15. /\ store' \in [AllWanted -> Imports \cup {Nobody}]
       /\ key' = [p \in Processes |-> key'[p]] /\ rows' = [p \in Processes |-> rows'[p]]
       /\ identities' \subseteq Imports /\ \A p \in Processes : rows'[p] \subseteq Rows
  BY <1>2 DEF StoreInv
<1> QED BY <1>6, <1>9, <1>10, <1>11, <1>12, <1>13, <1>14, <1>15 DEF StoreInv

(***************************************************************************)
(* Backtests load.                                                         *)
(***************************************************************************)

\* Under the key of a whole set a backtest finds, for each symbol, exactly the
\* rows of that key.
LEMMA FetchAgrees ==
    ASSUME StoreInv, NEW l \in Loaders, NEW s, WellKeyed(key[l]),
           HasSet(sets, key[l]), rows[l] = RowsUnder(key[l]),
           key[l].request = Asked[l]
    PROVE  Fetched(l, s) = RowsFor(l, s)
<1> DEFINE k == key[l]
<1>1. {v.row : v \in ValuesWith(k)} = RowsUnder(k)
  BY WholeSets
<1>2. ASSUME NEW row \in RowsUnder(k)
      PROVE  Asked[l][1] <= row.slot /\ row.slot <= Asked[l][2]
  <2>1. PICK c \in k.candles :
           row = RunRow(c[1], c[2], RunIn(SlotsOf(k.candles, c[1]), c[2]), k.request[1])
    BY RowsUnderKey
  <2>2. row.slot = c[2]
    BY <2>1 DEF RunRow
  <2> QED BY <2>2 DEF WellKeyed
<1> QED BY <1>1, <1>2 DEF Fetched, RowsFor

\* A backtest reads only what stays, and computes from its key's candles.
LEMMA LoaderSteps ==
    ASSUME StoreInv, NEW l \in Loaders,
           \/ \E g \in Generators : key[g] # NoKey /\ Configure(l, key[g])
           \/ GetManifest(l) \/ Recompute(l) \/ LoadFails(l)
           \/ \E n \in DOMAIN SymbolOrder : Fetch(l, n)
    PROVE  StoreInv'
<1>1. l \in Processes /\ l \notin Generators /\ Generators \subseteq Processes
  BY StoreAssumption DEF Processes
<1>2. /\ {"manifest", "snapshot", "missing", "raised", "stale", "loaded"}
           \subseteq (Places \cup Symbols \cup Outcomes) \ Never
      /\ Symbols \subseteq (Places \cup Symbols \cup Outcomes) \ Never
      /\ {"start", "manifest", "snapshot", "missing", "raised", "stale", "loaded"}
           \cap Symbols = {}
  BY StoreAssumption DEF Places, Outcomes, Never
<1>3. Loading(pc[l], key[l], rows[l], Asked[l], sets)
  BY DEF StoreInv
<1>4. \A k, computed, asked, next :
         next \in {"missing", "raised", "stale", "loaded"}
           => Loading(next, k, computed, asked, sets)
  BY <1>2 DEF Loading
<1>5. /\ SymbolOrder \in Seq(Symbols) /\ 1 \in DOMAIN SymbolOrder
      /\ Len(SymbolOrder) \in Nat /\ DOMAIN SymbolOrder = 1..Len(SymbolOrder)
      /\ \A n \in DOMAIN SymbolOrder : SymbolOrder[n] \in Symbols
  BY StoreAssumption DEF Symbols
<1>6. ASSUME NEW g \in Generators, key[g] # NoKey, Configure(l, key[g])
      PROVE  StoreInv'
  <2>1. WellKeyed(key[g])
    BY <1>1, <1>6 DEF StoreInv
  <2>2. rows' = [rows EXCEPT ![l] = rows[l]] /\ rows[l] \subseteq Rows
    BY <1>1, <1>6 DEF Configure, StoreInv
  <2>3. /\ pc' = [pc EXCEPT ![l] = "manifest"] /\ key' = [key EXCEPT ![l] = key[g]]
        /\ UNCHANGED <<store, identities, sets, values>>
    BY <1>6 DEF Configure, Goto
  <2>4. Loading("manifest", key[g], rows[l], Asked[l], sets)
    BY <1>2, <2>1 DEF Loading
  <2> QED BY <1>1, <1>2, <2>1, <2>2, <2>3, <2>4, ProcessMoves
<1>7. CASE GetManifest(l)
  <2>1. WellKeyed(key[l])
    BY <1>3, <1>7 DEF GetManifest, Loading
  <2>2. UNCHANGED <<store, identities, sets, values, key, rows>>
    BY <1>7 DEF GetManifest
  <2>3. CASE SetsWith(key[l]) # {} /\ Goto(l, "snapshot")
    <3>1. Loading("snapshot", key[l], rows[l], Asked[l], sets)
      BY <1>2, <2>1, <2>3, SetsFound DEF Loading
    <3> QED BY <1>1, <1>2, <2>2, <2>3, <3>1, ProcessGoes
  <2>4. CASE Goto(l, "missing")
    BY <1>1, <1>2, <1>4, <2>2, <2>4, ProcessGoes
  <2> QED BY <1>7, <2>3, <2>4 DEF GetManifest
<1>8. CASE Recompute(l)
  <2> DEFINE candles == Snapshot(Asked[l])
  <2>1. WellKeyed(key[l]) /\ HasSet(sets, key[l])
    BY <1>3, <1>8 DEF Recompute, Loading
  <2>2. UNCHANGED <<store, identities, sets, values, key>>
    BY <1>8 DEF Recompute
  <2>3. Asked[l] \in Requests
    BY StoreAssumption
  <2>4. /\ Identified(candles) /\ KeyOf(Asked[l], candles).request = Asked[l]
        /\ Computed(Asked[l], candles) = RowsUnder(KeyOf(Asked[l], candles))
    BY <2>3, SnapshotKey
  <2>5. CASE /\ Agrees(l)
             /\ rows' = [rows EXCEPT ![l] = Computed(Asked[l], candles)]
             /\ Goto(l, SymbolOrder[1])
    <3>1. key[l] = KeyOf(Asked[l], candles)
      BY <2>5 DEF Agrees
    <3>2. key' = [key EXCEPT ![l] = key[l]]
      BY <2>2 DEF StoreInv
    <3>3. /\ rows' = [rows EXCEPT ![l] = RowsUnder(key[l])]
          /\ key[l].request = Asked[l] /\ RowsUnder(key[l]) \subseteq Rows
      BY <2>1, RowsUnderKey, <2>4, <2>5, <3>1
    <3>4. SymbolOrder[1] \in Symbols
      BY <1>5
    <3>5. Loading(SymbolOrder[1], key[l], RowsUnder(key[l]), Asked[l], sets)
      BY <2>1, <3>3 DEF Loading
    <3>6. pc' = [pc EXCEPT ![l] = SymbolOrder[1]]
      BY <2>5 DEF Goto
    <3> QED BY <1>1, <1>2, <2>1, <2>2, <3>2, <3>3, <3>4, <3>5, <3>6, ProcessMoves
  <2>6. CASE /\ UNCHANGED rows
             /\ Goto(l, CASE ~Identified(candles) -> "unidentified"
                          [] Identified(candles) /\ ~Computable(candles) -> "raised"
                          [] OTHER -> "stale")
    <3>1. PICK next \in {"raised", "stale"} : Goto(l, next)
      <4>1. CASE Computable(candles)
        BY <2>4, <2>6, <4>1
      <4>2. CASE ~Computable(candles)
        BY <2>4, <2>6, <4>2
      <4> QED BY <4>1, <4>2
    <3>2. Loading(next, key[l], rows[l], Asked[l], sets)
      BY <1>4
    <3> QED BY <1>1, <1>2, <2>2, <2>6, <3>1, <3>2, ProcessGoes
  <2> QED BY <1>8, <2>5, <2>6 DEF Recompute
<1>9. CASE LoadFails(l)
  BY <1>1, <1>2, <1>4, <1>9, ProcessGoes DEF LoadFails, Fails
<1>10. ASSUME NEW n \in DOMAIN SymbolOrder, Fetch(l, n)
       PROVE  StoreInv'
  <2>1. pc[l] \in Symbols
    BY <1>5, <1>10 DEF Fetch
  <2>2. /\ WellKeyed(key[l]) /\ HasSet(sets, key[l])
        /\ rows[l] = RowsUnder(key[l]) /\ key[l].request = Asked[l]
    BY <1>3, <2>1 DEF Loading
  <2>3. Fetched(l, SymbolOrder[n]) = RowsFor(l, SymbolOrder[n])
    BY <2>2, FetchAgrees
  <2>4. UNCHANGED <<store, identities, sets, values, key, rows>>
    BY <1>10 DEF Fetch
  <2>5. CASE n = Len(SymbolOrder)
    <3>1. Goto(l, "loaded")
      BY <1>10, <2>3, <2>5 DEF Fetch
    <3> QED BY <1>1, <1>2, <1>4, <2>4, <3>1, ProcessGoes
  <2>6. CASE n # Len(SymbolOrder)
    <3>1. Goto(l, SymbolOrder[n + 1])
      BY <1>10, <2>3, <2>6 DEF Fetch
    <3>2. SymbolOrder[n + 1] \in Symbols
      <4>1. n + 1 \in DOMAIN SymbolOrder
        BY <1>5, <2>6
      <4> QED BY <1>5, <4>1
    <3>3. Loading(SymbolOrder[n + 1], key[l], rows[l], Asked[l], sets)
      BY <2>2, <1>2, <3>2 DEF Loading
    <3> QED BY <1>1, <1>2, <2>4, <3>1, <3>2, <3>3, ProcessGoes
  <2> QED BY <2>5, <2>6
<1> QED BY <1>6, <1>7, <1>8, <1>9, <1>10

(***************************************************************************)
(* Theorems.                                                               *)
(***************************************************************************)

\* Nothing happens.
LEMMA StoreStutters == ASSUME StoreInv, UNCHANGED vars PROVE StoreInv'
  BY DEF vars, StoreInv, Announcements

\* Whatever the imports, generators and backtests do, and whichever of their
\* statements fail, the invariant above holds.
THEOREM StoreInvariant == Spec => []StoreInv
<1>1. StoreInv /\ [Next]_vars => StoreInv'
  <2> SUFFICES ASSUME StoreInv, [Next]_vars PROVE StoreInv'
    OBVIOUS
  <2>1. CASE AllOver \/ UNCHANGED vars
    BY <2>1, StoreStutters DEF AllOver
  <2>2. ASSUME NEW r \in Imports, BeginImport(r) \/ EndImport(r) PROVE StoreInv'
    BY <2>2, ImportsKeep
  <2>3. ASSUME NEW g \in Generators,
               \/ Compute(g) \/ ComputeFails(g) \/ LockKey(g) \/ CheckExisting(g)
               \/ CommitSet(g) \/ SaveFails(g)
        PROVE  StoreInv'
    BY <2>3, GeneratorSteps, GeneratorCommits
  <2>4. ASSUME NEW l \in Loaders,
               \/ \E g \in Generators : key[g] # NoKey /\ Configure(l, key[g])
               \/ GetManifest(l) \/ Recompute(l) \/ LoadFails(l)
               \/ \E n \in DOMAIN SymbolOrder : Fetch(l, n)
        PROVE  StoreInv'
    BY <2>4, LoaderSteps
  <2> QED BY <2>1, <2>2, <2>3, <2>4 DEF Next
<1> QED BY <1>1, StoreStarts, PTL DEF Spec

\* The processes and the tables keep to their types.
THEOREM StoreTypeCorrect == Spec => []TypeOK
<1>1. StoreInv => TypeOK
  <2> SUFFICES ASSUME StoreInv PROVE TypeOK
    OBVIOUS
  <2>1. \A s \in sets : s.key \in Keys /\ s.count \in Nat \ {0}
    <3> TAKE s \in sets
    <3> DEFINE made == RowsUnder(s.key)
    <3>1. WellKeyed(s.key) /\ s.count = Cardinality(made)
      BY DEF StoreInv, Tables
    <3>2. IsFiniteSet(made) /\ made # {}
      BY <3>1, RowsUnderKey
    <3> HIDE DEF made
    <3>3. Cardinality(made) \in Nat /\ Cardinality(made) # 0
      BY <3>2, FS_CardinalityType, FS_EmptySet
    <3> QED BY <3>1, <3>3 DEF WellKeyed
  <2>2. \A v \in values : v.key \in Keys /\ v.row \in Rows
    <3> TAKE v \in values
    <3>1. HasSet(sets, v.key) /\ v.row \in RowsUnder(v.key)
      BY DEF StoreInv, Tables
    <3>2. WellKeyed(v.key)
      BY <3>1 DEF StoreInv, Tables, HasSet
    <3> QED BY <3>1, <3>2, RowsUnderKey DEF WellKeyed
  <2>3. key \in [Processes -> Keys \cup {NoKey}]
    <3>1. \A p \in Processes : key[p] \in Keys \cup {NoKey}
      BY DEF StoreInv, WellKeyed
    <3> QED BY <3>1 DEF StoreInv
  <2> QED BY <2>1, <2>2, <2>3 DEF StoreInv, TypeOK
<1> QED BY <1>1, StoreInvariant, PTL

\* No snapshot ever holds a candle whose import has recorded no identity: the
\* generator and the loader never refuse their candles for want of a dataset
\* (HistoryQuery.get_snapshot and the identity check on its provenance).
THEOREM ImportsIdentified == Spec => []AlwaysIdentified
<1>1. StoreInv => AlwaysIdentified
  BY DEF StoreInv, AlwaysIdentified, Never
<1> QED BY <1>1, StoreInvariant, PTL

\* A generator that is about to store its set still finds the key free: the
\* advisory lock serialises the writers of a key from the check to the commit.
THEOREM SetsStoredOnce == Spec => []WritersNeverClash
<1>1. StoreInv => WritersNeverClash
  BY SetsFound DEF StoreInv, WritersNeverClash, Saving
<1> QED BY <1>1, StoreInvariant, PTL

\* A generator that ends well leaves what it has computed under its key, also
\* when another has stored it.
THEOREM SetsSavedAsComputed == Spec => []SavedAsComputed
<1>1. StoreInv => SavedAsComputed
  BY WholeSets DEF StoreInv, SavedAsComputed, Saving
<1> QED BY <1>1, StoreInvariant, PTL

\* The defensive checks never fire: no generator finds a stored set
\* incomplete, no backtest finds stored rows that differ from its own.
THEOREM ChecksNeverFire == Spec => []StoredSetsHold
<1>1. StoreInv => StoredSetsHold
  BY DEF StoreInv, StoredSetsHold, Never
<1> QED BY <1>1, StoreInvariant, PTL

\* A stored row is the row of a candle of its key, whose run is the property's.
LEMMA StoredRows ==
    ASSUME StoreInv, NEW v \in values
    PROVE  LET k == v.key
               run == RunIn(SlotsOf(k.candles, v.row.symbol), v.row.slot)
           IN  /\ v.row = RunRow(v.row.symbol, v.row.slot, run, k.request[1])
               /\ run = RunUpTo(k.candles, v.row.symbol, v.row.slot)
               /\ v.row.slot \in Nat
<1> DEFINE k == v.key
<1>1. HasSet(sets, k) /\ v.row \in RowsUnder(k)
  BY DEF StoreInv, Tables
<1>2. WellKeyed(k)
  BY <1>1 DEF StoreInv, Tables, HasSet
<1> HIDE DEF k
<1>3. PICK c \in k.candles :
         v.row = RunRow(c[1], c[2], RunIn(SlotsOf(k.candles, c[1]), c[2]), k.request[1])
  BY <1>1, <1>2, RowsUnderKey
<1>4. v.row.symbol = c[1] /\ v.row.slot = c[2] /\ c[2] \in Nat
  BY <1>2, <1>3, RowsUnderKey DEF RunRow
<1> DEFINE s == c[1]
           S == SlotsOf(k.candles, s)
<1>5. \A t : t \in S <=> <<s, t>> \in k.candles
  BY <1>2, RowsUnderKey, SlotsFinite
<1> HIDE DEF S, s
<1>6. RunIn(S, c[2]) = RunUpTo(k.candles, s, c[2])
  BY <1>5 DEF RunIn, RunUpTo
<1> QED BY <1>1, <1>3, <1>4, <1>6 DEF k, S, s

\* Every stored row is computed from exactly the unbroken run of candles that
\* its own ends, and withheld for want of candles or after a gap, whatever
\* the candles of its set are.
THEOREM RowsOfUnbrokenRuns == Spec => []RowsFromUnbrokenRuns
<1>1. StoreInv => RowsFromUnbrokenRuns
  <2> SUFFICES ASSUME StoreInv, NEW v \in values
               PROVE  LET run == RunUpTo(v.key.candles, v.row.symbol, v.row.slot)
                          short == Cardinality(run) <= Lookback
                          whole == v.key.request[1] \in run
                      IN  /\ v.row.inputs = run
                          /\ v.row.withheld = CASE ~short -> "no"
                                                [] short /\ whole -> "WARMUP"
                                                [] short /\ ~whole -> "GAP_WARMUP"
    BY DEF RowsFromUnbrokenRuns
  <2> DEFINE run == RunUpTo(v.key.candles, v.row.symbol, v.row.slot)
             first == v.key.request[1]
             short == Cardinality(run) <= Lookback
             whole == first \in run
  <2>1. v.row = RunRow(v.row.symbol, v.row.slot, run, first)
    BY StoredRows
  <2>2. Cardinality(run) \in Nat
    <3>1. v.row.slot \in Nat
      BY StoredRows
    <3>2. IsFiniteSet(0..v.row.slot) /\ run \subseteq 0..v.row.slot
      BY <3>1, FS_Interval DEF RunUpTo
    <3> HIDE DEF run
    <3> QED BY <3>2, FS_Subset, FS_CardinalityType
  <2>3. short <=> ~(Cardinality(run) > Lookback)
    BY <2>2, LookbackAssumption
  <2>4. /\ v.row.inputs = run
        /\ v.row.withheld = IF ~short THEN "no"
                            ELSE IF whole THEN "WARMUP" ELSE "GAP_WARMUP"
    BY <2>1, <2>3 DEF RunRow
  <2> HIDE DEF short, whole
  <2>5. (CASE ~short -> "no" [] short /\ whole -> "WARMUP"
           [] short /\ ~whole -> "GAP_WARMUP")
          = IF ~short THEN "no" ELSE IF whole THEN "WARMUP" ELSE "GAP_WARMUP"
    <3>1. CASE ~short
      BY <3>1
    <3>2. CASE short /\ whole
      BY <3>2
    <3>3. CASE short /\ ~whole
      BY <3>3
    <3> QED BY <3>1, <3>2, <3>3
  <2> QED BY <2>4, <2>5 DEF short, whole
<1> QED BY <1>1, StoreInvariant, PTL

\* A stored row depends on no candle after its own: two sets of one range
\* whose candles agree up to a row have the same row there.
THEOREM NoHindsightInFeatures == Spec => []FeaturesCausal
<1>1. StoreInv => FeaturesCausal
  <2> SUFFICES ASSUME StoreInv, NEW v \in values, NEW w \in values,
                      v.key.request = w.key.request,
                      v.row.symbol = w.row.symbol, v.row.slot = w.row.slot,
                      UpTo(v.key, v.row.symbol, v.row.slot)
                        = UpTo(w.key, w.row.symbol, w.row.slot)
               PROVE  v.row = w.row
    BY DEF FeaturesCausal
  <2> DEFINE s == v.row.symbol
             t == v.row.slot
             one == v.key.candles
             other == w.key.candles
  <2>1. t \in Nat
    BY StoredRows
  <2>2. \A u \in Nat : u <= t => (<<s, u>> \in one <=> <<s, u>> \in other)
    <3>1. \A c : (c \in one /\ c[1] = s /\ c[2] <= t)
                   <=> (c \in other /\ c[1] = s /\ c[2] <= t)
      BY DEF UpTo
    <3> HIDE DEF s, t, one, other
    <3> TAKE u \in Nat
    <3>2. <<s, u>>[1] = s /\ <<s, u>>[2] = u
      OBVIOUS
    <3> QED BY <3>1, <3>2
  <2> HIDE DEF s, t, one, other
  <2>3. RunUpTo(one, s, t) = RunUpTo(other, s, t)
    <3>1. \A u \in 0..t : \A x \in u..t : x \in Nat /\ x <= t
      BY <2>1
    <3> QED BY <2>2, <3>1 DEF RunUpTo
  <2> QED BY <2>3, StoredRows DEF s, t, one, other
<1> QED BY <1>1, StoreInvariant, PTL

(***************************************************************************)
(* Stale sets.                                                             *)
(***************************************************************************)

\* A backtest whose key is overtaken, or of another range, and that has not
\* come to comparing it with the candles, or has found it stale.
Doomed(l) ==
    /\ pc[l] \in {"manifest", "snapshot", "missing", "raised", "stale"}
    /\ Overtaken(key[l]) \/ key[l].request # Asked[l]

\* Candles stay, so that a key that is overtaken remains so, and a backtest
\* compares its key with the candles before it reads a row.
LEMMA DoomedForEver ==
    ASSUME StoreInv, [Next]_vars, NEW l \in Loaders, Doomed(l)
    PROVE  Doomed(l)'
<1>1. /\ l \in Processes /\ l \notin Generators /\ l \notin Imports
      /\ Asked[l] \in Requests
  BY StoreAssumption DEF Processes
<1>2. /\ pc \in [Imports \cup Processes -> Places \cup Symbols \cup Outcomes]
      /\ key = [p \in Processes |-> key[p]]
      /\ store \in [AllWanted -> Imports \cup {Nobody}]
  BY DEF StoreInv
<1>3. /\ {"manifest", "snapshot", "missing", "raised", "stale"} \cap Symbols = {}
      /\ \A n \in DOMAIN SymbolOrder : SymbolOrder[n] \in Symbols
  BY StoreAssumption DEF Places, Outcomes, Symbols
<1>4. Stored \subseteq Stored'
  <2>1. CASE UNCHANGED store
    BY <2>1 DEF Stored
  <2>2. ASSUME NEW r \in Imports, EndImport(r) PROVE Stored \subseteq Stored'
    <3>1. PICK new \in SUBSET (Wanted[r] \ Stored) :
             store' = [c \in DOMAIN store |-> IF c \in new THEN r ELSE store[c]]
      BY <2>2 DEF EndImport
    <3>2. r # Nobody
      BY StoreAssumption
    <3> QED BY <3>1, <3>2 DEF Stored
  <2>3. CASE \A r \in Imports : ~EndImport(r)
    <3>1. UNCHANGED store
      BY <2>3 DEF Next, vars, BeginImport, Compute, ComputeFails, Fails, LockKey,
                  CheckExisting, CommitSet, SaveFails, Configure, GetManifest,
                  Recompute, LoadFails, Fetch, AllOver
    <3> QED BY <2>1, <3>1
  <2> QED BY <2>2, <2>3
<1>5. \A k : Overtaken(k) => Overtaken(k)'
  BY <1>4 DEF Overtaken
<1> DEFINE behind == Overtaken(key[l]) \/ key[l].request # Asked[l]
<1>6. key'[l] = key[l] => behind'
  BY <1>5 DEF Doomed
<1>7. Doomed(l) /\ behind
  BY DEF Doomed
<1>8. ~Agrees(l)
  <2>1. Agrees(l) => /\ key[l].request = Asked[l]
                     /\ key[l].candles = Snapshot(Asked[l])
    BY DEF Agrees, KeyOf
  <2>2. ASSUME key[l].request = Asked[l], key[l].candles = Snapshot(Asked[l])
        PROVE  FALSE
    BY <1>7, <2>2 DEF Overtaken, Snapshot
  <2> QED BY <2>1, <2>2
<1>9. CASE pc'[l] = pc[l] /\ key'[l] = key[l]
  BY <1>6, <1>7, <1>9 DEF Doomed
<1>10. CASE ~(pc'[l] = pc[l] /\ key'[l] = key[l])
  <2>1. ASSUME NEW p \in Imports \cup Generators \cup Loaders, p # l,
               NEW next, pc' = [pc EXCEPT ![p] = next]
        PROVE  pc'[l] = pc[l]
    BY <1>1, <1>2, <2>1
  <2>2. ASSUME NEW r \in Imports, BeginImport(r) \/ EndImport(r) PROVE FALSE
    <3>1. key' = key /\ \E next : pc' = [pc EXCEPT ![r] = next]
      BY <2>2 DEF BeginImport, EndImport, Goto
    <3> QED BY <1>1, <1>10, <2>1, <3>1
  <2>3. ASSUME NEW g \in Generators,
               \/ Compute(g) \/ ComputeFails(g) \/ LockKey(g) \/ CheckExisting(g)
               \/ CommitSet(g) \/ SaveFails(g)
        PROVE  FALSE
    <3>1. \E next : pc' = [pc EXCEPT ![g] = next]
      BY <2>3 DEF Compute, ComputeFails, Fails, LockKey, CheckExisting, CommitSet,
                  SaveFails, Goto
    <3>2. key' = key \/ \E k : key' = [key EXCEPT ![g] = k]
      BY <2>3 DEF Compute, ComputeFails, Fails, LockKey, CheckExisting, CommitSet,
                  SaveFails
    <3>3. key'[l] = key[l]
      BY <1>1, <1>2, <3>2
    <3> QED BY <1>1, <1>10, <2>1, <3>1, <3>3
  <2>4. ASSUME NEW m \in Loaders, NEW k, Configure(m, k) PROVE FALSE
    <3>1. m # l
      BY <1>7, <2>4 DEF Configure, Doomed
    <3>2. /\ pc' = [pc EXCEPT ![m] = "manifest"]
          /\ key' = [key EXCEPT ![m] = k]
      BY <2>4 DEF Configure, Goto
    <3>3. key'[l] = key[l]
      BY <1>1, <1>2, <3>1, <3>2
    <3> QED BY <1>10, <2>1, <3>1, <3>2, <3>3
  <2>5. ASSUME NEW m \in Loaders,
               \/ GetManifest(m) \/ Recompute(m) \/ LoadFails(m)
               \/ \E n \in DOMAIN SymbolOrder : Fetch(m, n)
        PROVE  Doomed(l)'
    <3>1. key' = key /\ \E next : pc' = [pc EXCEPT ![m] = next]
      BY <2>5 DEF GetManifest, Recompute, LoadFails, Fails, Fetch, Goto
    <3>2. m = l
      BY <1>10, <2>1, <3>1
    <3>3. pc'[l] \in {"snapshot", "missing", "raised", "stale"}
      <4>1. Recompute(l) \/ LoadFails(l) \/ GetManifest(l)
        BY <1>3, <1>7, <2>5, <3>2 DEF Fetch, Doomed
      <4>2. CASE Recompute(l)
        <5>1. Identified(Snapshot(Asked[l]))
          BY <1>1, SnapshotKey
        <5>2. PICK next \in {"raised", "stale"} : Goto(l, next)
          <6>1. CASE Computable(Snapshot(Asked[l]))
            BY <1>8, <4>2, <5>1, <6>1 DEF Recompute
          <6>2. CASE ~Computable(Snapshot(Asked[l]))
            BY <1>8, <4>2, <5>1, <6>2 DEF Recompute
          <6> QED BY <6>1, <6>2
        <5> QED BY <1>1, <1>2, <5>2 DEF Goto
      <4>3. CASE LoadFails(l)
        BY <1>1, <1>2, <4>3 DEF LoadFails, Fails, Goto
      <4>4. CASE GetManifest(l)
        BY <1>1, <1>2, <4>4 DEF GetManifest, Goto
      <4> QED BY <4>1, <4>2, <4>3, <4>4
    <3> QED BY <1>6, <3>1, <3>3 DEF Doomed
  <2>6. UNCHANGED vars \/ AllOver => FALSE
    BY <1>10 DEF vars, AllOver
  <2> QED BY <2>2, <2>3, <2>4, <2>5, <2>6 DEF Next
<1> QED BY <1>9, <1>10

\* A backtest that sets out with a key that is overtaken, or of another range
\* than its own, never loads it, however long it takes and whatever is
\* imported and stored meanwhile.
THEOREM StaleSetsRefused == Spec => StaleNeverLoads
<1>1. ASSUME NEW l \in Loaders
      PROVE  Spec => [](/\ pc[l] = "manifest"
                        /\ Overtaken(key[l]) \/ key[l].request # Asked[l]
                        => [](pc[l] # "loaded"))
  <2>1. (/\ pc[l] = "manifest"
         /\ Overtaken(key[l]) \/ key[l].request # Asked[l]) => Doomed(l)
    BY DEF Doomed
  <2>2. Doomed(l) => pc[l] # "loaded"
    BY DEF Doomed
  <2>3. StoreInv /\ [Next]_vars /\ Doomed(l) => Doomed(l)'
    BY DoomedForEver
  <2> QED BY <2>1, <2>2, <2>3, StoreInvariant, PTL DEF Spec
<1> QED BY <1>1 DEF StaleNeverLoads

=============================================================================
