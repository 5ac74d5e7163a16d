---------------------------- MODULE LedgerProofs ---------------------------
(***************************************************************************)
(* Theorems about sums over the run, and about the equity curve: the       *)
(* ledger explains itself to the last unit, a candle's volume is used      *)
(* once, the drawdown is the worst fall of the curve, and the report of a  *)
(* finished run agrees with the ledger.  They need a theory of finite      *)
(* sums, which comes first.                                                *)
(***************************************************************************)
EXTENDS Performance, OrderProofs, FiniteSetTheorems

(***************************************************************************)
(* Finite sums.  SumFunction is a recursive function on the subsets of a   *)
(* set that takes its elements in the order CHOOSE yields; that it exists, *)
(* and that the order does not matter, is shown by a smallest subset for   *)
(* which it would not be so.                                               *)
(***************************************************************************)

\* A set of natural numbers has a least element.
LEMMA LeastNumber ==
    ASSUME NEW S \in SUBSET Nat, S # {}
    PROVE  \E m \in S : \A k \in S : m <= k
<1> DEFINE R == OpToRel(<, Nat)
<1>1. PICK m \in S : \A k \in S : ~ (<<k, m>> \in R)
  BY NatLessThanWellFounded, WFMin
<1>2. \A k \in S : k < m => <<k, m>> \in R
  BY DEF OpToRel
<1>3. \A k \in S : ~ (k < m)
  BY <1>1, <1>2
<1> QED BY <1>3, S \subseteq Nat

Pick(T) == CHOOSE x \in T : TRUE

\* g[T] is the sum of f over T for the members T of the family F.
SumsOver(g, f, F) ==
    \A T \in F : g[T] = IF T = {} THEN 0 ELSE f[Pick(T)] + g[T \ {Pick(T)}]

Sums(g, f, S) ==
    g = [T \in SUBSET S |->
           IF T = {} THEN 0 ELSE f[Pick(T)] + g[T \ {Pick(T)}]]

\* The library's sum, by the recursive function that it is defined with.
LEMMA SumDef ==
    ASSUME NEW f, NEW S
    PROVE  SumFunctionOnSet(f, S) = (CHOOSE g : Sums(g, f, S))[S]
  BY DEF SumFunctionOnSet, FoldFunctionOnSet, MapThenFoldSet, Sums, Pick

\* Taking an element out of a finite set.
LEMMA Smaller ==
    ASSUME NEW S, IsFiniteSet(S), NEW T \in SUBSET S, NEW x \in T
    PROVE  /\ T \ {x} \in SUBSET S
           /\ Cardinality(T) \in Nat /\ Cardinality(T \ {x}) \in Nat
           /\ Cardinality(T \ {x}) = Cardinality(T) - 1
<1>1. IsFiniteSet(T)
  BY FS_Subset
<1> QED BY <1>1, FS_RemoveElement, FS_CardinalityType

\* The element that a sum takes next.
LEMMA Picked ==
    ASSUME NEW T, T # {}
    PROVE  Pick(T) \in T
  BY DEF Pick

\* A smallest subset among those of a non-empty family.
LEMMA SmallestSubset ==
    ASSUME NEW S, IsFiniteSet(S), NEW B \in SUBSET (SUBSET S), B # {}
    PROVE  \E T \in B : \A x \in T : T \ {x} \notin B
<1> DEFINE sizes == {n \in Nat : \E T \in B : Cardinality(T) = n}
<1>1. \A T \in B : Cardinality(T) \in Nat
  BY FS_Subset, FS_CardinalityType
<1>2. sizes # {} /\ sizes \in SUBSET Nat
  BY <1>1
<1>3. PICK m \in sizes : \A k \in sizes : m <= k
  <2> HIDE DEF sizes
  <2> QED BY <1>2, LeastNumber
<1>4. PICK T \in B : Cardinality(T) = m
  OBVIOUS
<1>5. ASSUME NEW x \in T, T \ {x} \in B PROVE FALSE
  <2>1. Cardinality(T \ {x}) = m - 1 /\ Cardinality(T \ {x}) \in sizes
    BY <1>4, <1>5, Smaller
  <2>2. m \in Nat
    BY <1>2
  <2> HIDE DEF sizes
  <2> QED BY <1>3, <2>1, <2>2
<1> QED BY <1>4, <1>5

\* The recursive function exists: on the subsets of at most n elements, for
\* the least n for which there were none it could be extended.
LEMMA SumsExist ==
    ASSUME NEW S, IsFiniteSet(S), NEW f
    PROVE  \E g : Sums(g, f, S)
<1> DEFINE small(n) == {T \in SUBSET S : Cardinality(T) <= n}
           without == {n \in Nat : ~\E g : SumsOver(g, f, small(n))}
           next(g) == [T \in SUBSET S |->
                         IF T = {} THEN 0 ELSE f[Pick(T)] + g[T \ {Pick(T)}]]
<1>1. without = {}
  <2> SUFFICES ASSUME without # {} PROVE FALSE
    OBVIOUS
  <2>1. PICK n \in without : \A k \in without : n <= k
    <3>1. without \in SUBSET Nat
      OBVIOUS
    <3> HIDE DEF without
    <3> QED BY <3>1, LeastNumber
  <2>2. \E g : SumsOver(g, f, small(n))
    <3>1. CASE n = 0
      <4> DEFINE g == [T \in SUBSET S |-> 0]
      <4>1. ASSUME NEW T \in small(0) PROVE T = {} /\ g[T] = 0
        <5>1. IsFiniteSet(T) /\ Cardinality(T) \in Nat /\ Cardinality(T) <= 0
          BY FS_Subset, FS_CardinalityType
        <5>2. Cardinality(T) = 0
          BY <5>1
        <5> QED BY <5>1, <5>2, FS_EmptySet
      <4> HIDE DEF g
      <4> QED BY <3>1, <4>1 DEF SumsOver
    <3>2. CASE n # 0
      <4>1. n - 1 \in Nat /\ n \in Nat
        BY <3>2
      <4>2. n - 1 \notin without
        <5>1. ~ (n <= n - 1)
          BY <4>1
        <5> HIDE DEF without
        <5> QED BY <2>1, <5>1
      <4>3. PICK g : SumsOver(g, f, small(n - 1))
        BY <4>1, <4>2
      <4>4. ASSUME NEW T \in small(n), T # {}
            PROVE  next(g)[T \ {Pick(T)}] = g[T \ {Pick(T)}]
        <5>1. Pick(T) \in T
          BY <4>4, Picked
        <5>2. T \ {Pick(T)} \in small(n - 1)
          BY <4>1, <5>1, Smaller
        <5> DEFINE U == T \ {Pick(T)}
        <5>3. U \in small(n - 1) /\ U \in SUBSET S
          BY <5>2
        <5> HIDE DEF U, small
        <5>4. g[U] = IF U = {} THEN 0 ELSE f[Pick(U)] + g[U \ {Pick(U)}]
          BY <4>3, <5>3 DEF SumsOver
        <5>5. next(g)[U] = g[U]
          BY <5>3, <5>4
        <5> QED BY <5>5 DEF U
      <4>5. SumsOver(next(g), f, small(n))
        <5> SUFFICES ASSUME NEW T \in small(n)
                     PROVE  next(g)[T] = IF T = {} THEN 0
                                         ELSE f[Pick(T)]
                                                + next(g)[T \ {Pick(T)}]
          BY DEF SumsOver
        <5>1. T \in SUBSET S
          OBVIOUS
        <5>2. next(g)[T] = IF T = {} THEN 0 ELSE f[Pick(T)] + g[T \ {Pick(T)}]
          BY <5>1
        <5> HIDE DEF next, small
        <5> QED BY <4>4, <5>2
      <4> HIDE DEF next
      <4> QED BY <4>5
    <3> QED BY <3>1, <3>2
  <2> QED BY <2>2
<1>2. Cardinality(S) \in Nat /\ small(Cardinality(S)) = SUBSET S
  BY FS_Subset, FS_CardinalityType
<1>3. PICK g : SumsOver(g, f, small(Cardinality(S)))
  BY <1>1, <1>2
<1>4. ASSUME NEW T \in SUBSET S, T # {}
      PROVE  next(g)[T \ {Pick(T)}] = g[T \ {Pick(T)}]
  <2> DEFINE U == T \ {Pick(T)}
  <2>1. U \in SUBSET S
    OBVIOUS
  <2> HIDE DEF U, small
  <2>2. g[U] = IF U = {} THEN 0 ELSE f[Pick(U)] + g[U \ {Pick(U)}]
    BY <1>2, <1>3, <2>1 DEF SumsOver
  <2>3. next(g)[U] = g[U]
    BY <2>1, <2>2
  <2> QED BY <2>3 DEF U
<1>5. \A T \in SUBSET S :
        (IF T = {} THEN 0 ELSE f[Pick(T)] + g[T \ {Pick(T)}])
          = (IF T = {} THEN 0 ELSE f[Pick(T)] + next(g)[T \ {Pick(T)}])
  <2> HIDE DEF next
  <2> QED BY <1>4
<1>6. next(g) = [T \in SUBSET S |->
                   IF T = {} THEN 0 ELSE f[Pick(T)] + next(g)[T \ {Pick(T)}]]
  <2>1. next(g) = [T \in SUBSET S |->
                     IF T = {} THEN 0 ELSE f[Pick(T)] + g[T \ {Pick(T)}]]
    OBVIOUS
  <2> HIDE DEF next
  <2> QED BY <1>5, <2>1
<1> HIDE DEF next
<1> QED BY <1>6 DEF Sums

\* A function that satisfies the recursion has numbers for values, and adds
\* any element of a subset to the sum of the others.
LEMMA SumsValues ==
    ASSUME NEW S, IsFiniteSet(S), NEW f \in [S -> Int], NEW g, Sums(g, f, S)
    PROVE  \A T \in SUBSET S :
             /\ g[T] \in Int
             /\ T = {} => g[T] = 0
             /\ \A x \in T : g[T] = f[x] + g[T \ {x}]
<1>1. \A T \in SUBSET S :
        g[T] = IF T = {} THEN 0 ELSE f[Pick(T)] + g[T \ {Pick(T)}]
  BY DEF Sums
<1> DEFINE B == {T \in SUBSET S : g[T] \notin Int}
           C == {T \in SUBSET S : \E x \in T : g[T] # f[x] + g[T \ {x}]}
<1>2. B = {}
  <2> SUFFICES ASSUME B # {} PROVE FALSE
    OBVIOUS
  <2>1. PICK T \in B : \A x \in T : T \ {x} \notin B
    <3>1. B \in SUBSET (SUBSET S)
      OBVIOUS
    <3> HIDE DEF B
    <3> QED BY <3>1, SmallestSubset
  <2>2. CASE T = {}
    <3>1. g[T] = 0 /\ g[T] \notin Int
      BY <1>1, <2>2
    <3> QED BY <3>1
  <2>3. CASE T # {}
    <3>1. Pick(T) \in T /\ Pick(T) \in S
      BY <2>3, Picked
    <3>2. g[T \ {Pick(T)}] \in Int /\ f[Pick(T)] \in Int
      BY <2>1, <3>1
    <3>3. g[T] = f[Pick(T)] + g[T \ {Pick(T)}]
      BY <1>1, <2>3
    <3> QED BY <3>2, <3>3
  <2> QED BY <2>2, <2>3
<1>3. C = {}
  <2> SUFFICES ASSUME C # {} PROVE FALSE
    OBVIOUS
  <2>1. PICK T \in C : \A x \in T : T \ {x} \notin C
    <3>1. C \in SUBSET (SUBSET S)
      OBVIOUS
    <3> HIDE DEF C
    <3> QED BY <3>1, SmallestSubset
  <2>2. PICK x \in T : g[T] # f[x] + g[T \ {x}]
    OBVIOUS
  <2> DEFINE p == Pick(T)
             U == T \ {p}
             V == T \ {x}
             W == T \ {p, x}
  <2>3. p \in T /\ p \in S /\ x \in S
    BY <2>2, Picked
  <2>4. g[T] = f[p] + g[U]
    BY <1>1, <2>2
  <2>5. p # x
    BY <2>2, <2>4
  <2>6. U \ {x} = W /\ V \ {p} = W /\ x \in U /\ p \in V
    BY <2>3, <2>5
  <2>7. U \notin C /\ V \notin C /\ U \in SUBSET S /\ V \in SUBSET S
    BY <2>1, <2>3
  <2>8. g[U] = f[x] + g[U \ {x}] /\ g[V] = f[p] + g[V \ {p}]
    BY <2>6, <2>7
  <2>9. g[W] \in Int /\ f[x] \in Int /\ f[p] \in Int
    BY <1>2, <2>3
  <2>10. g[T] = f[p] + (f[x] + g[W]) /\ g[V] = f[p] + g[W]
    BY <2>4, <2>6, <2>8
  <2> HIDE DEF U, V, W, p, B, C
  <2>11. g[T] = f[x] + g[V]
    BY <2>9, <2>10
  <2> QED BY <2>2, <2>11 DEF V
<1> QED BY <1>1, <1>2, <1>3

\* In particular of the whole set.
LEMMA SumsFirst ==
    ASSUME NEW S, IsFiniteSet(S), NEW f \in [S -> Int], NEW g, Sums(g, f, S),
           NEW x \in S
    PROVE  g[S] = f[x] + g[S \ {x}]
  BY SumsValues

\* Two functions that satisfy the recursion for numbers that agree on the
\* smaller of their sets agree on its subsets.
LEMMA SumsAgree ==
    ASSUME NEW S, IsFiniteSet(S), NEW R \in SUBSET S, NEW f, NEW h,
           \A x \in R : h[x] = f[x],
           NEW g, Sums(g, f, S), NEW k, Sums(k, h, R)
    PROVE  k[R] = g[R]
<1> DEFINE B == {T \in SUBSET R : k[T] # g[T]}
<1>1. B = {}
  <2> SUFFICES ASSUME B # {} PROVE FALSE
    OBVIOUS
  <2>1. PICK T \in B : \A x \in T : T \ {x} \notin B
    <3>1. B \in SUBSET (SUBSET R) /\ IsFiniteSet(R)
      BY FS_Subset
    <3> HIDE DEF B
    <3> QED BY <3>1, SmallestSubset
  <2>2. T \in SUBSET R /\ T \in SUBSET S
    OBVIOUS
  <2>3. /\ g[T] = IF T = {} THEN 0 ELSE f[Pick(T)] + g[T \ {Pick(T)}]
        /\ k[T] = IF T = {} THEN 0 ELSE h[Pick(T)] + k[T \ {Pick(T)}]
    BY <2>2 DEF Sums
  <2>4. CASE T = {}
    BY <2>3, <2>4
  <2>5. CASE T # {}
    <3>1. Pick(T) \in T /\ Pick(T) \in R
      BY <2>5, Picked
    <3>2. k[T \ {Pick(T)}] = g[T \ {Pick(T)}]
      BY <2>1, <2>2, <3>1
    <3> QED BY <2>3, <2>5, <3>1, <3>2
  <2> QED BY <2>4, <2>5
<1> QED BY <1>1

\* The sum of a function on a finite set is a number.
LEMMA SumType ==
    ASSUME NEW S, IsFiniteSet(S), NEW f \in [S -> Int]
    PROVE  /\ SumFunction(f) \in Int
           /\ S = {} => SumFunction(f) = 0
<1>1. PICK g : Sums(g, f, S) /\ SumFunction(f) = g[S]
  <2>1. SumFunction(f) = SumFunctionOnSet(f, S)
    BY DEF SumFunction
  <2> QED BY <2>1, SumDef, SumsExist
<1> QED BY <1>1, SumsValues

\* The sum of a function is its value at any point and the sum of the rest.
LEMMA SumRemove ==
    ASSUME NEW S, IsFiniteSet(S), NEW f \in [S -> Int], NEW x \in S
    PROVE  SumFunction(f) = f[x] + SumFunction([y \in S \ {x} |-> f[y]])
<1> DEFINE h == [y \in S \ {x} |-> f[y]]
<1>0. DOMAIN h = S \ {x} /\ \A y \in S \ {x} : h[y] = f[y]
  OBVIOUS
<1> HIDE DEF h
<1>1. PICK g : Sums(g, f, S) /\ SumFunction(f) = g[S]
  <2>1. SumFunction(f) = SumFunctionOnSet(f, S)
    BY DEF SumFunction
  <2> QED BY <2>1, SumDef, SumsExist
<1>2. PICK k : Sums(k, h, S \ {x}) /\ SumFunction(h) = k[S \ {x}]
  <2>1. SumFunction(h) = SumFunctionOnSet(h, S \ {x}) /\ IsFiniteSet(S \ {x})
    BY <1>0, FS_Subset DEF SumFunction
  <2> QED BY <2>1, SumDef, SumsExist
<1>3. k[S \ {x}] = g[S \ {x}]
  BY <1>0, <1>1, <1>2, SumsAgree
<1>4. g[S] = f[x] + g[S \ {x}]
  BY <1>1, SumsFirst
<1> QED BY <1>1, <1>2, <1>3, <1>4 DEF h

\* Changing a function at one point changes its sum by the difference.
LEMMA SumChange ==
    ASSUME NEW S, IsFiniteSet(S), NEW f \in [S -> Int], NEW h \in [S -> Int],
           NEW x \in S, \A y \in S \ {x} : h[y] = f[y]
    PROVE  SumFunction(h) = SumFunction(f) - f[x] + h[x]
<1> DEFINE rest == [y \in S \ {x} |-> f[y]]
<1>1. rest \in [S \ {x} -> Int] /\ rest = [y \in S \ {x} |-> h[y]]
  OBVIOUS
<1>2. /\ SumFunction(f) = f[x] + SumFunction(rest)
      /\ SumFunction(h) = h[x] + SumFunction([y \in S \ {x} |-> h[y]])
  BY SumRemove
<1> HIDE DEF rest
<1>3. SumFunction(rest) \in Int
  BY <1>1, SumType, FS_Subset
<1>4. f[x] \in Int /\ h[x] \in Int
  OBVIOUS
<1> QED BY <1>1, <1>2, <1>3, <1>4

\* Nothings add up to nothing.
LEMMA SumZero ==
    ASSUME NEW S, IsFiniteSet(S), NEW f \in [S -> Int], \A x \in S : f[x] = 0
    PROVE  SumFunction(f) = 0
<1>1. PICK g : Sums(g, f, S) /\ SumFunction(f) = g[S]
  <2>1. SumFunction(f) = SumFunctionOnSet(f, S)
    BY DEF SumFunction
  <2> QED BY <2>1, SumDef, SumsExist
<1> DEFINE B == {T \in SUBSET S : g[T] # 0}
<1>2. B = {}
  <2> SUFFICES ASSUME B # {} PROVE FALSE
    OBVIOUS
  <2>1. PICK T \in B : \A x \in T : T \ {x} \notin B
    <3>1. B \in SUBSET (SUBSET S)
      OBVIOUS
    <3> HIDE DEF B
    <3> QED BY <3>1, SmallestSubset
  <2>2. T # {}
    BY <1>1, SumsValues
  <2>3. PICK x \in T : g[T] = f[x] + g[T \ {x}]
    BY <1>1, <2>2, SumsValues
  <2>4. g[T \ {x}] = 0 /\ f[x] = 0
    BY <2>1
  <2> QED BY <2>3, <2>4
<1> QED BY <1>1, <1>2

(***************************************************************************)
(* The ledger.                                                             *)
(***************************************************************************)

\* What a position has earned so far is what its sales brought, less what its
\* purchases cost, but for the basis of what is still held.
Balanced(position) ==
    position.realized = position.sellValue - position.buyValue + position.basis

\* What a position contributes to cash, and what a fill does.
NetWorth(position) == position.realized - position.costs - position.basis
Flow(side, turnover, cost) ==
    IF side = "BUY" THEN 0 - (turnover + cost) ELSE turnover - cost

\* A fill keeps a position balanced and moves its worth by the cash that
\* flows; only a sale leaves it flat, and then nothing remains of its basis.
LEMMA FilledBalanced ==
    ASSUME NEW held \in PositionRecord, Balanced(held), NEW side \in Side,
           NEW quantity \in Nat \ {0}, NEW turnover \in Nat, NEW cost \in Nat,
           side = "SELL" => quantity <= held.quantity
    PROVE  LET after == Filled(held, side, quantity, turnover, cost)
           IN  /\ after \in PositionRecord /\ Balanced(after)
               /\ NetWorth(after) = NetWorth(held) + Flow(side, turnover, cost)
               /\ after.quantity = 0 => after.basis = 0
<1> DEFINE after == Filled(held, side, quantity, turnover, cost)
<1>1. /\ held.quantity \in Nat /\ held.basis \in Nat /\ held.bought \in Nat
      /\ held.buyValue \in Nat /\ held.sellValue \in Nat
      /\ held.realized \in Int /\ held.costs \in Nat
  BY DEF PositionRecord
<1>2. after \in PositionRecord
  <2>1. /\ Symbols # {} /\ NewAccount(0) \in AccountRecord
    BY Constants DEF NewAccount, AccountRecord
  <2> QED BY <2>1, BookingType
<1>3. CASE side = "BUY"
  <2>1. after = [held EXCEPT !.quantity = @ + quantity, !.basis = @ + turnover,
                             !.bought = @ + quantity, !.buyValue = @ + turnover,
                             !.costs = @ + cost]
    BY <1>3 DEF Filled
  <2>2. /\ after.quantity = held.quantity + quantity
        /\ after.basis = held.basis + turnover
        /\ after.buyValue = held.buyValue + turnover
        /\ after.sellValue = held.sellValue
        /\ after.realized = held.realized /\ after.costs = held.costs + cost
    BY <2>1 DEF PositionRecord
  <2> HIDE DEF after
  <2>3. Balanced(after)
    BY <1>1, <2>2 DEF Balanced
  <2>4. NetWorth(after) = NetWorth(held) + Flow(side, turnover, cost)
    BY <1>1, <1>3, <2>2 DEF NetWorth, Flow
  <2>5. after.quantity # 0
    BY <1>1, <2>2
  <2> QED BY <1>2, <2>3, <2>4, <2>5 DEF after
<1>4. CASE side = "SELL"
  <2> DEFINE released == ReleasedBasis(held, quantity)
  <2>1. after = [held EXCEPT !.quantity = @ - quantity, !.basis = @ - released,
                             !.sellValue = @ + turnover,
                             !.realized = @ + (turnover - released),
                             !.costs = @ + cost]
    BY <1>4 DEF Filled
  <2>2. released \in Nat
    BY <1>4, ReleasedType
  <2>3. quantity = held.quantity => released = held.basis
    BY DEF ReleasedBasis
  <2> HIDE DEF released
  <2>4. /\ after.quantity = held.quantity - quantity
        /\ after.basis = held.basis - released
        /\ after.buyValue = held.buyValue
        /\ after.sellValue = held.sellValue + turnover
        /\ after.realized = held.realized + (turnover - released)
        /\ after.costs = held.costs + cost
    BY <2>1 DEF PositionRecord
  <2> HIDE DEF after
  <2>5. Balanced(after)
    BY <1>1, <2>2, <2>4 DEF Balanced
  <2>6. NetWorth(after) = NetWorth(held) + Flow(side, turnover, cost)
    BY <1>1, <1>4, <2>2, <2>4 DEF NetWorth, Flow
  <2>7. after.quantity = 0 => after.basis = 0
    BY <1>1, <2>2, <2>3, <2>4
  <2> QED BY <1>2, <2>5, <2>6, <2>7 DEF after
<1> QED BY <1>3, <1>4 DEF Side

\* What the account makes of the same fill.
LEMMA ChargedBalanced ==
    ASSUME NEW held \in PositionRecord, NEW book \in AccountRecord,
           NEW s \in Symbols, NEW side \in Side, NEW quantity \in Nat \ {0},
           NEW turnover \in Nat, NEW cost \in Nat,
           side = "SELL" => quantity <= held.quantity
    PROVE  LET after == Filled(held, side, quantity, turnover, cost)
               new == Charged(book, s, held, side, quantity, turnover, cost)
           IN  /\ new.cash = book.cash + Flow(side, turnover, cost)
               /\ new.received - new.spent - new.fees
                    = book.received - book.spent - book.fees
                        + Flow(side, turnover, cost)
               /\ new.trades = IF after.quantity = 0
                               THEN Append(book.trades, Trade(s, after))
                               ELSE book.trades
<1> DEFINE after == Filled(held, side, quantity, turnover, cost)
           new == Charged(book, s, held, side, quantity, turnover, cost)
           trades == IF after.quantity = 0
                     THEN Append(book.trades, Trade(s, after)) ELSE book.trades
<1>1. /\ book.cash \in Int /\ book.spent \in Nat /\ book.received \in Nat
      /\ book.realized \in Int /\ book.fees \in Nat
  BY DEF AccountRecord
<1>2. CASE side = "BUY"
  <2>1. new = [book EXCEPT !.cash = @ - (turnover + cost), !.spent = @ + turnover,
                           !.fees = @ + cost, !.trades = trades]
    BY <1>2 DEF Charged
  <2> HIDE DEF trades
  <2>2. /\ new.cash = book.cash - (turnover + cost)
        /\ new.spent = book.spent + turnover /\ new.received = book.received
        /\ new.fees = book.fees + cost /\ new.trades = trades
    BY <2>1 DEF AccountRecord
  <2> HIDE DEF new
  <2>3. /\ new.cash = book.cash + Flow(side, turnover, cost)
        /\ new.received - new.spent - new.fees
             = book.received - book.spent - book.fees
                 + Flow(side, turnover, cost)
    BY <1>1, <1>2, <2>2 DEF Flow
  <2> QED BY <2>2, <2>3 DEF new, trades
<1>3. CASE side = "SELL"
  <2> DEFINE released == ReleasedBasis(held, quantity)
  <2>1. new = [book EXCEPT !.cash = @ + (turnover - cost),
                           !.received = @ + turnover, !.fees = @ + cost,
                           !.realized = @ + (turnover - released),
                           !.trades = trades]
    BY <1>3 DEF Charged
  <2> HIDE DEF trades, released
  <2>2. /\ new.cash = book.cash + (turnover - cost)
        /\ new.spent = book.spent /\ new.received = book.received + turnover
        /\ new.fees = book.fees + cost /\ new.trades = trades
    BY <2>1 DEF AccountRecord
  <2> HIDE DEF new
  <2>3. /\ new.cash = book.cash + Flow(side, turnover, cost)
        /\ new.received - new.spent - new.fees
             = book.received - book.spent - book.fees
                 + Flow(side, turnover, cost)
    BY <1>1, <1>3, <2>2 DEF Flow
  <2> QED BY <2>2, <2>3 DEF new, trades
<1> QED BY <1>2, <1>3 DEF Side

Nets(trades) == [n \in DOMAIN trades |-> trades[n].net]
Worths(held) == [s \in Symbols |-> NetWorth(held[s])]

\* The two sums of the ledger are sums of numbers over finite sets.
LEMMA LedgerSums ==
    ASSUME NEW trades \in Seq(TradeRecord),
           NEW held \in [Symbols -> PositionRecord]
    PROVE  /\ IsFiniteSet(Symbols) /\ IsFiniteSet(DOMAIN trades)
           /\ Nets(trades) \in [DOMAIN trades -> Int]
           /\ Worths(held) \in [Symbols -> Int]
           /\ SumFunction(Nets(trades)) \in Int
           /\ SumFunction(Worths(held)) \in Int
<1>1. IsFiniteSet(Symbols)
  BY SimulationAssumption
<1>2. DOMAIN trades = 1..Len(trades) /\ Len(trades) \in Nat
  OBVIOUS
<1>3. IsFiniteSet(DOMAIN trades)
  BY <1>2, FS_Interval
<1>4. Nets(trades) \in [DOMAIN trades -> Int]
  <2>1. ASSUME NEW n \in DOMAIN trades PROVE trades[n].net \in Int
    <3>1. trades[n] \in TradeRecord
      BY <1>2
    <3> QED BY <3>1 DEF TradeRecord
  <2> QED BY <2>1 DEF Nets
<1>5. Worths(held) \in [Symbols -> Int]
  <2>1. ASSUME NEW s \in Symbols PROVE NetWorth(held[s]) \in Int
    <3>1. /\ held[s].realized \in Int /\ held[s].costs \in Nat
          /\ held[s].basis \in Nat
      BY DEF PositionRecord
    <3> QED BY <3>1 DEF NetWorth
  <2> QED BY <2>1 DEF Worths
<1> QED BY <1>1, <1>3, <1>4, <1>5, SumType

\* A finished trade adds its net result to the sum.
LEMMA NetsGrow ==
    ASSUME NEW trades \in Seq(TradeRecord), NEW trade \in TradeRecord
    PROVE  SumFunction(Nets(Append(trades, trade)))
             = SumFunction(Nets(trades)) + trade.net
<1> DEFINE more == Append(trades, trade)
           n == Len(trades) + 1
<1>1. /\ more \in Seq(TradeRecord) /\ more[n] = trade
      /\ n \in DOMAIN more /\ DOMAIN more \ {n} = DOMAIN trades
      /\ \A m \in DOMAIN trades : more[m] = trades[m]
  <2>1. Len(trades) \in Nat /\ DOMAIN trades = 1..Len(trades)
    OBVIOUS
  <2>2. more \in Seq(TradeRecord) /\ DOMAIN more = 1..n /\ more[n] = trade
    BY <2>1
  <2>3. \A m \in 1..Len(trades) : more[m] = trades[m]
    OBVIOUS
  <2>4. n \in 1..n /\ 1..n \ {n} = 1..Len(trades)
    BY <2>1
  <2> HIDE DEF more, n
  <2> QED BY <2>1, <2>2, <2>3, <2>4
<1> HIDE DEF more, n
<1>2. /\ Nets(more)[n] = trade.net
      /\ \A m \in DOMAIN trades : Nets(more)[m] = Nets(trades)[m]
  BY <1>1 DEF Nets
<1>3. /\ IsFiniteSet(DOMAIN more) /\ Nets(more) \in [DOMAIN more -> Int]
      /\ Nets(trades) \in [DOMAIN trades -> Int]
      /\ SumFunction(Nets(trades)) \in Int
  <2>1. [s \in Symbols |-> NoPosition] \in [Symbols -> PositionRecord]
    BY DEF NoPosition, PositionRecord
  <2> QED BY <1>1, <2>1, LedgerSums
<1>4. SumFunction(Nets(more)) = trade.net + SumFunction(Nets(trades))
  <2>1. SumFunction(Nets(more)) = Nets(more)[n] + SumFunction(Nets(trades))
    <3> DEFINE D == DOMAIN more
               F == Nets(more)
    <3>1. IsFiniteSet(D) /\ F \in [D -> Int] /\ n \in D
      BY <1>1, <1>3
    <3>2. [m \in D \ {n} |-> F[m]] = Nets(trades)
      BY <1>1, <1>2, <1>3
    <3> HIDE DEF D, F
    <3>3. SumFunction(F) = F[n] + SumFunction([m \in D \ {n} |-> F[m]])
      BY <3>1, SumRemove
    <3> QED BY <3>2, <3>3 DEF F
  <2> QED BY <1>2, <2>1
<1>5. trade.net \in Int
  BY DEF TradeRecord
<1> QED BY <1>3, <1>4, <1>5 DEF more

\* A booked position changes the sum by the difference of its worth.
LEMMA WorthsChange ==
    ASSUME NEW held \in [Symbols -> PositionRecord], NEW s \in Symbols,
           NEW new \in PositionRecord
    PROVE  SumFunction(Worths([held EXCEPT ![s] = new]))
             = SumFunction(Worths(held)) - NetWorth(held[s]) + NetWorth(new)
<1> DEFINE after == [held EXCEPT ![s] = new]
<1>1. /\ after \in [Symbols -> PositionRecord] /\ after[s] = new
      /\ \A t \in Symbols \ {s} : after[t] = held[t]
  OBVIOUS
<1> HIDE DEF after
<1>2. /\ IsFiniteSet(Symbols) /\ Worths(held) \in [Symbols -> Int]
      /\ Worths(after) \in [Symbols -> Int]
  <2>1. <<>> \in Seq(TradeRecord)
    OBVIOUS
  <2> QED BY <1>1, <2>1, LedgerSums
<1>3. /\ Worths(held)[s] = NetWorth(held[s]) /\ Worths(after)[s] = NetWorth(new)
      /\ \A t \in Symbols \ {s} : Worths(after)[t] = Worths(held)[t]
  BY <1>1 DEF Worths
<1>4. SumFunction(Worths(after))
        = SumFunction(Worths(held)) - Worths(held)[s] + Worths(after)[s]
  BY <1>2, <1>3, SumChange
<1> QED BY <1>3, <1>4 DEF after

\* The ledger in these terms.
LEMMA LedgerTerms ==
    LedgerReconciles
      <=> /\ \A s \in Symbols :
               /\ Balanced(positions[s])
               /\ positions[s].quantity = 0 => positions[s] = NoPosition
          /\ \A n \in DOMAIN account.trades :
               account.trades[n].pnl
                 = account.trades[n].exit - account.trades[n].entry
          /\ account.cash = StartCash - account.spent + account.received
                              - account.fees
          /\ account.cash - StartCash = SumFunction(Nets(account.trades))
                                          + SumFunction(Worths(positions))
  BY DEF LedgerReconciles, InventoryReconciles, CashReconciles, Balanced, Nets,
         Worths, NetWorth

\* A fill: the position of the symbol and the account are booked together.
LEMMA FillLedger ==
    ASSUME IndInv, LedgerReconciles, NEW i \in turn.waiting, SettleFill(i)
    PROVE  LedgerReconciles'
<1> DEFINE s == turn.symbol
           held == positions[s]
           side == orders[i].side
           quantity == FillQuantity(i)
           turnover == FillTurnover(i)
           cost == FillCost(i)
           after == Filled(held, side, quantity, turnover, cost)
           booked == Booked(held, side, quantity, turnover, cost)
           new == Charged(account, s, held, side, quantity, turnover, cost)
           flow == Flow(side, turnover, cost)
<1>1. /\ s \in Symbols /\ held \in PositionRecord /\ account \in AccountRecord
      /\ positions \in [Symbols -> PositionRecord]
      /\ side \in Side
  BY InTurn DEF IndInv, TypeOK, OrderRecord
<1>2. /\ quantity \in Nat \ {0} /\ turnover \in Nat /\ cost \in Nat
      /\ side = "SELL" => quantity <= held.quantity
      /\ account' = new /\ positions' = [positions EXCEPT ![s] = booked]
  BY FillEffect
<1>3. /\ \A t \in Symbols : /\ Balanced(positions[t])
                            /\ positions[t].quantity = 0
                                 => positions[t] = NoPosition
      /\ \A n \in DOMAIN account.trades :
           account.trades[n].pnl
             = account.trades[n].exit - account.trades[n].entry
      /\ account.cash = StartCash - account.spent + account.received
                          - account.fees
      /\ account.cash - StartCash = SumFunction(Nets(account.trades))
                                      + SumFunction(Worths(positions))
  BY LedgerTerms
<1> HIDE DEF s, held, side, quantity, turnover, cost
<1>4. Balanced(held)
  BY <1>1, <1>3 DEF held
<1>5. /\ after \in PositionRecord /\ Balanced(after)
      /\ NetWorth(after) = NetWorth(held) + flow
      /\ after.quantity = 0 => after.basis = 0
  BY <1>1, <1>2, <1>4, FilledBalanced
<1>6. /\ new.cash = account.cash + flow
      /\ new.received - new.spent - new.fees
           = account.received - account.spent - account.fees + flow
      /\ new.trades = IF after.quantity = 0
                      THEN Append(account.trades, Trade(s, after))
                      ELSE account.trades
  BY <1>1, <1>2, ChargedBalanced
<1>7. new \in AccountRecord /\ booked \in PositionRecord
  BY <1>1, <1>2, BookingType
<1>8. booked = IF after.quantity = 0 THEN NoPosition ELSE after
  BY DEF Booked
<1> DEFINE trade == Trade(s, after)
<1>9. /\ trade \in TradeRecord
      /\ trade.pnl = after.realized /\ trade.net = after.realized - after.costs
      /\ trade.exit = after.sellValue /\ trade.entry = after.buyValue
  BY <1>1, <1>5 DEF Trade, TradeRecord, PositionRecord
<1>10. /\ after.realized \in Int /\ after.costs \in Nat /\ after.basis \in Nat
       /\ after.sellValue \in Nat /\ after.buyValue \in Nat
  BY <1>5 DEF PositionRecord
<1>11. flow \in Int /\ NetWorth(held) \in Int
  <2>1. /\ held.realized \in Int /\ held.costs \in Nat /\ held.basis \in Nat
    BY <1>1 DEF PositionRecord
  <2>2. flow \in Int
    BY <1>2 DEF Flow
  <2> QED BY <2>1, <2>2 DEF NetWorth
<1>12. /\ account.cash \in Int /\ account.spent \in Nat
       /\ account.received \in Nat /\ account.fees \in Nat
       /\ account.trades \in Seq(TradeRecord)
       /\ new.cash \in Int /\ new.spent \in Nat
       /\ new.received \in Nat /\ new.fees \in Nat
       /\ new.trades \in Seq(TradeRecord)
  BY <1>1, <1>7 DEF AccountRecord
<1> HIDE DEF after, booked, new, flow, trade
<1>13. new.cash = StartCash - new.spent + new.received - new.fees
  <2>1. StartCash \in Int
    BY Constants
  <2>2. account.cash = StartCash - account.spent + account.received
                         - account.fees
    BY <1>3
  <2>3. /\ new.cash = account.cash + flow
        /\ new.received - new.spent - new.fees
             = account.received - account.spent - account.fees + flow
    BY <1>6
  <2>4. /\ account.cash \in Int /\ account.spent \in Int
        /\ account.received \in Int /\ account.fees \in Int
        /\ new.cash \in Int /\ new.spent \in Int
        /\ new.received \in Int /\ new.fees \in Int
    BY <1>12
  <2> DEFINE sum == account.received - account.spent - account.fees
             more == new.received - new.spent - new.fees
  <2>5. sum \in Int /\ more \in Int
    BY <2>4
  <2>6. account.cash = StartCash + sum
    BY <2>1, <2>2, <2>4
  <2>7. new.cash = StartCash + more
    <3>1. more = sum + flow
      BY <2>3
    <3> HIDE DEF sum, more
    <3> QED BY <1>11, <2>1, <2>3, <2>5, <2>6, <3>1
  <2> QED BY <2>1, <2>4, <2>7
<1>14. \A t \in Symbols :
         /\ Balanced(positions'[t])
         /\ positions'[t].quantity = 0 => positions'[t] = NoPosition
  <2>1. Balanced(booked) /\ (booked.quantity = 0 => booked = NoPosition)
    BY <1>5, <1>8 DEF Balanced, NoPosition
  <2> QED BY <1>1, <1>2, <1>3, <2>1
<1>15. \A n \in DOMAIN new.trades :
         new.trades[n].pnl = new.trades[n].exit - new.trades[n].entry
  <2>1. CASE after.quantity # 0
    BY <1>3, <1>6, <2>1
  <2>2. CASE after.quantity = 0
    <3>1. trade.pnl = trade.exit - trade.entry
      BY <1>5, <1>9, <1>10, <2>2 DEF Balanced
    <3>2. new.trades = Append(account.trades, trade)
      BY <1>6, <2>2 DEF trade
    <3>3. ASSUME NEW n \in DOMAIN new.trades
          PROVE  \/ n \in DOMAIN account.trades
                    /\ new.trades[n] = account.trades[n]
                 \/ new.trades[n] = trade
      BY <1>9, <1>12, <3>2
    <3> QED BY <1>3, <3>1, <3>3
  <2> QED BY <2>1, <2>2
<1>16. SumFunction(Worths(positions'))
         = SumFunction(Worths(positions)) - NetWorth(held) + NetWorth(booked)
  BY <1>1, <1>2, <1>7, WorthsChange DEF held
<1>17. /\ SumFunction(Worths(positions)) \in Int
       /\ SumFunction(Nets(account.trades)) \in Int
  BY <1>1, <1>12, LedgerSums
<1>18. new.cash - StartCash = SumFunction(Nets(new.trades))
                                + SumFunction(Worths(positions'))
  <2> DEFINE worths == SumFunction(Worths(positions))
             nets == SumFunction(Nets(account.trades))
             more == SumFunction(Worths(positions'))
             grown == SumFunction(Nets(new.trades))
  <2>1. /\ worths \in Int /\ nets \in Int
        /\ more = worths - NetWorth(held) + NetWorth(booked)
        /\ account.cash - StartCash = nets + worths
    BY <1>3, <1>16, <1>17
  <2>2. grown + NetWorth(booked) = nets + NetWorth(after) /\ NetWorth(booked) \in Int
        /\ grown \in Int
    <3>1. CASE after.quantity # 0
      <4>1. booked = after /\ new.trades = account.trades
        BY <1>6, <1>8, <3>1
      <4> QED BY <1>10, <1>17, <4>1 DEF NetWorth
    <3>2. CASE after.quantity = 0
      <4>1. booked = NoPosition /\ new.trades = Append(account.trades, trade)
        BY <1>6, <1>8, <3>2 DEF trade
      <4>2. NetWorth(booked) = 0
        BY <4>1 DEF NetWorth, NoPosition
      <4>3. trade.net = NetWorth(after)
        BY <1>5, <1>9, <1>10, <3>2 DEF NetWorth
      <4>4. grown = nets + trade.net
        BY <1>9, <1>12, <4>1, NetsGrow
      <4>5. trade.net \in Int
        BY <1>9, <1>10
      <4> QED BY <1>17, <4>2, <4>3, <4>4, <4>5
    <3> QED BY <3>1, <3>2
  <2> HIDE DEF worths, nets, more, grown
  <2>3. NetWorth(after) \in Int
    BY <1>10 DEF NetWorth
  <2>4. /\ StartCash \in Int /\ new.cash = account.cash + flow
        /\ NetWorth(after) = NetWorth(held) + flow
    BY <1>5, <1>6, Constants
  <2>5. account.cash \in Int /\ new.cash \in Int
    BY <1>12
  <2>6. new.cash - StartCash = grown + more
    BY <1>11, <2>1, <2>2, <2>3, <2>4, <2>5
  <2> QED BY <2>6 DEF grown, more
<1>19. account' = new
  BY <1>2
<1> QED BY <1>13, <1>14, <1>15, <1>18, <1>19
        DEF LedgerReconciles, InventoryReconciles, CashReconciles, Balanced,
            Nets, Worths, NetWorth

\* The ledger explains itself, whatever the strategy.
LEMMA LedgerInvariant == AnySpec => []LedgerReconciles
<1>1. Init => LedgerReconciles
  <2> SUFFICES ASSUME Init PROVE LedgerReconciles
    OBVIOUS
  <2>1. /\ account = NewAccount(StartCash)
        /\ positions = [s \in Symbols |-> NoPosition]
    BY DEF Init
  <2>2. /\ account.cash = StartCash /\ account.spent = 0
        /\ account.received = 0 /\ account.fees = 0 /\ account.trades = <<>>
    BY <2>1 DEF NewAccount
  <2>3. /\ NoPosition \in PositionRecord
        /\ Balanced(NoPosition) /\ NetWorth(NoPosition) = 0
    BY DEF NoPosition, PositionRecord, Balanced, NetWorth
  <2>4. SumFunction(Nets(<<>>)) = 0 /\ SumFunction(Worths(positions)) = 0
    <3>1. /\ <<>> \in Seq(TradeRecord) /\ DOMAIN <<>> = {}
          /\ positions \in [Symbols -> PositionRecord]
      BY <2>1, <2>3
    <3>2. /\ IsFiniteSet(Symbols) /\ Worths(positions) \in [Symbols -> Int]
          /\ IsFiniteSet({}) /\ Nets(<<>>) \in [{} -> Int]
      BY <3>1, LedgerSums
    <3>3. \A s \in Symbols : Worths(positions)[s] = 0
      BY <2>1, <2>3 DEF Worths
    <3> QED BY <3>2, <3>3, SumZero
  <2>5. StartCash \in Int
    BY Constants
  <2>6. /\ account.cash = StartCash - account.spent + account.received
                            - account.fees
        /\ account.cash - StartCash = SumFunction(Nets(account.trades))
                                        + SumFunction(Worths(positions))
    BY <2>2, <2>4, <2>5
  <2>7. \A s \in Symbols : positions[s] = NoPosition
    BY <2>1
  <2> QED BY <2>2, <2>3, <2>6, <2>7, LedgerTerms
<1>2. IndInv /\ [AnyNext]_vars /\ LedgerReconciles => LedgerReconciles'
  <2> SUFFICES ASSUME IndInv, [AnyNext]_vars, LedgerReconciles
               PROVE  LedgerReconciles'
    OBVIOUS
  <2>1. CASE UNCHANGED <<account, positions>>
    BY <2>1 DEF LedgerReconciles, InventoryReconciles, CashReconciles
  <2> QED BY <2>1, StepHeld, FillLedger
<1> QED BY <1>1, <1>2, Inductive, PTL DEF AnySpec

\* Whatever was bought and sold, in whatever parts and with whatever charges,
\* the ledger explains itself to the last unit: each position's profit by its
\* sales, purchases and basis, each trade by its own, and the cash by both the
\* totals and the results of all trades and open positions.
THEOREM LedgerExplained == Spec => []LedgerReconciles
  BY LedgerInvariant, SpecIsAny, PTL

(***************************************************************************)
(* The volume of a candle.                                                 *)
(***************************************************************************)

\* What has been filled and what is left make up what there was.
VolumeShared ==
    phase = "settle" /\ Participates =>
        SumFunction(FilledThisBar) + turn.capacity = Capacity(turn.bar)

\* What an order has filled in the candle is a number, 0 without a fill.
LEMMA FilledType ==
    ASSUME IndInv
    PROVE  /\ IsFiniteSet(OrderIds) /\ FilledThisBar \in [OrderIds -> Int]
           /\ \A i \in OrderIds :
                (\A f \in fills : f.order # i) => FilledThisBar[i] = 0
<1>1. OrderIds = 1..Len(orders) /\ Len(orders) \in Nat
  BY DEF IndInv, TypeOK, OrderIds
<1>2. IsFiniteSet(OrderIds)
  BY <1>1, FS_Interval
<1>3. ASSUME NEW i \in OrderIds
      PROVE  /\ FilledThisBar[i] \in Int
             /\ (\A f \in fills : f.order # i) => FilledThisBar[i] = 0
  <2> DEFINE mine == {f \in fills : f.order = i}
  <2>1. FilledThisBar[i] = IF mine = {} THEN 0
                           ELSE (CHOOSE f \in mine : TRUE).quantity
    BY DEF FilledThisBar
  <2>2. mine # {} => (CHOOSE f \in mine : TRUE) \in fills
    OBVIOUS
  <2>3. \A f \in fills : f.quantity \in Nat
    BY DEF IndInv, TypeOK
  <2> QED BY <2>1, <2>2, <2>3
<1> QED BY <1>2, <1>3 DEF FilledThisBar

\* A fill of an order that had none adds its quantity to the sum.
LEMMA FillVolume ==
    ASSUME IndInv, InCandle, NEW i \in turn.waiting, SettleFill(i)
    PROVE  SumFunction(FilledThisBar')
             = SumFunction(FilledThisBar) + FillQuantity(i)
<1> DEFINE fill == [order |-> i, quantity |-> FillQuantity(i),
                    price |-> Price(i)]
<1>1. i \in OrderIds /\ \A f \in fills : f.order # i
  BY InTurn DEF InCandle
<1>2. fills' = fills \cup {fill} /\ FillQuantity(i) \in Nat
  BY FillEffect
<1>3. fill.order = i /\ fill.quantity = FillQuantity(i)
  OBVIOUS
<1>4. OrderIds' = OrderIds
  BY FillKept
<1> HIDE DEF fill
<1>5. ASSUME NEW j \in OrderIds
      PROVE  {f \in fills' : f.order = j}
               = IF j = i THEN {fill} ELSE {f \in fills : f.order = j}
  BY <1>1, <1>2, <1>3
<1>6. FilledThisBar'[i] = FillQuantity(i)
  <2>1. {f \in fills' : f.order = i} = {fill}
    BY <1>1, <1>5
  <2>2. (CHOOSE f \in {fill} : TRUE) = fill
    OBVIOUS
  <2> QED BY <1>1, <1>3, <1>4, <2>1, <2>2 DEF FilledThisBar
<1>7. ASSUME NEW j \in OrderIds \ {i}
      PROVE  FilledThisBar'[j] = FilledThisBar[j]
  <2> DEFINE before == {f \in fills : f.order = j}
             now == {f \in fills' : f.order = j}
  <2>1. now = before
    BY <1>5
  <2>2. FilledThisBar[j] = IF before = {} THEN 0 ELSE Pick(before).quantity
    BY DEF FilledThisBar, Pick
  <2>3. FilledThisBar'[j] = IF now = {} THEN 0 ELSE Pick(now).quantity
    BY <1>4 DEF FilledThisBar, Pick
  <2> HIDE DEF before, now
  <2> QED BY <2>1, <2>2, <2>3
<1>8. FilledThisBar[i] = 0
  BY <1>1, FilledType
<1>9. /\ FilledThisBar \in [OrderIds -> Int] /\ IsFiniteSet(OrderIds)
      /\ FilledThisBar' \in [OrderIds -> Int]
  <2>1. FilledThisBar' = [j \in OrderIds |-> FilledThisBar'[j]]
    BY <1>4 DEF FilledThisBar
  <2>2. \A j \in OrderIds : FilledThisBar'[j] \in Int
    BY <1>2, <1>6, <1>7, FilledType
  <2> QED BY <2>1, <2>2, FilledType
<1> QED BY <1>1, <1>2, <1>6, <1>7, <1>8, <1>9, SumChange, SumType

\* The fills in a candle stay within what it has left, step by step.
LEMMA StepVolume ==
    IndInv /\ [AnyNext]_vars /\ InCandle /\ VolumeShared => VolumeShared'
<1> SUFFICES ASSUME IndInv, [AnyNext]_vars, InCandle, VolumeShared
             PROVE  VolumeShared'
  OBVIOUS
<1>1. ASSUME NEW s \in Symbols, BeginBar(s) PROVE VolumeShared'
  <2>1. PICK bar \in Bars : turn'.bar = bar /\ turn'.capacity = Capacity(bar)
    BY <1>1 DEF BeginBar
  <2>2. fills' = {} /\ UNCHANGED orders
    BY <1>1 DEF BeginBar
  <2>3. FilledThisBar' = [i \in OrderIds |-> 0]
    BY <2>2 DEF FilledThisBar, OrderIds
  <2> DEFINE none == [i \in OrderIds |-> 0]
  <2>4. SumFunction(none) = 0
    <3>1. IsFiniteSet(OrderIds) /\ none \in [OrderIds -> Int]
          /\ \A i \in OrderIds : none[i] = 0
      BY FilledType
    <3> HIDE DEF none
    <3> QED BY <3>1, SumZero
  <2>5. Participates => Capacity(bar) \in Int
    <3>1. bar.volume \in Nat /\ RateNum \in Nat /\ RateDen \in Nat \ {0}
      BY Constants DEF BarType
    <3>2. bar.volume * RateNum \in Nat
      BY <3>1
    <3> QED BY <3>1, <3>2 DEF Capacity
  <2> QED BY <2>1, <2>3, <2>4, <2>5 DEF VolumeShared
<1>2. ASSUME NEW i \in turn.waiting,
             SettleSkip(i) \/ SettleDry(i) \/ SettleReject(i)
      PROVE  VolumeShared'
  <2>1. /\ UNCHANGED <<phase, fills>> /\ turn' = [turn EXCEPT !.waiting = @ \ {i}]
        /\ ~(Decide \/ ApplyTrade) /\ ~(\E s \in Symbols : Liquidate(s))
    BY <1>2 DEF SettleSkip, SettleDry, SettleReject, Visited, clock, Turn,
                Decide, ApplyTrade, Liquidate, Opened
  <2>2. turn'.bar = turn.bar /\ turn'.capacity = turn.capacity
    BY <2>1 DEF IndInv, TypeOK, TurnRecord
  <2>3. OrderIds' = OrderIds
    BY <2>1, OtherKept
  <2>4. FilledThisBar' = FilledThisBar
    BY <2>1, <2>3 DEF FilledThisBar
  <2> QED BY <2>1, <2>2, <2>4 DEF VolumeShared
<1>3. ASSUME NEW i \in turn.waiting, SettleFill(i) PROVE VolumeShared'
  <2>1. /\ SumFunction(FilledThisBar')
             = SumFunction(FilledThisBar) + FillQuantity(i)
        /\ SumFunction(FilledThisBar) \in Int /\ FillQuantity(i) \in Nat
        /\ turn.capacity \in Nat
    BY <1>3, FillVolume, FilledType, SumType, FillEffect, InTurn
  <2>2. /\ turn'.bar = turn.bar /\ UNCHANGED phase
        /\ Participates => turn'.capacity = turn.capacity - FillQuantity(i)
    <3>1. /\ turn' = [turn EXCEPT !.waiting = @ \ {i},
                        !.capacity = IF Participates THEN @ - FillQuantity(i)
                                                     ELSE @]
          /\ UNCHANGED phase
      BY <1>3, FillEffect
    <3>2. turn \in TurnRecord
      BY DEF IndInv, TypeOK
    <3> QED BY <3>1, <3>2 DEF TurnRecord
  <2> QED BY <2>1, <2>2 DEF VolumeShared
<1>4. CASE UNCHANGED vars
  BY <1>4 DEF VolumeShared, FilledThisBar, OrderIds, vars
<1>5. CASE phase' # "settle"
  BY <1>5 DEF VolumeShared
<1>6. CASE \/ Decide \/ StartOpenings \/ EndSlot \/ EndBar \/ CallStrategy
           \/ AnyEvaluate \/ ApplyTrade \/ ApplyCancel \/ EndApply \/ SessionClose
           \/ \E s \in Symbols : BarOpen(s) \/ Liquidate(s)
  <2>1. phase' # "settle"
    BY <1>6 DEF Decide, StartOpenings, EndSlot, EndBar, CallStrategy, AnyEvaluate,
                ApplyTrade, ApplyCancel, EndApply, SessionClose, BarOpen,
                Liquidate, Opened, Leave, Deliver, Raise, Fail, clock
  <2> QED BY <1>5, <2>1
<1> QED BY <1>1, <1>2, <1>3, <1>4, <1>6 DEF AnyNext, AnyStep, Loop, SettleOne, Ended

LEMMA AnyVolumeOnce == AnySpec => []BarCapacity
<1>1. Init => VolumeShared
  BY DEF Init, VolumeShared
<1>2. IndInv /\ [AnyNext]_vars /\ InCandle /\ VolumeShared => VolumeShared'
  BY StepVolume
<1>3. IndInv /\ VolumeShared => BarCapacity
  <2> SUFFICES ASSUME IndInv, VolumeShared, phase = "settle", Participates
               PROVE  SumFunction(FilledThisBar) <= Capacity(turn.bar)
    BY DEF BarCapacity
  <2>1. /\ SumFunction(FilledThisBar) \in Int /\ turn.capacity \in Nat
        /\ SumFunction(FilledThisBar) + turn.capacity = Capacity(turn.bar)
    <3>1. turn.capacity \in Nat
      BY DEF IndInv, TypeOK, TurnRecord
    <3> QED BY <3>1, FilledType, SumType DEF VolumeShared
  <2> HIDE DEF FilledThisBar
  <2> QED BY <2>1
<1> QED BY <1>1, <1>2, <1>3, CandleInvariant, PTL DEF AnySpec

\* All orders of a symbol together execute no more of a candle than the
\* participation rate leaves of its volume, however many of them are in reach,
\* and whatever they ask for.
THEOREM VolumeUsedOnce == Spec => []BarCapacity
  BY AnyVolumeOnce, SpecIsAny, PTL

(***************************************************************************)
(* The promised book.                                                      *)
(***************************************************************************)

\* A session is closed behind its last candle, and so behind the cutoff.
ClosesLate == phase = "close" => slot = Slots

\* A session closes after its last slot only.
LEMMA StepClosesLate ==
    IndInv /\ [AnyNext]_vars /\ ClosesLate => ClosesLate'
<1> SUFFICES ASSUME IndInv, [AnyNext]_vars, ClosesLate PROVE ClosesLate'
  OBVIOUS
<1>1. CASE EndBar \/ EndApply
  <2>1. slot \in 1..Slots /\ Slots \in Nat
    BY Constants DEF IndInv, TypeOK
  <2>2. phase' = "close" => ~(slot < Slots) /\ slot' = slot
    BY <1>1 DEF EndBar, EndApply, Leave
  <2> QED BY <2>1, <2>2 DEF ClosesLate
<1>2. CASE ~(EndBar \/ EndApply)
  <2>1. phase' # "close" \/ UNCHANGED <<phase, slot>>
    BY <1>2 DEF AnyNext, AnyStep, Loop, SettleOne, Ended, Decide, StartOpenings,
       BarOpen, Liquidate, Opened, EndSlot, BeginBar, SettleSkip, SettleDry,
       SettleReject, SettleFill, Fail, Raise, Deliver, CallStrategy, AnyEvaluate,
       ApplyTrade, ApplyCancel, SessionClose, clock, vars
  <2> QED BY <2>1 DEF ClosesLate
<1> QED BY <1>1, <1>2

\* A fill is a purchase or a sale of the book: a purchase is paid from cash at
\* hand and happens before the cutoff, since the forced order is a sale.
LEMMA FillBooks ==
    ASSUME IndInv, IndInv', InCandle, NEW i \in turn.waiting, SettleFill(i)
    PROVE  Book!Buy \/ Book!Sell
<1> DEFINE s == turn.symbol
           held == [t \in Symbols |-> Held(t)]
<1>1. /\ s \in Symbols /\ Held(s) \in Nat
      /\ \A t \in Symbols \ {s} : positions'[t] = positions[t]
      /\ positions'[s].quantity = IF orders[i].side = "BUY"
                                  THEN Held(s) + FillQuantity(i)
                                  ELSE Held(s) - FillQuantity(i)
  BY FillHeld
<1>2. /\ FillQuantity(i) \in Nat \ {0}
      /\ FillTurnover(i) \in Nat /\ FillCost(i) \in Nat
      /\ orders[i].side = "SELL" => FillQuantity(i) <= Held(s)
      /\ orders[i].side = "BUY" => FillTurnover(i) + FillCost(i) <= account.cash
      /\ UNCHANGED <<session, slot, phase>>
  BY FillEffect DEF Held
<1>3. /\ positions[s] \in PositionRecord /\ account \in AccountRecord
      /\ account.cash \in Int /\ orders[i].side \in Side
      /\ orders[i].forced => orders[i].side = "SELL"
  BY <1>1, InTurn DEF IndInv, TypeOK, OrderRecord, AccountRecord
<1>4. account'.cash = account.cash + Flow(orders[i].side, FillTurnover(i),
                                          FillCost(i))
  <2>1. account' = Charged(account, s, positions[s], orders[i].side,
                           FillQuantity(i), FillTurnover(i), FillCost(i))
    BY FillEffect
  <2>2. orders[i].side = "SELL" => FillQuantity(i) <= positions[s].quantity
    BY <1>2 DEF Held
  <2> QED BY <1>1, <1>2, <1>3, <2>1, <2>2, ChargedBalanced
<1>5. /\ held' = [held EXCEPT ![s] = held'[s]]
      /\ held'[s] = positions'[s].quantity /\ held[s] = Held(s)
  <2>1. \A t \in Symbols \ {s} : held'[t] = held[t]
    BY <1>1 DEF Held
  <2>2. held'[s] = positions'[s].quantity /\ held[s] = Held(s)
    BY <1>1 DEF Held
  <2> HIDE DEF s
  <2> QED BY <1>1, <2>1, <2>2
<1>6. phase = "settle" /\ UNCHANGED <<session, Regime>>
  <2>1. phase = "settle"
    BY DEF InCandle
  <2> QED BY <1>2, <2>1 DEF Regime
<1>7. CASE orders[i].side = "BUY"
  <2>1. Regime = "trading"
    <3>1. slot < Cutoff
      BY <1>3, <1>7 DEF InCandle
    <3> QED BY <1>6, <3>1 DEF Regime
  <2>2. held'[s] > held[s] /\ held'[s] >= 0
    BY <1>1, <1>2, <1>5, <1>7
  <2>3. 0 <= account'.cash /\ account'.cash <= account.cash
    BY <1>2, <1>3, <1>4, <1>7 DEF Flow
  <2> HIDE DEF held, s
  <2>4. Book!Buy
    BY <1>1, <1>5, <1>6, <2>1, <2>2, <2>3 DEF Book!Buy, Book!Changes, held
  <2> QED BY <2>4
<1>8. CASE orders[i].side = "SELL"
  <2>1. Regime \in {"trading", "liquidating"}
    BY <1>6 DEF Regime
  <2>2. held'[s] < held[s] /\ held'[s] >= 0
    BY <1>1, <1>2, <1>5, <1>8
  <2> HIDE DEF held, s
  <2>3. Book!Sell
    BY <1>1, <1>5, <1>6, <2>1, <2>2 DEF Book!Sell, Book!Changes, held
  <2> QED BY <2>3
<1> QED BY <1>3, <1>7, <1>8 DEF Side

\* What the other steps are to the book.
LEMMA StepBooks ==
    ASSUME IndInv, IndInv', [AnyNext]_vars, InCandle, ClosesLate
    PROVE  [Book!BookNext]_(Book!bookVars)
<1>1. /\ slot \in 1..Slots /\ session \in 1..Sessions /\ Slots \in Nat \ {0}
      /\ Sessions \in Nat \ {0} /\ Cutoff \in 1..Slots
  BY Constants, CutoffType DEF IndInv, TypeOK
<1>2. ASSUME NEW i \in turn.waiting, SettleFill(i)
      PROVE  Book!BookNext
  BY <1>2, FillBooks DEF Book!BookNext
<1> DEFINE Alive == phase \notin {"done", "failed"}
<1>3. ASSUME UNCHANGED <<session, slot, account, positions>>,
             Alive, Alive'
      PROVE  UNCHANGED Book!bookVars
  BY <1>3 DEF Book!bookVars, Regime, Held
<1>4. ASSUME UNCHANGED <<session, account, positions>>, Alive, phase' = "failed"
      PROVE  Book!Abandon
  BY <1>4 DEF Book!Abandon, Regime, Held
<1>5. CASE EndBar \/ EndApply
  <2>1. /\ UNCHANGED <<session, account, positions>> /\ Alive /\ Alive'
        /\ slot' = slot \/ slot' = slot + 1
    BY <1>5 DEF EndBar, EndApply, Leave, books
  <2>2. CASE slot < Cutoff /\ slot' >= Cutoff
    BY <1>1, <2>1, <2>2 DEF Book!BookNext, Book!StopTrading, Regime, Held
  <2>3. CASE ~(slot < Cutoff /\ slot' >= Cutoff)
    <3>1. slot < Cutoff <=> slot' < Cutoff
      BY <1>1, <2>1, <2>3
    <3> QED BY <2>1, <3>1 DEF Book!bookVars, Regime, Held
  <2> QED BY <2>2, <2>3
<1>6. CASE SessionClose
  <2>1. CASE \E s \in Symbols : Held(s) > 0
    <3>1. /\ UNCHANGED <<session, account, positions>> /\ phase' = "failed"
          /\ Alive
      BY <1>6, <2>1 DEF SessionClose, Fail, books
    <3> QED BY <1>4, <3>1 DEF Book!BookNext
  <2>2. CASE ~\E s \in Symbols : Held(s) > 0
    <3>1. \A s \in Symbols : Held(s) = 0
      <4>1. \A s \in Symbols : Held(s) \in Nat
        BY DEF IndInv, TypeOK, Held, PositionRecord
      <4> QED BY <2>2, <4>1
    <3>2. Regime = "liquidating" /\ Book!Flat
      <4>1. phase = "close" /\ slot = Slots
        BY <1>6 DEF SessionClose, ClosesLate
      <4>2. ~(slot < Cutoff)
        BY <1>1, <4>1
      <4> QED BY <3>1, <4>1, <4>2 DEF Regime, Book!Flat
    <3>3. UNCHANGED <<account, positions>>
      BY <1>6 DEF SessionClose, books
    <3>4. CASE session < Sessions
      <4>1. session' = session + 1 /\ phase' = "decide"
        BY <1>6, <2>2, <3>4 DEF SessionClose
      <4> QED BY <3>2, <3>3, <3>4, <4>1
              DEF Book!BookNext, Book!NextDay, Book!DayBegins, Regime, Held
    <3>5. CASE ~(session < Sessions)
      <4>1. session' = session /\ phase' = "done" /\ session = Sessions
        BY <1>1, <1>6, <2>2, <3>5 DEF SessionClose
      <4> QED BY <3>2, <3>3, <4>1 DEF Book!BookNext, Book!Finish, Regime, Held
    <3> QED BY <3>4, <3>5
  <2> QED BY <2>1, <2>2
<1>7. CASE UNCHANGED vars
  BY <1>7 DEF vars, Book!bookVars, Regime, Held
<1>8. CASE AnyEvaluate
  <2>1. /\ UNCHANGED <<session, slot, account, positions>> /\ Alive
        /\ phase' \in {"apply", "failed"}
    BY <1>8 DEF AnyEvaluate, Deliver, Raise, Fail, books
  <2> QED BY <1>3, <1>4, <2>1 DEF Book!BookNext
<1>9. ASSUME \/ Decide \/ StartOpenings \/ EndSlot \/ CallStrategy
             \/ ApplyTrade \/ ApplyCancel
             \/ \E s \in Symbols : BarOpen(s) \/ Liquidate(s) \/ BeginBar(s)
             \/ \E i \in turn.waiting :
                  SettleSkip(i) \/ SettleDry(i) \/ SettleReject(i)
      PROVE  UNCHANGED Book!bookVars
  <2>1. UNCHANGED <<session, slot, account, positions>> /\ Alive /\ Alive'
    BY <1>9 DEF Decide, StartOpenings, EndSlot, CallStrategy, ApplyTrade,
       ApplyCancel, BarOpen, Liquidate, Opened, BeginBar, SettleSkip, SettleDry,
       SettleReject, Turn, books, clock
  <2> QED BY <1>3, <2>1
<1> QED BY <1>2, <1>5, <1>6, <1>7, <1>8, <1>9
        DEF AnyNext, AnyStep, Loop, SettleOne, Ended

LEMMA AnyBook == AnySpec => ImplementsBook
<1>1. Init => Book!BookInit
  <2> SUFFICES ASSUME Init PROVE Book!BookInit
    OBVIOUS
  <2>1. /\ session = 1 /\ phase = "decide" /\ account = NewAccount(StartCash)
        /\ positions = [s \in Symbols |-> NoPosition]
    BY DEF Init
  <2>2. account.cash > 0 /\ \A s \in Symbols : Held(s) = 0
    BY <2>1, Constants DEF NewAccount, NoPosition, Held
  <2>3. Regime \in {"trading", "liquidating"}
    BY <2>1 DEF Regime
  <2> QED BY <2>1, <2>2, <2>3 DEF Book!BookInit
<1>2. Init => ClosesLate
  BY DEF Init, ClosesLate
<1>3. IndInv /\ [AnyNext]_vars /\ ClosesLate => ClosesLate'
  BY StepClosesLate
<1>4. IndInv /\ IndInv' /\ [AnyNext]_vars /\ InCandle /\ ClosesLate
        => [Book!BookNext]_(Book!bookVars)
  BY StepBooks
<1> QED BY <1>1, <1>2, <1>3, <1>4, CandleInvariant, PTL
        DEF AnySpec, ImplementsBook, Book!BookSpec

\* The loop implements the book that its reader is promised: long only, paid
\* from cash at hand, only shrinking from the cutoff on, and flat at every
\* close of a run that is not abandoned.
THEOREM BookImplemented == Spec => ImplementsBook
  BY AnyBook, SpecIsAny, PTL

(***************************************************************************)
(* More about finite sums and sets of numbers.                             *)
(***************************************************************************)

\* A function on a finite set is greatest somewhere.
LEMMA Greatest ==
    ASSUME NEW S, IsFiniteSet(S), S # {}, NEW f \in [S -> Int]
    PROVE  \E x \in S : \A y \in S : f[y] <= f[x]
<1> DEFINE Top(T, x) == x \in T /\ \A y \in T : f[y] <= f[x]
           B == {T \in SUBSET S : T # {} /\ ~\E x \in S : Top(T, x)}
<1>1. B = {}
  <2> SUFFICES ASSUME B # {} PROVE FALSE
    OBVIOUS
  <2>1. PICK T \in B : \A x \in T : T \ {x} \notin B
    <3>1. B \in SUBSET (SUBSET S)
      OBVIOUS
    <3> HIDE DEF B
    <3> QED BY <3>1, SmallestSubset
  <2>2. PICK x \in T : TRUE
    OBVIOUS
  <2>3. x \in S /\ f[x] \in Int
    OBVIOUS
  <2>4. CASE T \ {x} = {}
    <3>1. Top(T, x)
      BY <2>3, <2>4
    <3> QED BY <2>3, <3>1
  <2>5. CASE T \ {x} # {}
    <3>1. PICK y \in S : Top(T \ {x}, y)
      BY <2>1, <2>5
    <3>2. f[y] \in Int /\ y \in T
      BY <3>1
    <3>3. CASE f[x] <= f[y]
      <4>1. Top(T, y)
        BY <3>1, <3>2, <3>3
      <4> QED BY <4>1
    <3>4. CASE ~(f[x] <= f[y])
      <4>1. \A z \in T : f[z] \in Int
        OBVIOUS
      <4>2. Top(T, x)
        BY <2>3, <3>1, <3>2, <3>4, <4>1
      <4> QED BY <2>3, <4>2
    <3> QED BY <3>3, <3>4
  <2> QED BY <2>4, <2>5
<1> QED BY <1>1

\* The sums over the subsets of a set, all of them at once.
PartSum(g, f, S) ==
    /\ SumFunction(f) = g[S]
    /\ \A T \in SUBSET S :
         /\ g[T] \in Int
         /\ T = {} => g[T] = 0
         /\ \A x \in T : g[T] = f[x] + g[T \ {x}]
         /\ SumFunction([x \in T |-> f[x]]) = g[T]

\* They are the values of a function.
LEMMA PartSums ==
    ASSUME NEW S, IsFiniteSet(S), NEW f \in [S -> Int]
    PROVE  \E g : PartSum(g, f, S)
<1>1. PICK g : Sums(g, f, S) /\ SumFunction(f) = g[S]
  <2>1. SumFunction(f) = SumFunctionOnSet(f, S)
    BY DEF SumFunction
  <2> QED BY <2>1, SumDef, SumsExist
<1>2. ASSUME NEW R \in SUBSET S
      PROVE  SumFunction([x \in R |-> f[x]]) = g[R]
  <2> DEFINE h == [x \in R |-> f[x]]
  <2>1. DOMAIN h = R /\ \A x \in R : h[x] = f[x]
    OBVIOUS
  <2> HIDE DEF h
  <2>2. SumFunction(h) = SumFunctionOnSet(h, R) /\ IsFiniteSet(R)
    BY <2>1, FS_Subset DEF SumFunction
  <2>3. PICK k : Sums(k, h, R) /\ SumFunction(h) = k[R]
    BY <2>2, SumDef, SumsExist
  <2>4. k[R] = g[R]
    BY <1>1, <2>1, <2>3, SumsAgree
  <2> QED BY <2>3, <2>4 DEF h
<1>3. \A T \in SUBSET S : /\ g[T] \in Int
                          /\ T = {} => g[T] = 0
                          /\ \A x \in T : g[T] = f[x] + g[T \ {x}]
  BY <1>1, SumsValues
<1> QED BY <1>1, <1>2, <1>3 DEF PartSum

\* The last of the first k numbers.
LEMMA LastOut ==
    ASSUME NEW k \in Nat \ {0}
    PROVE  k \in 1..k /\ (1..k) \ {k} = 1..(k - 1)
  OBVIOUS

\* A finished run of numbers: the sum of differences is the whole difference.
LEMMA Telescope ==
    ASSUME NEW n \in Nat, NEW e \in [0..n -> Int], NEW f \in [1..n -> Int],
           \A k \in 1..n : f[k] = e[k] - e[k - 1]
    PROVE  SumFunction(f) = e[n] - e[0]
<1> DEFINE S == 1..n
           part(k) == 1..k
<1>1. IsFiniteSet(S) /\ f \in [S -> Int] /\ part(n) = S
  BY FS_Interval
<1>2. \A k \in 0..n : part(k) \in SUBSET S
  OBVIOUS
<1>3. part(0) = {}
  OBVIOUS
<1>4. \A k \in 1..n : k \in part(k) /\ part(k) \ {k} = part(k - 1)
  <2>1. ASSUME NEW k \in 1..n PROVE k \in 1..k /\ (1..k) \ {k} = 1..(k - 1)
    <3>1. k \in Nat \ {0}
      OBVIOUS
    <3> QED BY <3>1, LastOut
  <2> QED BY <2>1
<1> HIDE DEF S, part
<1>5. PICK g : PartSum(g, f, S)
  BY <1>1, PartSums
<1>6. /\ SumFunction(f) = g[S]
      /\ \A T \in SUBSET S : /\ g[T] \in Int
                             /\ T = {} => g[T] = 0
                             /\ \A x \in T : g[T] = f[x] + g[T \ {x}]
  BY <1>5 DEF PartSum
<1> DEFINE B == {k \in 0..n : g[part(k)] # e[k] - e[0]}
<1>7. B = {}
  <2> SUFFICES ASSUME B # {} PROVE FALSE
    OBVIOUS
  <2>1. PICK k \in B : \A j \in B : k <= j
    <3>1. B \in SUBSET Nat
      OBVIOUS
    <3> HIDE DEF B
    <3> QED BY <3>1, LeastNumber
  <2>2. k \in 0..n /\ g[part(k)] # e[k] - e[0] /\ e[k] \in Int /\ e[0] \in Int
    OBVIOUS
  <2>3. CASE k = 0
    <3>1. g[part(k)] = 0
      BY <1>2, <1>3, <1>6, <2>2, <2>3
    <3> QED BY <2>2, <2>3, <3>1
  <2>4. CASE k # 0
    <3>1. k - 1 \in 0..n /\ k \in 1..n /\ ~(k <= k - 1)
      BY <2>2, <2>4
    <3>2. k - 1 \notin B
      <4> HIDE DEF B
      <4> QED BY <2>1, <3>1
    <3>3. g[part(k - 1)] = e[k - 1] - e[0] /\ e[k - 1] \in Int
      BY <3>1, <3>2
    <3>4. g[part(k)] = f[k] + g[part(k - 1)]
      <4>1. part(k) \in SUBSET S /\ k \in part(k)
        BY <1>2, <1>4, <2>2, <3>1
      <4>2. g[part(k)] = f[k] + g[part(k) \ {k}]
        BY <1>6, <4>1
      <4> QED BY <1>4, <3>1, <4>2
    <3>5. f[k] = e[k] - e[k - 1]
      BY <3>1
    <3> HIDE DEF B
    <3> QED BY <2>2, <3>3, <3>4, <3>5
  <2> QED BY <2>3, <2>4
<1>8. n \in 0..n
  OBVIOUS
<1> QED BY <1>1, <1>6, <1>7, <1>8

\* The positive and the negative summands of a sum.
LEMMA SumOfSigns ==
    ASSUME NEW S, IsFiniteSet(S), NEW f \in [S -> Int]
    PROVE  SumFunction(f) = SumFunction([x \in {y \in S : f[y] > 0} |-> f[x]])
                              + SumFunction([x \in {y \in S : f[y] < 0} |-> f[x]])
<1> DEFINE P == {y \in S : f[y] > 0}
           N == {y \in S : f[y] < 0}
<1>1. PICK g : PartSum(g, f, S)
  BY PartSums
<1>2. /\ SumFunction(f) = g[S]
      /\ \A R \in SUBSET S : SumFunction([x \in R |-> f[x]]) = g[R]
  BY <1>1 DEF PartSum
<1>3. \A T \in SUBSET S : /\ g[T] \in Int
                          /\ T = {} => g[T] = 0
                          /\ \A x \in T : g[T] = f[x] + g[T \ {x}]
  BY <1>1 DEF PartSum
<1> DEFINE B == {T \in SUBSET S : g[T] # g[T \cap P] + g[T \cap N]}
<1>4. B = {}
  <2> SUFFICES ASSUME B # {} PROVE FALSE
    OBVIOUS
  <2>1. PICK T \in B : \A x \in T : T \ {x} \notin B
    <3>1. B \in SUBSET (SUBSET S)
      OBVIOUS
    <3> HIDE DEF B
    <3> QED BY <3>1, SmallestSubset
  <2>2. T \in SUBSET S /\ g[T] # g[T \cap P] + g[T \cap N]
    OBVIOUS
  <2>3. CASE T = {}
    <3>1. T \cap P = {} /\ T \cap N = {}
      BY <2>3
    <3>2. g[T] = 0 /\ g[{}] = 0
      BY <1>3, <2>2, <2>3
    <3> QED BY <2>2, <3>1, <3>2
  <2>4. CASE T # {}
    <3>1. PICK x \in T : TRUE
      BY <2>4
    <3> DEFINE U == T \ {x}
    <3>2. U \in SUBSET S /\ f[x] \in Int /\ g[T] = f[x] + g[U]
      BY <1>3, <2>2, <3>1
    <3>3. g[U] = g[U \cap P] + g[U \cap N]
      BY <2>1, <3>1, <3>2
    <3>4. /\ T \cap P \in SUBSET S /\ T \cap N \in SUBSET S
          /\ U \cap P \in SUBSET S /\ U \cap N \in SUBSET S
      BY <2>2
    <3>5. /\ g[U \cap P] \in Int /\ g[U \cap N] \in Int
      BY <1>3, <3>4
    <3> DEFINE a == f[x]
               p == g[U \cap P]
               q == g[U \cap N]
    <3>9. ASSUME NEW b, NEW c, b = g[T \cap P], c = g[T \cap N],
                 \/ b = a + p /\ c = q
                 \/ b = p /\ c = a + q
                 \/ b = p /\ c = q /\ a = 0
          PROVE  FALSE
      <4>1. g[T] = a + (p + q) /\ g[T] # b + c
        BY <2>2, <3>2, <3>3, <3>9
      <4>2. a \in Int /\ p \in Int /\ q \in Int
        BY <3>2, <3>5
      <4> HIDE DEF a, p, q
      <4> QED BY <3>9, <4>1, <4>2
    <3>6. CASE f[x] > 0
      <4>1. x \in T \cap P /\ (T \cap P) \ {x} = U \cap P /\ T \cap N = U \cap N
        <5>1. x \in P /\ x \notin N
          BY <2>2, <3>1, <3>2, <3>6
        <5> HIDE DEF P, N, B
        <5> QED BY <3>1, <5>1
      <4> HIDE DEF U, P, N, B
      <4>2. g[T \cap P] = f[x] + g[U \cap P] /\ g[T \cap N] = g[U \cap N]
        <5> DEFINE V == T \cap P
        <5>1. V \in SUBSET S /\ x \in V /\ V \ {x} = U \cap P
          BY <3>4, <4>1
        <5> HIDE DEF V
        <5>2. g[V] = f[x] + g[U \cap P]
          BY <1>3, <5>1
        <5> QED BY <4>1, <5>2 DEF V
      <4> QED BY <3>9, <4>2
    <3>7. CASE f[x] < 0
      <4>1. x \in T \cap N /\ (T \cap N) \ {x} = U \cap N /\ T \cap P = U \cap P
        <5>1. x \in N /\ x \notin P
          BY <2>2, <3>1, <3>2, <3>7
        <5> HIDE DEF P, N, B
        <5> QED BY <3>1, <5>1
      <4>2. g[T \cap N] = f[x] + g[U \cap N] /\ g[T \cap P] = g[U \cap P]
        BY <1>3, <3>4, <4>1
      <4> QED BY <3>9, <4>2
    <3>8. CASE f[x] = 0
      <4>1. T \cap N = U \cap N /\ T \cap P = U \cap P
        <5>1. x \notin N /\ x \notin P
          BY <3>8
        <5> HIDE DEF P, N, B
        <5> QED BY <3>1, <5>1
      <4>2. g[T \cap P] = g[U \cap P] /\ g[T \cap N] = g[U \cap N]
        BY <4>1
      <4> QED BY <3>9, <3>8, <4>2
    <3> QED BY <3>2, <3>6, <3>7, <3>8
  <2> QED BY <2>3, <2>4
<1>5. g[S] = g[P] + g[N]
  <2>1. S \cap P = P /\ S \cap N = N
    OBVIOUS
  <2> HIDE DEF P, N
  <2> QED BY <1>4, <2>1
<1> QED BY <1>1, <1>2, <1>5

(***************************************************************************)
(* The curve.                                                              *)
(***************************************************************************)

PointRecord == [day : 1..Sessions, equity : Int, peak : Int]

\* Each peak is the greatest equity of the points so far.
Peaks(points) ==
    \A n \in DOMAIN points :
        /\ \A m \in 1..n : points[m].equity <= points[n].peak
        /\ \E m \in 1..n : points[m].equity = points[n].peak

\* The curve starts with the capital and ends with the last mark, in the
\* present session; every session that is over has a point.
CurveInv ==
    /\ curve \in Seq(PointRecord) /\ curve # <<>>
    /\ Initial = StartCash
    /\ LastPoint.day = session /\ LastPoint.equity = Worth(equity)
    /\ Peaks(curve)
    /\ \A d \in 1..Sessions : d < session \/ phase = "done" => d \in Days

\* A run that is done has seen all sessions, is flat, and has marked its
\* account since.
RunOver ==
    phase = "done" =>
        /\ session = Sessions
        /\ \A s \in Symbols : Held(s) = 0
        /\ equity = Mark(account, positions, closes)

\* A mark is worth a number.
LEMMA WorthType ==
    ASSUME NEW mark \in [cash : Int, value : [Symbols -> Nat]]
    PROVE  Worth(mark) \in Int
<1>1. mark.cash \in Int /\ mark.value \in [Symbols -> Int]
  OBVIOUS
<1>2. SumFunction(mark.value) \in Int
  BY <1>1, SumType, SimulationAssumption
<1> QED BY <1>1, <1>2 DEF Worth

\* Marking a flat account finds its cash.
LEMMA FlatWorth ==
    ASSUME account \in AccountRecord, positions \in [Symbols -> PositionRecord],
           closes \in [Symbols -> Nat], \A s \in Symbols : Held(s) = 0
    PROVE  Worth(Mark(account, positions, closes)) = account.cash
<1> DEFINE mark == Mark(account, positions, closes)
<1>1. mark \in [cash : Int, value : [Symbols -> Nat]]
  BY MarkType
<1>2. mark.cash = account.cash /\ account.cash \in Int
  BY DEF Mark, AccountRecord
<1>3. \A s \in Symbols : mark.value[s] = 0
  <2>1. ASSUME NEW s \in Symbols
        PROVE  positions[s].quantity * (closes[s] * SlipDen) = 0
    <3>1. positions[s].quantity = 0 /\ closes[s] * SlipDen \in Nat
      BY Constants DEF Held
    <3> QED BY <3>1
  <2> QED BY <2>1 DEF Mark
<1> HIDE DEF mark
<1>4. SumFunction(mark.value) = 0
  <2>1. mark.value \in [Symbols -> Int]
    BY <1>1
  <2> QED BY <1>3, <2>1, SumZero, SimulationAssumption
<1> QED BY <1>2, <1>4 DEF mark, Worth

\* What a step may add to the curve.
NextPoint == Point(session, Worth(equity'))

\* A step adds no point and changes no mark, or one point in its session, or
\* on the change of sessions one in each of both.
LEMMA PointsOfStep ==
    ASSUME IndInv, curve \in Seq(PointRecord),
           [PerformanceNext]_performanceVars
    PROVE  \/ /\ UNCHANGED <<curve, equity, session>>
              /\ phase' = "done" => phase = "done"
           \/ /\ curve' = Append(curve, NextPoint)
              /\ session' = session
              /\ phase' = "done" => session = Sessions
           \/ /\ curve' = Append(Append(curve, NextPoint),
                                 [NextPoint EXCEPT !.day = session + 1])
              /\ session' = session + 1 /\ phase' # "done"
<1>1. CASE UNCHANGED performanceVars
  BY <1>1 DEF performanceVars, vars
<1>2. CASE Ended /\ UNCHANGED curve
  BY <1>2 DEF Ended, vars
<1>3. CASE Run
  <2>1. Step /\ curve' = curve \o Recorded
    BY <1>3 DEF Run
  <2>2. CASE EndBar \/ CallStrategy
    <3>1. phase = "settle" /\ phase' \notin {"settle", "failed"}
      BY <2>2 DEF EndBar, CallStrategy, Leave
    <3>2. session' = session /\ phase' # "done"
      BY <2>2 DEF EndBar, CallStrategy, Leave
    <3>3. Recorded = <<NextPoint>>
      BY <3>1 DEF Recorded, Completes, Closes, NextPoint
    <3> QED BY <2>1, <3>2, <3>3
  <2>3. CASE SessionClose
    <3>1. phase = "close" /\ ~Completes
      BY <2>3 DEF SessionClose, Completes
    <3>2. CASE phase' = "failed"
      <4>1. Recorded = <<>>
        BY <3>1, <3>2 DEF Recorded, Closes
      <4>2. UNCHANGED <<session, equity>>
        BY <2>3, <3>2 DEF SessionClose
      <4> QED BY <2>1, <3>2, <4>1, <4>2
    <3>3. CASE phase' # "failed"
      <4>1. Recorded = IF session' = session THEN <<NextPoint>>
                       ELSE <<NextPoint, [NextPoint EXCEPT !.day = session']>>
        BY <3>1, <3>3 DEF Recorded, Closes, NextPoint
      <4>3. session \in 1..Sessions /\ Sessions \in Int
        BY Constants DEF IndInv, TypeOK
      <4>2. \/ session' = session /\ session = Sessions
            \/ session' = session + 1 /\ phase' = "decide"
        BY <2>3, <3>3, <4>3 DEF SessionClose, Fail
      <4>4. CASE session' = session /\ session = Sessions
        BY <2>1, <4>1, <4>4
      <4>5. CASE session' = session + 1 /\ phase' = "decide"
        <5>1. Recorded = <<NextPoint, [NextPoint EXCEPT !.day = session + 1]>>
          BY <4>1, <4>3, <4>5
        <5>2. curve \o <<NextPoint, [NextPoint EXCEPT !.day = session + 1]>>
                = Append(Append(curve, NextPoint),
                         [NextPoint EXCEPT !.day = session + 1])
          OBVIOUS
        <5> QED BY <2>1, <4>5, <5>1, <5>2
      <4> QED BY <4>2, <4>4, <4>5
    <3> QED BY <3>2, <3>3
  <2>4. CASE ~(EndBar \/ CallStrategy \/ SessionClose)
    <3>1. /\ UNCHANGED <<equity, session>> /\ phase' # "done"
          /\ phase = "settle" => phase' \in {"settle", "failed"}
          /\ phase # "close"
      BY <2>1, <2>4 DEF Step, Loop, SettleOne, Decide, StartOpenings, BarOpen,
         Liquidate, Opened, EndSlot, BeginBar, SettleSkip, SettleDry,
         SettleReject, SettleFill, Turn, Fail, Raise, Deliver, Evaluate, ApplyTrade,
         ApplyCancel, EndApply, Leave, clock, marks
    <3>2. Recorded = <<>>
      BY <3>1 DEF Recorded, Completes, Closes
    <3> QED BY <2>1, <3>1, <3>2
  <2> QED BY <2>2, <2>3, <2>4
<1> QED BY <1>1, <1>2, <1>3 DEF PerformanceNext

DaysOf(points) == {points[n].day : n \in 2..Len(points)}

\* One more point of a curve.
LEMMA PointAdded ==
    ASSUME NEW points \in Seq(PointRecord), points # <<>>,
           NEW point \in PointRecord
    PROVE  LET more == Append(points, point)
           IN  /\ more \in Seq(PointRecord) /\ more # <<>>
               /\ more[1] = points[1] /\ more[Len(more)] = point
               /\ DaysOf(more) = DaysOf(points) \cup {point.day}
<1> DEFINE more == Append(points, point)
<1>1. Len(points) \in Nat \ {0} /\ DOMAIN points = 1..Len(points)
  OBVIOUS
<1>2. /\ more \in Seq(PointRecord) /\ Len(more) = Len(points) + 1
      /\ more[Len(points) + 1] = point
      /\ \A n \in 1..Len(points) : more[n] = points[n]
  BY <1>1
<1> HIDE DEF more
<1>3. more # <<>> /\ more[1] = points[1] /\ more[Len(more)] = point
  BY <1>1, <1>2
<1>4. 2..(Len(points) + 1) = 2..Len(points) \cup {Len(points) + 1}
  BY <1>1
<1>5. DaysOf(more) = DaysOf(points) \cup {point.day}
  <2>1. \A n \in 2..Len(points) : more[n].day = points[n].day
    BY <1>1, <1>2
  <2> QED BY <1>2, <1>4, <2>1 DEF DaysOf
<1> QED BY <1>2, <1>3, <1>5 DEF more

\* Its peak, carried from the point before, is the greatest so far.
LEMMA PeaksGrow ==
    ASSUME NEW points \in Seq(PointRecord), points # <<>>, Peaks(points),
           NEW point \in PointRecord,
           point.peak = IF points[Len(points)].peak > point.equity
                        THEN points[Len(points)].peak ELSE point.equity
    PROVE  Peaks(Append(points, point))
<1> DEFINE more == Append(points, point)
           l == Len(points)
<1>1. l \in Nat \ {0} /\ DOMAIN points = 1..l /\ l \in 1..l
  OBVIOUS
<1>2. /\ more \in Seq(PointRecord) /\ DOMAIN more = 1..(l + 1)
      /\ more[l + 1] = point
      /\ \A n \in 1..l : more[n] = points[n]
  BY <1>1
<1>3. /\ points[l].peak \in Int /\ point.equity \in Int /\ point.peak \in Int
      /\ \A n \in 1..l : points[n].equity \in Int
  <2>1. \A n \in 1..l : points[n] \in PointRecord
    BY <1>1
  <2> HIDE DEF l
  <2>2. points[l] \in PointRecord
    BY <1>1, <2>1
  <2> QED BY <2>1, <2>2 DEF PointRecord
<1> HIDE DEF more, l
<1>4. ASSUME NEW n \in 1..l
      PROVE  /\ \A m \in 1..n : more[m].equity <= more[n].peak
             /\ \E m \in 1..n : more[m].equity = more[n].peak
  <2>1. \A m \in 1..n : m \in 1..l
    BY <1>1
  <2> QED BY <1>1, <1>2, <2>1 DEF Peaks
<1>5. \A m \in 1..(l + 1) : more[m].equity <= more[l + 1].peak
  <2>1. \A m \in 1..l : points[m].equity <= points[l].peak
    BY <1>1 DEF Peaks, l
  <2>2. point.equity <= point.peak /\ points[l].peak <= point.peak
    BY <1>3 DEF l
  <2>3. \A m \in 1..l : points[m].equity <= point.peak
    BY <1>3, <2>1, <2>2
  <2> QED BY <1>1, <1>2, <2>2, <2>3
<1>6. \E m \in 1..(l + 1) : more[m].equity = more[l + 1].peak
  <2>1. CASE points[l].peak > point.equity
    <3>1. PICK m \in 1..l : points[m].equity = points[l].peak
      BY <1>1 DEF Peaks
    <3>2. m \in 1..(l + 1) /\ more[m].equity = point.peak
      BY <1>1, <1>2, <2>1, <3>1 DEF l
    <3> QED BY <1>2, <3>2
  <2>2. CASE ~(points[l].peak > point.equity)
    <3>1. l + 1 \in 1..(l + 1) /\ more[l + 1].equity = point.peak
      BY <1>1, <1>2, <2>2 DEF l
    <3> QED BY <1>2, <3>1
  <2> QED BY <2>1, <2>2
<1>7. ASSUME NEW n \in DOMAIN more PROVE n \in 1..l \/ n = l + 1
  BY <1>1, <1>2
<1> QED BY <1>4, <1>5, <1>6, <1>7 DEF Peaks, more

\* Every step keeps the curve.
LEMMA CurveStep ==
    ASSUME IndInv, IndInv', [PerformanceNext]_performanceVars, CurveInv
    PROVE  CurveInv'
<1> DEFINE point == NextPoint
           next == [NextPoint EXCEPT !.day = session + 1]
<1>1. /\ curve \in Seq(PointRecord) /\ curve # <<>> /\ Peaks(curve)
      /\ curve[1].equity = StartCash
      /\ curve[Len(curve)].day = session
      /\ curve[Len(curve)].equity = Worth(equity)
      /\ \A d \in 1..Sessions :
           d < session \/ phase = "done" => d \in DaysOf(curve)
  BY DEF CurveInv, LastPoint, Initial, Days, DaysOf
<1>2. /\ session \in 1..Sessions /\ session' \in 1..Sessions
      /\ Worth(equity') \in Int
  BY WorthType DEF IndInv, TypeOK
<1>3. curve[Len(curve)] \in PointRecord
  <2>1. Len(curve) \in DOMAIN curve
    BY <1>1
  <2> QED BY <1>1, <2>1
<1>4. /\ point \in PointRecord
      /\ point.day = session /\ point.equity = Worth(equity')
      /\ point.peak = IF curve[Len(curve)].peak > point.equity
                      THEN curve[Len(curve)].peak ELSE point.equity
  BY <1>2, <1>3 DEF NextPoint, Point, LastPoint, PointRecord
<1> HIDE DEF point
<1> DEFINE more == Append(curve, point)
<1>5. /\ more \in Seq(PointRecord) /\ more # <<>> /\ Peaks(more)
      /\ more[1] = curve[1] /\ more[Len(more)] = point
      /\ DaysOf(more) = DaysOf(curve) \cup {session}
  BY <1>1, <1>4, PointAdded, PeaksGrow
<1> HIDE DEF more
<1>6. CASE /\ UNCHANGED <<curve, equity, session>>
           /\ phase' = "done" => phase = "done"
  BY <1>1, <1>6 DEF CurveInv, LastPoint, Initial, Days, DaysOf
<1>7. CASE /\ curve' = more /\ session' = session
           /\ phase' = "done" => session = Sessions
  <2>1. \A d \in 1..Sessions :
          d < session' \/ phase' = "done" => d \in DaysOf(more)
    <3>1. ASSUME NEW d \in 1..Sessions, d < session' \/ phase' = "done"
          PROVE  d < session \/ d = session
      BY <1>2, <1>7, <3>1
    <3> QED BY <1>1, <1>5, <3>1
  <2>2. curve'[1].equity = StartCash /\ curve'[Len(curve')] = point
    BY <1>1, <1>5, <1>7
  <2> HIDE DEF next
  <2> QED BY <1>4, <1>5, <1>7, <2>1, <2>2
          DEF CurveInv, LastPoint, Initial, Days, DaysOf
<1>8. CASE /\ curve' = Append(more, next)
           /\ session' = session + 1 /\ phase' # "done"
  <2>1. /\ next \in PointRecord /\ next.day = session'
        /\ next.equity = point.equity /\ next.peak = point.peak
    BY <1>2, <1>4, <1>8 DEF point, PointRecord
  <2>2. next.peak = IF more[Len(more)].peak > next.equity
                    THEN more[Len(more)].peak ELSE next.equity
    <3>1. curve[Len(curve)].peak \in Int /\ point.equity \in Int
      BY <1>3, <1>4 DEF PointRecord
    <3> HIDE DEF next
    <3> QED BY <1>4, <1>5, <2>1, <3>1
  <2> HIDE DEF next
  <2>3. /\ curve' \in Seq(PointRecord) /\ curve' # <<>> /\ Peaks(curve')
        /\ curve'[1] = curve[1] /\ curve'[Len(curve')] = next
        /\ DaysOf(curve') = DaysOf(more) \cup {session'}
    BY <1>5, <1>8, <2>1, <2>2, PointAdded, PeaksGrow
  <2>4. \A d \in 1..Sessions : d < session' => d \in DaysOf(curve')
    <3>1. ASSUME NEW d \in 1..Sessions, d < session'
          PROVE  d < session \/ d = session
      BY <1>2, <1>8, <3>1
    <3> QED BY <1>1, <1>5, <2>3, <3>1
  <2> QED BY <1>1, <1>4, <1>8, <2>1, <2>3, <2>4
          DEF CurveInv, LastPoint, Initial, Days, DaysOf
<1> QED BY <1>1, <1>6, <1>7, <1>8, PointsOfStep DEF more, point, next

\* A run that is done stays so, and closes only over a flat account.
LEMMA StepRunOver ==
    ASSUME IndInv, [AnyNext]_vars, RunOver PROVE RunOver'
<1>1. session \in 1..Sessions /\ Sessions \in Int
  BY Constants DEF IndInv, TypeOK
<1>2. CASE SessionClose
  <2> SUFFICES ASSUME phase' = "done" PROVE RunOver'
    BY DEF RunOver
  <2>1. /\ ~\E s \in Symbols : Held(s) > 0
        /\ equity' = Mark(account, positions, closes)
        /\ session' = session /\ ~(session < Sessions)
        /\ UNCHANGED <<account, positions, closes>>
    BY <1>2 DEF SessionClose, Fail, books
  <2>2. \A s \in Symbols : Held(s) = 0
    <3>1. \A s \in Symbols : Held(s) \in Nat
      BY DEF IndInv, TypeOK, Held, PositionRecord
    <3> QED BY <2>1, <3>1
  <2> QED BY <1>1, <2>1, <2>2 DEF RunOver, Held
<1>3. CASE ~SessionClose
  <2>1. \/ phase' # "done"
        \/ UNCHANGED <<phase, session, equity, account, positions, closes>>
    BY <1>3 DEF AnyNext, AnyStep, Loop, SettleOne, Decide, StartOpenings, BarOpen,
       Liquidate, Opened, EndSlot, BeginBar, SettleSkip, SettleDry,
       SettleReject, SettleFill, Turn, Fail, Raise, Deliver, AnyEvaluate, ApplyTrade,
       ApplyCancel, EndBar, CallStrategy, EndApply, Leave, Ended, clock, marks,
       books, vars
  <2> QED BY <2>1 DEF RunOver, Held
<1> QED BY <1>2, <1>3

\* The curve is in order, in every reachable state of the run that records it.
LEMMA CurveInvariant ==
    PerformanceSpec => [](IndInv /\ LedgerReconciles /\ CurveInv /\ RunOver)
<1>1. PerformanceInit => Init /\ CurveInv /\ RunOver
  <2> SUFFICES ASSUME PerformanceInit PROVE Init /\ CurveInv /\ RunOver
    OBVIOUS
  <2>1. Init /\ IndInv
    BY InitType DEF PerformanceInit
  <2>2. /\ session = 1 /\ phase = "decide"
        /\ equity = Mark(account, positions, closes)
        /\ account.cash = StartCash
        /\ \A s \in Symbols : Held(s) = 0
    BY <2>1 DEF Init, NewAccount, NoPosition, Held
  <2>3. Worth(equity) = StartCash
    BY <2>1, <2>2, FlatWorth DEF IndInv, TypeOK
  <2>4. curve = <<[day |-> 1, equity |-> StartCash, peak |-> StartCash]>>
    BY <2>3 DEF PerformanceInit
  <2>5. 1 \in 1..Sessions /\ StartCash \in Int
    BY Constants
  <2>6. /\ curve \in Seq(PointRecord) /\ curve # <<>> /\ Len(curve) = 1
        /\ curve[1].day = 1 /\ curve[1].equity = StartCash
        /\ curve[1].peak = StartCash
    BY <2>4, <2>5 DEF PointRecord
  <2>7. Peaks(curve)
    <3>1. DOMAIN curve = {1} /\ 1..1 = {1}
      BY <2>6
    <3> QED BY <2>5, <2>6, <3>1 DEF Peaks
  <2>8. \A d \in 1..Sessions : ~(d < session)
    BY <2>2
  <2>9. CurveInv
    BY <2>2, <2>3, <2>6, <2>7, <2>8 DEF CurveInv, Initial, LastPoint
  <2> QED BY <2>1, <2>2, <2>9 DEF RunOver
<1>2. [PerformanceNext]_performanceVars => [Next]_vars
  BY DEF PerformanceNext, performanceVars, Run, Next, Ended
<1>3. PerformanceSpec => Spec
  BY <1>1, <1>2, PTL DEF PerformanceSpec, Spec
<1>4. IndInv /\ IndInv' /\ CurveInv /\ RunOver
        /\ [PerformanceNext]_performanceVars => CurveInv' /\ RunOver'
  <2> SUFFICES ASSUME IndInv, IndInv', CurveInv, RunOver,
                      [PerformanceNext]_performanceVars
               PROVE  CurveInv' /\ RunOver'
    OBVIOUS
  <2>1. CurveInv'
    BY CurveStep
  <2>2. RunOver'
    BY <1>2, NextIsAny, StepRunOver
  <2> QED BY <2>1, <2>2
<1> QED BY <1>1, <1>3, <1>4, Inductive, LedgerInvariant, SpecIsAny,
           PTL DEF PerformanceSpec

\* The reported drawdown, made of peaks carried from mark to mark across
\* sessions, is the worst fall between any two points of the curve.
THEOREM DrawdownIsTheWorstFall == PerformanceSpec => []DrawdownIsWorstFall
<1>1. CurveInv => DrawdownIsWorstFall
  <2> SUFFICES ASSUME CurveInv PROVE DrawdownIsWorstFall
    OBVIOUS
  <2> DEFINE l == Len(curve)
             fall == [n \in 1..l |-> Drawdown(curve[n])]
             falls == {Drawdown(curve[n]) : n \in DOMAIN curve}
  <2>1. /\ l \in Nat \ {0} /\ DOMAIN curve = 1..l
        /\ \A n \in 1..l : curve[n] \in PointRecord
    BY DEF CurveInv
  <2> HIDE DEF l
  <2>2. \A n \in 1..l : curve[n].equity \in Int /\ curve[n].peak \in Int
    BY <2>1 DEF PointRecord
  <2>3. fall \in [1..l -> Int] /\ IsFiniteSet(1..l) /\ 1..l # {}
    <3>1. fall \in [1..l -> Int]
      BY <2>1, <2>2 DEF Drawdown
    <3>2. IsFiniteSet(1..l) /\ 1 \in 1..l
      BY <2>1, FS_Interval
    <3> QED BY <3>1, <3>2
  <2>4. PICK k \in 1..l : \A n \in 1..l : fall[n] <= fall[k]
    <3> HIDE DEF fall
    <3> QED BY <2>3, Greatest
  <2>5. \E f \in falls : \A g \in falls : g <= f
    BY <2>1, <2>4
  <2>6. MaxDrawdown \in falls /\ \A g \in falls : g <= MaxDrawdown
    <3>1. MaxDrawdown = CHOOSE f \in falls : \A g \in falls : g <= f
      BY DEF MaxDrawdown
    <3> HIDE DEF falls
    <3> QED BY <2>5, <3>1
  <2>7. PICK w \in 1..l : MaxDrawdown = curve[w].peak - curve[w].equity
    BY <2>1, <2>6 DEF Drawdown
  <2>8. \A n \in 1..l : curve[n].peak - curve[n].equity <= MaxDrawdown
    BY <2>1, <2>6 DEF Drawdown
  <2>9. \A n \in 1..l : /\ \A m \in 1..n : curve[m].equity <= curve[n].peak
                        /\ \E m \in 1..n : curve[m].equity = curve[n].peak
    BY <2>1 DEF CurveInv, Peaks
  <2> HIDE DEF falls, fall
  <2>10. ASSUME NEW n \in 1..l, NEW m \in 1..l, n <= m
         PROVE  curve[n].equity - curve[m].equity <= MaxDrawdown
    <3>1. n \in 1..m
      BY <2>1, <2>10
    <3>2. curve[n].equity <= curve[m].peak
      BY <2>9, <3>1
    <3>3. curve[m].peak - curve[m].equity <= MaxDrawdown /\ MaxDrawdown \in Int
      BY <2>2, <2>7, <2>8
    <3> QED BY <2>2, <3>2, <3>3
  <2>11. \E n, m \in 1..l :
            n <= m /\ curve[n].equity - curve[m].equity = MaxDrawdown
    <3>1. PICK n \in 1..w : curve[n].equity = curve[w].peak
      BY <2>9
    <3>2. n \in 1..l /\ n <= w
      BY <2>1
    <3> QED BY <2>7, <3>1, <3>2
  <2> QED BY <2>1, <2>10, <2>11 DEF DrawdownIsWorstFall
<1> QED BY <1>1, CurveInvariant, PTL

(***************************************************************************)
(* The totals of the account.                                              *)
(***************************************************************************)

\* What a position has brought more than it cost, and what has been traded of
\* it; and the same of finished trades.
Gain(position) == position.sellValue - position.buyValue
Volume(position) == position.buyValue + position.sellValue
Gains(held) == [s \in Symbols |-> Gain(held[s])]
Volumes(held) == [s \in Symbols |-> Volume(held[s])]
Pnls(trades) == [n \in DOMAIN trades |-> trades[n].pnl]
Turnovers(trades) == [n \in DOMAIN trades |-> trades[n].entry + trades[n].exit]

\* The totals of purchases and sales are those of all trades and positions.
TotalsAgree ==
    /\ SumFunction(Pnls(account.trades)) + SumFunction(Gains(positions))
         = account.received - account.spent
    /\ SumFunction(Turnovers(account.trades)) + SumFunction(Volumes(positions))
         = account.spent + account.received

\* A sum of one number more.
LEMMA SumAppend ==
    ASSUME NEW n \in Nat, NEW x \in [1..n -> Int], NEW y \in [1..(n + 1) -> Int],
           \A m \in 1..n : y[m] = x[m]
    PROVE  SumFunction(x) \in Int /\ SumFunction(y) = y[n + 1] + SumFunction(x)
<1> DEFINE D == 1..(n + 1)
           l == n + 1
<1>1. IsFiniteSet(1..n) /\ IsFiniteSet(D)
  BY FS_Interval
<1>2. l \in Nat \ {0} /\ l - 1 = n
  OBVIOUS
<1>3. l \in D /\ D \ {l} = 1..n
  <2>1. l \in 1..l /\ (1..l) \ {l} = 1..(l - 1)
    BY <1>2, LastOut
  <2> QED BY <1>2, <2>1
<1>4. y \in [D -> Int] /\ [m \in D \ {l} |-> y[m]] = x
  BY <1>3
<1>5. SumFunction(x) \in Int
  BY <1>1, SumType
<1> HIDE DEF D, l
<1>6. SumFunction(y) = y[l] + SumFunction([m \in D \ {l} |-> y[m]])
  BY <1>1, <1>3, <1>4, SumRemove
<1> QED BY <1>4, <1>5, <1>6 DEF l

\* What a position contributes, c, it keeps, or the trade gets that it becomes.
Contributes(x, y, n, kept, c) ==
    \/ y = x /\ kept = c
    \/ /\ y \in [1..(n + 1) -> Int] /\ y[n + 1] = c
       /\ \A m \in 1..n : y[m] = x[m]
       /\ kept = 0

\* The same of one position of several, the others keep what they have.
Books(f, h, s, n, x, y, c) ==
    /\ f \in [Symbols -> Int] /\ h \in [Symbols -> Int] /\ s \in Symbols
    /\ \A t \in Symbols \ {s} : h[t] = f[t]
    /\ n \in Nat /\ x \in [1..n -> Int] /\ c \in Int
    /\ Contributes(x, y, n, h[s], c)

\* Either way the sums move by it.
LEMMA BookedSum ==
    ASSUME NEW f, NEW h, NEW s, NEW n, NEW x, NEW y, NEW c,
           Books(f, h, s, n, x, y, c)
    PROVE  /\ SumFunction(x) \in Int /\ SumFunction(f) \in Int
           /\ SumFunction(y) + SumFunction(h)
                = SumFunction(x) + SumFunction(f) - f[s] + c
<1> DEFINE S == Symbols
<1>6. /\ f \in [S -> Int] /\ h \in [S -> Int] /\ s \in S /\ IsFiniteSet(S)
      /\ \A t \in S \ {s} : h[t] = f[t]
      /\ n \in Nat /\ x \in [1..n -> Int] /\ c \in Int
      /\ Contributes(x, y, n, h[s], c)
  BY SimulationAssumption DEF Books
<1> HIDE DEF S
<1>1. /\ SumFunction(f) \in Int
      /\ SumFunction(h) = SumFunction(f) - f[s] + h[s]
  <2>1. SumFunction(f) \in Int
    BY <1>6, SumType
  <2>2. SumFunction(h) = SumFunction(f) - f[s] + h[s]
    BY <1>6, SumChange
  <2> QED BY <2>1, <2>2
<1>2. IsFiniteSet(1..n) /\ SumFunction(x) \in Int
  BY <1>6, FS_Interval, SumType
<1>3. f[s] \in Int /\ c \in Int
  BY <1>6
<1>4. CASE y = x /\ h[s] = c
  BY <1>1, <1>2, <1>3, <1>4
<1>5. CASE /\ y \in [1..(n + 1) -> Int] /\ y[n + 1] = c
           /\ \A m \in 1..n : y[m] = x[m]
           /\ h[s] = 0
  <2>1. SumFunction(y) = c + SumFunction(x)
    BY <1>5, <1>6, SumAppend
  <2> QED BY <1>1, <1>2, <1>3, <1>5, <2>1
<1> QED BY <1>1, <1>2, <1>4, <1>5, <1>6 DEF Contributes

\* What a fill does to these.
LEMMA FilledValues ==
    ASSUME NEW held \in PositionRecord, NEW book \in AccountRecord,
           NEW s \in Symbols, NEW side \in Side, NEW quantity \in Nat \ {0},
           NEW turnover \in Nat, NEW cost \in Nat,
           side = "SELL" => quantity <= held.quantity
    PROVE  LET after == Filled(held, side, quantity, turnover, cost)
               new == Charged(book, s, held, side, quantity, turnover, cost)
               gain == IF side = "BUY" THEN 0 - turnover ELSE turnover
           IN  /\ gain \in Int
               /\ Gain(held) \in Int /\ Volume(held) \in Int
               /\ Gain(after) = Gain(held) + gain
               /\ Volume(after) = Volume(held) + turnover
               /\ new.received - new.spent = book.received - book.spent + gain
               /\ new.spent + new.received
                    = book.spent + book.received + turnover
<1> DEFINE after == Filled(held, side, quantity, turnover, cost)
           new == Charged(book, s, held, side, quantity, turnover, cost)
<1>1. /\ held.buyValue \in Nat /\ held.sellValue \in Nat
      /\ book.spent \in Nat /\ book.received \in Nat
  BY DEF PositionRecord, AccountRecord
<1>2. CASE side = "BUY"
  <2>1. /\ after.buyValue = held.buyValue + turnover
        /\ after.sellValue = held.sellValue
    BY <1>2 DEF Filled, PositionRecord
  <2>2. new.spent = book.spent + turnover /\ new.received = book.received
    BY <1>2 DEF Charged, AccountRecord
  <2> HIDE DEF after, new
  <2>3. /\ Gain(after) = Gain(held) + (0 - turnover)
        /\ Volume(after) = Volume(held) + turnover
    BY <1>1, <2>1 DEF Gain, Volume
  <2>4. /\ new.received - new.spent = book.received - book.spent + (0 - turnover)
        /\ new.spent + new.received = book.spent + book.received + turnover
    BY <1>1, <2>2
  <2> QED BY <1>1, <1>2, <2>3, <2>4 DEF after, new, Gain, Volume
<1>3. CASE side = "SELL"
  <2> DEFINE released == ReleasedBasis(held, quantity)
  <2> HIDE DEF released
  <2>1. /\ after.buyValue = held.buyValue
        /\ after.sellValue = held.sellValue + turnover
    BY <1>3 DEF Filled, PositionRecord
  <2>2. new.spent = book.spent /\ new.received = book.received + turnover
    BY <1>3 DEF Charged, AccountRecord
  <2> HIDE DEF after, new
  <2>3. /\ Gain(after) = Gain(held) + turnover
        /\ Volume(after) = Volume(held) + turnover
    BY <1>1, <2>1 DEF Gain, Volume
  <2>4. /\ new.received - new.spent = book.received - book.spent + turnover
        /\ new.spent + new.received = book.spent + book.received + turnover
    BY <1>1, <2>2
  <2> QED BY <1>1, <1>3, <2>3, <2>4 DEF after, new, Gain, Volume
<1> QED BY <1>2, <1>3 DEF Side

\* The summands are numbers.
LEMMA TotalsType ==
    ASSUME NEW trades \in Seq(TradeRecord),
           NEW held \in [Symbols -> PositionRecord]
    PROVE  /\ IsFiniteSet(Symbols) /\ Len(trades) \in Nat
           /\ DOMAIN trades = 1..Len(trades)
           /\ Gains(held) \in [Symbols -> Int]
           /\ Volumes(held) \in [Symbols -> Int]
           /\ Pnls(trades) \in [1..Len(trades) -> Int]
           /\ Turnovers(trades) \in [1..Len(trades) -> Int]
<1>1. \A s \in Symbols : Gain(held[s]) \in Int /\ Volume(held[s]) \in Int
  BY DEF Gain, Volume, PositionRecord
<1>2. ASSUME NEW n \in DOMAIN trades
      PROVE  trades[n].pnl \in Int /\ trades[n].entry + trades[n].exit \in Int
  <2>1. trades[n] \in TradeRecord
    OBVIOUS
  <2>2. trades[n].pnl \in Int /\ trades[n].entry \in Nat /\ trades[n].exit \in Nat
    BY <2>1 DEF TradeRecord
  <2> QED BY <2>2
<1> QED BY <1>1, <1>2, SimulationAssumption
        DEF Gains, Volumes, Pnls, Turnovers

\* A fill keeps the totals.
LEMMA FillTotals ==
    ASSUME IndInv, LedgerReconciles, TotalsAgree,
           NEW i \in turn.waiting, SettleFill(i)
    PROVE  TotalsAgree'
<1> DEFINE s == turn.symbol
           held == positions[s]
           side == orders[i].side
           quantity == FillQuantity(i)
           turnover == FillTurnover(i)
           cost == FillCost(i)
           after == Filled(held, side, quantity, turnover, cost)
           booked == Booked(held, side, quantity, turnover, cost)
           new == Charged(account, s, held, side, quantity, turnover, cost)
           gain == IF side = "BUY" THEN 0 - turnover ELSE turnover
           n == Len(account.trades)
<1>1. /\ s \in Symbols /\ held \in PositionRecord /\ account \in AccountRecord
      /\ positions \in [Symbols -> PositionRecord]
      /\ side \in Side
  BY InTurn DEF IndInv, TypeOK, OrderRecord
<1>2. /\ quantity \in Nat \ {0} /\ turnover \in Nat /\ cost \in Nat
      /\ side = "SELL" => quantity <= held.quantity
      /\ account' = new /\ positions' = [positions EXCEPT ![s] = booked]
  BY FillEffect
<1>3. Balanced(held)
  BY <1>1, LedgerTerms
<1> HIDE DEF s, held, side, quantity, turnover, cost
<1>4. /\ after \in PositionRecord /\ Balanced(after)
      /\ after.quantity = 0 => after.basis = 0
  BY <1>1, <1>2, <1>3, FilledBalanced
<1>5. new.trades = IF after.quantity = 0
                   THEN Append(account.trades, Trade(s, after))
                   ELSE account.trades
  <2>1. /\ new.cash = account.cash + Flow(side, turnover, cost)
        /\ new.received - new.spent - new.fees
             = account.received - account.spent - account.fees
                 + Flow(side, turnover, cost)
        /\ new.trades = IF after.quantity = 0
                        THEN Append(account.trades, Trade(s, after))
                        ELSE account.trades
    BY <1>1, <1>2, ChargedBalanced
  <2> QED BY <2>1
<1>6. /\ gain \in Int /\ Gain(held) \in Int /\ Volume(held) \in Int
      /\ Gain(after) = Gain(held) + gain
      /\ Volume(after) = Volume(held) + turnover
      /\ new.received - new.spent = account.received - account.spent + gain
      /\ new.spent + new.received
           = account.spent + account.received + turnover
  BY <1>1, <1>2, FilledValues
<1>7. new \in AccountRecord /\ booked \in PositionRecord
  BY <1>1, <1>2, BookingType
<1>8. booked = IF after.quantity = 0 THEN NoPosition ELSE after
  BY DEF Booked
<1>9. /\ account.trades \in Seq(TradeRecord) /\ new.trades \in Seq(TradeRecord)
      /\ account.spent \in Int /\ account.received \in Int
      /\ new.spent \in Int /\ new.received \in Int
  BY <1>1, <1>7 DEF AccountRecord
<1> DEFINE trade == Trade(s, after)
<1>10. /\ trade.pnl = Gain(after) /\ trade.entry + trade.exit = Volume(after)
       \/ after.quantity # 0
  <2>1. after.realized \in Int /\ after.sellValue \in Nat /\ after.buyValue \in Nat
    BY <1>4 DEF PositionRecord
  <2>2. /\ trade.pnl = after.realized /\ trade.entry = after.buyValue
        /\ trade.exit = after.sellValue
    BY DEF Trade
  <2> HIDE DEF after, trade
  <2> QED BY <1>4, <2>1, <2>2 DEF Balanced, Gain, Volume
<1> HIDE DEF after, booked, new, gain, trade
<1>11. /\ \A t \in Symbols \ {s} : positions'[t] = positions[t]
       /\ positions'[s] = booked
       /\ positions' \in [Symbols -> PositionRecord]
  BY <1>1, <1>2, <1>7
<1>12. \/ new.trades = account.trades /\ booked = after
       \/ /\ booked = NoPosition /\ Len(new.trades) = n + 1
          /\ \A m \in 1..n : new.trades[m] = account.trades[m]
          /\ new.trades[n + 1] = trade
          /\ trade.pnl = Gain(after) /\ trade.entry + trade.exit = Volume(after)
  BY <1>5, <1>8, <1>9, <1>10 DEF trade
<1>13. /\ IsFiniteSet(Symbols) /\ n \in Nat /\ DOMAIN account.trades = 1..n
       /\ Gains(positions) \in [Symbols -> Int]
       /\ Volumes(positions) \in [Symbols -> Int]
       /\ Pnls(account.trades) \in [1..n -> Int]
       /\ Turnovers(account.trades) \in [1..n -> Int]
  BY <1>1, <1>9, TotalsType
<1>14. /\ Gains(positions') \in [Symbols -> Int]
       /\ Volumes(positions') \in [Symbols -> Int]
       /\ DOMAIN new.trades = 1..Len(new.trades)
       /\ Pnls(new.trades) \in [1..Len(new.trades) -> Int]
       /\ Turnovers(new.trades) \in [1..Len(new.trades) -> Int]
  BY <1>9, <1>11, TotalsType
<1>15. Gain(NoPosition) = 0 /\ Volume(NoPosition) = 0
  BY DEF Gain, Volume, NoPosition
<1>16. turnover \in Int /\ Gain(after) \in Int /\ Volume(after) \in Int
  BY <1>2, <1>6
<1> HIDE DEF n
<1>17. SumFunction(Pnls(new.trades)) + SumFunction(Gains(positions'))
         = new.received - new.spent
  <2> DEFINE x == Pnls(account.trades)
             y == Pnls(new.trades)
             f == Gains(positions)
             h == Gains(positions')
  <2>1. /\ f[s] = Gain(held) /\ h[s] = Gain(booked)
        /\ \A t \in Symbols \ {s} : h[t] = f[t]
    BY <1>1, <1>11 DEF Gains, held
  <2>2. Contributes(x, y, n, h[s], Gain(after))
    <3>1. CASE new.trades = account.trades /\ booked = after
      BY <2>1, <3>1 DEF Contributes
    <3>2. CASE /\ booked = NoPosition /\ Len(new.trades) = n + 1
               /\ \A m \in 1..n : new.trades[m] = account.trades[m]
               /\ new.trades[n + 1] = trade /\ trade.pnl = Gain(after)
      <4>1. n + 1 \in 1..(n + 1) /\ \A m \in 1..n : m \in 1..(n + 1)
        BY <1>13
      <4>2. y \in [1..(n + 1) -> Int] /\ h[s] = 0
        BY <1>14, <1>15, <2>1, <3>2
      <4>3. y[n + 1] = Gain(after) /\ \A m \in 1..n : y[m] = x[m]
        BY <1>13, <1>14, <3>2, <4>1 DEF Pnls
      <4> QED BY <4>2, <4>3 DEF Contributes
    <3> QED BY <1>12, <3>1, <3>2
  <2>3. x \in [1..n -> Int] /\ f \in [Symbols -> Int] /\ h \in [Symbols -> Int]
    BY <1>13, <1>14
  <2> HIDE DEF x, y, f, h
  <2>7. Books(f, h, s, n, x, y, Gain(after))
    BY <1>1, <1>13, <1>16, <2>1, <2>2, <2>3 DEF Books
  <2>4. /\ SumFunction(x) \in Int /\ SumFunction(f) \in Int
        /\ SumFunction(y) + SumFunction(h)
             = SumFunction(x) + SumFunction(f) - f[s] + Gain(after)
    BY <2>7, BookedSum
  <2>5. SumFunction(x) + SumFunction(f) = account.received - account.spent
    BY DEF TotalsAgree, x, f
  <2>6. SumFunction(y) + SumFunction(h) = new.received - new.spent
    BY <1>6, <1>9, <2>1, <2>4, <2>5
  <2> QED BY <2>6 DEF y, h
<1>18. SumFunction(Turnovers(new.trades)) + SumFunction(Volumes(positions'))
         = new.spent + new.received
  <2> DEFINE x == Turnovers(account.trades)
             y == Turnovers(new.trades)
             f == Volumes(positions)
             h == Volumes(positions')
  <2>1. /\ f[s] = Volume(held) /\ h[s] = Volume(booked)
        /\ \A t \in Symbols \ {s} : h[t] = f[t]
    BY <1>1, <1>11 DEF Volumes, held
  <2>2. Contributes(x, y, n, h[s], Volume(after))
    <3>1. CASE new.trades = account.trades /\ booked = after
      BY <2>1, <3>1 DEF Contributes
    <3>2. CASE /\ booked = NoPosition /\ Len(new.trades) = n + 1
               /\ \A m \in 1..n : new.trades[m] = account.trades[m]
               /\ new.trades[n + 1] = trade
               /\ trade.entry + trade.exit = Volume(after)
      <4>1. n + 1 \in 1..(n + 1) /\ \A m \in 1..n : m \in 1..(n + 1)
        BY <1>13
      <4>2. y \in [1..(n + 1) -> Int] /\ h[s] = 0
        BY <1>14, <1>15, <2>1, <3>2
      <4>3. y[n + 1] = Volume(after) /\ \A m \in 1..n : y[m] = x[m]
        BY <1>13, <1>14, <3>2, <4>1 DEF Turnovers
      <4> QED BY <4>2, <4>3 DEF Contributes
    <3> QED BY <1>12, <3>1, <3>2
  <2>3. x \in [1..n -> Int] /\ f \in [Symbols -> Int] /\ h \in [Symbols -> Int]
    BY <1>13, <1>14
  <2> HIDE DEF x, y, f, h
  <2>7. Books(f, h, s, n, x, y, Volume(after))
    BY <1>1, <1>13, <1>16, <2>1, <2>2, <2>3 DEF Books
  <2>4. /\ SumFunction(x) \in Int /\ SumFunction(f) \in Int
        /\ SumFunction(y) + SumFunction(h)
             = SumFunction(x) + SumFunction(f) - f[s] + Volume(after)
    BY <2>7, BookedSum
  <2>5. SumFunction(x) + SumFunction(f) = account.spent + account.received
    BY DEF TotalsAgree, x, f
  <2>6. SumFunction(y) + SumFunction(h) = new.spent + new.received
    BY <1>6, <1>9, <1>16, <2>1, <2>4, <2>5
  <2> QED BY <2>6 DEF y, h
<1>19. account' = new
  BY <1>2
<1> QED BY <1>17, <1>18, <1>19 DEF TotalsAgree

\* They do so in every reachable state.
LEMMA TotalsExplained == AnySpec => []TotalsAgree
<1>1. Init => TotalsAgree
  <2> SUFFICES ASSUME Init PROVE TotalsAgree
    OBVIOUS
  <2>1. /\ account = NewAccount(StartCash)
        /\ positions = [s \in Symbols |-> NoPosition]
    BY DEF Init
  <2>2. account.spent = 0 /\ account.received = 0 /\ account.trades = <<>>
    BY <2>1 DEF NewAccount
  <2>3. NoPosition \in PositionRecord
    BY DEF NoPosition, PositionRecord
  <2>4. /\ <<>> \in Seq(TradeRecord) /\ Len(<<>>) = 0 /\ 1..0 = {}
        /\ positions \in [Symbols -> PositionRecord]
    BY <2>1, <2>3
  <2>5. /\ IsFiniteSet(Symbols) /\ IsFiniteSet({})
        /\ Gains(positions) \in [Symbols -> Int]
        /\ Volumes(positions) \in [Symbols -> Int]
        /\ Pnls(<<>>) \in [{} -> Int] /\ Turnovers(<<>>) \in [{} -> Int]
    <3>1. IsFiniteSet({})
      BY FS_EmptySet
    <3> QED BY <2>4, <3>1, TotalsType
  <2>6. SumFunction(Pnls(<<>>)) = 0 /\ SumFunction(Turnovers(<<>>)) = 0
    BY <2>5, SumType
  <2>7. \A s \in Symbols : Gains(positions)[s] = 0 /\ Volumes(positions)[s] = 0
    BY <2>1 DEF Gains, Volumes, Gain, Volume, NoPosition
  <2>8. SumFunction(Gains(positions)) = 0 /\ SumFunction(Volumes(positions)) = 0
    BY <2>5, <2>7, SumZero
  <2> QED BY <2>2, <2>6, <2>8 DEF TotalsAgree
<1>2. IndInv /\ LedgerReconciles /\ [AnyNext]_vars /\ TotalsAgree => TotalsAgree'
  <2> SUFFICES ASSUME IndInv, LedgerReconciles, [AnyNext]_vars, TotalsAgree
               PROVE  TotalsAgree'
    OBVIOUS
  <2>1. CASE UNCHANGED <<account, positions>>
    BY <2>1 DEF TotalsAgree
  <2> QED BY <2>1, StepHeld, FillTotals
<1> QED BY <1>1, <1>2, Inductive, LedgerInvariant, PTL DEF AnySpec

\* A run that is done is flat: its ledger is that of its trades.
LEMMA FlatLedger ==
    ASSUME IndInv, LedgerReconciles, TotalsAgree, RunOver, phase = "done"
    PROVE  /\ Worth(equity) = account.cash
           /\ account.cash = StartCash - account.spent + account.received
                               - account.fees
           /\ account.cash - StartCash = SumFunction(Nets(account.trades))
           /\ SumFunction(Pnls(account.trades))
                = account.received - account.spent
           /\ SumFunction(Turnovers(account.trades))
                = account.spent + account.received
<1>1. /\ account \in AccountRecord /\ positions \in [Symbols -> PositionRecord]
      /\ closes \in [Symbols -> Nat] /\ account.trades \in Seq(TradeRecord)
  BY DEF IndInv, TypeOK, AccountRecord
<1>2. \A s \in Symbols : Held(s) = 0
  BY DEF RunOver
<1>3. \A s \in Symbols : positions[s] = NoPosition
  BY <1>2, LedgerTerms DEF Held
<1>4. Worth(equity) = account.cash
  BY <1>1, <1>2, FlatWorth DEF RunOver
<1>5. /\ IsFiniteSet(Symbols) /\ Worths(positions) \in [Symbols -> Int]
      /\ SumFunction(Nets(account.trades)) \in Int
  BY <1>1, LedgerSums
<1>6. /\ Gains(positions) \in [Symbols -> Int]
      /\ Volumes(positions) \in [Symbols -> Int]
      /\ Len(account.trades) \in Nat
      /\ Pnls(account.trades) \in [1..Len(account.trades) -> Int]
      /\ Turnovers(account.trades) \in [1..Len(account.trades) -> Int]
  BY <1>1, TotalsType
<1>7. /\ SumFunction(Pnls(account.trades)) \in Int
      /\ SumFunction(Turnovers(account.trades)) \in Int
  <2> DEFINE S == 1..Len(account.trades)
  <2>1. IsFiniteSet(S)
    BY <1>6, FS_Interval
  <2>2. Pnls(account.trades) \in [S -> Int] /\ Turnovers(account.trades) \in [S -> Int]
    BY <1>6
  <2> HIDE DEF S
  <2> QED BY <2>1, <2>2, SumType
<1>8. \A s \in Symbols : /\ Worths(positions)[s] = 0
                         /\ Gains(positions)[s] = 0
                         /\ Volumes(positions)[s] = 0
  BY <1>3 DEF Worths, Gains, Volumes, NetWorth, Gain, Volume, NoPosition
<1>9. /\ SumFunction(Worths(positions)) = 0
      /\ SumFunction(Gains(positions)) = 0
      /\ SumFunction(Volumes(positions)) = 0
  BY <1>5, <1>6, <1>8, SumZero
<1>10. /\ account.cash = StartCash - account.spent + account.received
                           - account.fees
       /\ account.cash - StartCash = SumFunction(Nets(account.trades))
                                       + SumFunction(Worths(positions))
  BY LedgerTerms
<1>11. account.cash - StartCash = SumFunction(Nets(account.trades))
  BY <1>5, <1>9, <1>10
<1>12. /\ SumFunction(Pnls(account.trades)) = account.received - account.spent
       /\ SumFunction(Turnovers(account.trades))
            = account.spent + account.received
  BY <1>7, <1>9 DEF TotalsAgree
<1> QED BY <1>4, <1>10, <1>11, <1>12

(***************************************************************************)
(* The daily results.                                                      *)
(***************************************************************************)

\* A day's last point, and that the last session's is the last of all.
LEMMA DailyPoints ==
    ASSUME CurveInv, NEW day \in Days
    PROVE  /\ DailyEquity(day) \in Int
           /\ day = LastPoint.day => DailyEquity(day) = LastPoint.equity
<1> DEFINE l == Len(curve)
           mine == {n \in 2..l : curve[n].day = day}
           last == CHOOSE n \in mine : \A m \in mine : m <= n
<1>1. /\ l \in Nat \ {0} /\ DOMAIN curve = 1..l
      /\ \A n \in 1..l : curve[n] \in PointRecord
  BY DEF CurveInv
<1>2. /\ mine # {} /\ IsFiniteSet(2..l) /\ mine \in SUBSET (2..l)
      /\ 2..l \in SUBSET (1..l)
  <2>1. IsFiniteSet(2..l) /\ 2..l \in SUBSET (1..l)
    BY <1>1, FS_Interval
  <2>2. mine # {} /\ mine \in SUBSET (2..l)
    BY DEF Days
  <2> QED BY <2>1, <2>2
<1>3. \E n \in mine : \A m \in mine : m <= n
  <2> DEFINE f == [n \in mine |-> n]
  <2>1. f \in [mine -> Int] /\ IsFiniteSet(mine)
    BY <1>1, <1>2, FS_Subset
  <2>2. \A n \in mine : f[n] = n
    OBVIOUS
  <2> HIDE DEF f, mine
  <2> QED BY <1>2, <2>1, <2>2, Greatest
<1>4. DailyEquity(day) = curve[last].equity
  BY DEF DailyEquity
<1>5. day = LastPoint.day => l \in mine
  <2>1. l = 1 => 2..l = {}
    OBVIOUS
  <2>2. l \in 2..l
    BY <1>1, <1>2, <2>1
  <2> QED BY <2>2 DEF LastPoint
<1>6. last \in mine /\ \A m \in mine : m <= last
  <2> HIDE DEF mine
  <2> QED BY <1>3
<1>7. last \in 1..l
  BY <1>2, <1>6
<1> HIDE DEF last, mine
<1>8. curve[last].equity \in Int
  BY <1>1, <1>7 DEF PointRecord
<1>9. ASSUME day = LastPoint.day PROVE last = l
  <2>1. l \in Nat
    BY <1>1
  <2> HIDE DEF l
  <2>2. l \in mine
    BY <1>5, <1>9
  <2>3. l <= last
    BY <1>6, <2>2
  <2> QED BY <1>7, <2>1, <2>3
<1> QED BY <1>4, <1>8, <1>9 DEF LastPoint

\* One result a session, and together they are the whole.
LEMMA DailyResults ==
    ASSUME IndInv, CurveInv, RunOver, phase = "done"
    PROVE  Days = 1..Sessions /\ SumFunction(DailyPnl) = NetPnl
<1>1. Sessions \in Nat \ {0} /\ StartCash \in Int
  BY Constants
<1>2. Days = 1..Sessions
  <2>1. \A d \in 1..Sessions : d \in Days
    BY DEF CurveInv
  <2>2. ASSUME NEW n \in 2..Len(curve) PROVE curve[n].day \in 1..Sessions
    <3>1. curve \in Seq(PointRecord) /\ Len(curve) \in Nat
      BY DEF CurveInv
    <3>2. n \in 1..Len(curve)
      BY <3>1
    <3>3. curve[n] \in PointRecord
      BY <3>1, <3>2
    <3> QED BY <3>3 DEF PointRecord
  <2> QED BY <2>1, <2>2 DEF Days
<1>3. \A d \in 1..Sessions : DailyEquity(d) \in Int
  BY <1>2, DailyPoints
<1>4. DailyEquity(Sessions) = Ending
  <2>1. LastPoint.day = Sessions /\ Sessions \in Days
    BY <1>1, <1>2 DEF CurveInv, RunOver
  <2> QED BY <2>1, DailyPoints DEF Ending
<1>5. Initial \in Int
  BY <1>1 DEF CurveInv
<1> DEFINE e == [d \in 0..Sessions |-> IF d = 0 THEN Initial ELSE DailyEquity(d)]
           f == DailyPnl
<1>6. e \in [0..Sessions -> Int]
  <2>1. ASSUME NEW d \in 0..Sessions, d # 0 PROVE d \in 1..Sessions
    BY <1>1, <2>1
  <2> QED BY <1>3, <1>5, <2>1
<1>7. e[0] = Initial /\ e[Sessions] = Ending
  <2>1. 0 \in 0..Sessions /\ Sessions \in 0..Sessions /\ Sessions # 0
    BY <1>1
  <2> QED BY <1>4, <2>1
<1>8. ASSUME NEW d \in 1..Sessions PROVE f[d] = e[d] - e[d - 1]
  <2> DEFINE earlier == {k \in Days : k < d}
             before == IF earlier = {} THEN Initial
                       ELSE DailyEquity(CHOOSE k \in earlier :
                                          \A j \in earlier : j <= k)
  <2>1. f[d] = DailyEquity(d) - before
    BY <1>2 DEF DailyPnl
  <2>2. e[d] = DailyEquity(d) /\ d - 1 \in 0..Sessions
    BY <1>1
  <2>3. before = e[d - 1]
    <3>1. CASE d = 1
      <4>1. earlier = {}
        BY <1>1, <1>2, <3>1
      <4> QED BY <1>7, <3>1, <4>1
    <3>2. CASE d # 1
      <4>1. d - 1 \in earlier /\ \A j \in earlier : j <= d - 1
        BY <1>1, <1>2, <3>2
      <4>2. \A k \in earlier : (\A j \in earlier : j <= k) => k = d - 1
        BY <1>1, <1>2, <4>1
      <4> HIDE DEF earlier
      <4>3. (CHOOSE k \in earlier : \A j \in earlier : j <= k) = d - 1
        BY <4>1, <4>2
      <4>4. before = DailyEquity(d - 1)
        BY <4>1, <4>3
      <4>5. e[d - 1] = DailyEquity(d - 1)
        BY <1>1, <2>2, <3>2
      <4> QED BY <4>4, <4>5
    <3> QED BY <3>1, <3>2
  <2> HIDE DEF f, e, before
  <2> QED BY <2>1, <2>2, <2>3
<1>9. f \in [1..Sessions -> Int]
  <2>1. DOMAIN f = 1..Sessions /\ f = [d \in 1..Sessions |-> f[d]]
    BY <1>2 DEF DailyPnl
  <2>2. ASSUME NEW d \in 1..Sessions PROVE f[d] \in Int
    <3>1. d \in 0..Sessions /\ d - 1 \in 0..Sessions
      BY <1>1
    <3>2. e[d] \in Int /\ e[d - 1] \in Int
      <4> HIDE DEF e
      <4> QED BY <1>6, <3>1
    <3> HIDE DEF e, f
    <3> QED BY <1>8, <3>2
  <2> HIDE DEF f
  <2> QED BY <2>1, <2>2
<1> HIDE DEF e, f
<1>10. SumFunction(f) = e[Sessions] - e[0]
  BY <1>1, <1>6, <1>8, <1>9, Telescope
<1> QED BY <1>2, <1>7, <1>10 DEF NetPnl, f

\* The report of a run that is done contradicts neither itself nor the
\* ledger: each session has one daily result, these and the trades both add
\* up to the net result, and without charges to the trades' own results.
THEOREM ReportAgreesWithLedger == PerformanceSpec => []MetricsAgree
<1>1. ASSUME IndInv, LedgerReconciles, TotalsAgree, CurveInv, RunOver
      PROVE  MetricsAgree
  <2> SUFFICES ASSUME phase = "done"
               PROVE  /\ Days = 1..Sessions
                      /\ SumFunction(DailyPnl) = NetPnl
                      /\ GrossProfit - GrossLoss = NetPnl
                      /\ SumFunction(Pnls(account.trades)) = ExecutionPnl
                      /\ SumFunction(Turnovers(account.trades)) = Turnover
    BY DEF MetricsAgree, Pnls, Turnovers
  <2>1. Days = 1..Sessions /\ SumFunction(DailyPnl) = NetPnl
    BY <1>1, DailyResults
  <2>2. /\ Worth(equity) = account.cash
        /\ account.cash = StartCash - account.spent + account.received
                            - account.fees
        /\ account.cash - StartCash = SumFunction(Nets(account.trades))
        /\ SumFunction(Pnls(account.trades)) = account.received - account.spent
        /\ SumFunction(Turnovers(account.trades))
             = account.spent + account.received
    BY <1>1, FlatLedger
  <2>3. Ending = account.cash /\ Initial = StartCash
    BY <1>1, <2>2 DEF CurveInv, Ending
  <2>4. /\ account.cash \in Int /\ account.spent \in Int
        /\ account.received \in Int /\ account.fees \in Int /\ StartCash \in Int
    BY <1>1, Constants DEF IndInv, TypeOK, AccountRecord
  <2>5. GrossProfit - GrossLoss = SumFunction(Nets(account.trades))
    <3> DEFINE f == Nets(account.trades)
               S == DOMAIN account.trades
    <3>1. f \in [S -> Int] /\ IsFiniteSet(S)
      BY <1>1, LedgerSums DEF IndInv, TypeOK, AccountRecord
    <3>2. \A n \in S : f[n] = account.trades[n].net
      BY DEF Nets
    <3>3. /\ Winners = {n \in S : f[n] > 0} /\ Losers = {n \in S : f[n] < 0}
          /\ Winners \in SUBSET S /\ Losers \in SUBSET S
      BY <3>2 DEF Winners, Losers
    <3>4. /\ [n \in Winners |-> account.trades[n].net] = [n \in Winners |-> f[n]]
          /\ [n \in Losers |-> account.trades[n].net] = [n \in Losers |-> f[n]]
      BY <3>2, <3>3
    <3> HIDE DEF f, S
    <3>5. SumFunction(f) = NetOf(Winners) + NetOf(Losers)
      BY <3>1, <3>3, <3>4, SumOfSigns DEF NetOf
    <3>6. NetOf(Winners) \in Int /\ NetOf(Losers) \in Int
      <4>1. /\ [n \in Winners |-> f[n]] \in [Winners -> Int]
            /\ [n \in Losers |-> f[n]] \in [Losers -> Int]
        BY <3>1, <3>3
      <4>2. IsFiniteSet(Winners) /\ IsFiniteSet(Losers)
        BY <3>1, <3>3, FS_Subset
      <4> QED BY <3>4, <4>1, <4>2, SumType DEF NetOf
    <3> QED BY <3>5, <3>6 DEF GrossProfit, GrossLoss, f
  <2> QED BY <2>1, <2>2, <2>3, <2>4, <2>5 DEF NetPnl, ExecutionPnl, Turnover
<1>2. PerformanceSpec => Spec
  <2>1. PerformanceInit => Init
    BY DEF PerformanceInit
  <2>2. [PerformanceNext]_performanceVars => [Next]_vars
    BY DEF PerformanceNext, performanceVars, Run, Next, Ended
  <2> QED BY <2>1, <2>2, PTL DEF PerformanceSpec, Spec
<1> QED BY <1>1, <1>2, CurveInvariant, TotalsExplained, SpecIsAny, PTL

=============================================================================
