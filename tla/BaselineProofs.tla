--------------------------- MODULE BaselineProofs --------------------------
(***************************************************************************)
(* Theorems about the baseline strategy in the event loop.  What the loop  *)
(* guarantees with any strategy, it guarantees with this one; and the      *)
(* strategy keeps what its evaluations rely on from one candle to the      *)
(* next, whatever the candles fill in between.                             *)
(***************************************************************************)
EXTENDS Baseline, LedgerProofs

(***************************************************************************)
(* The strategy's memory, and how often it has been called.                *)
(***************************************************************************)

MemoryRecord ==
    [drawn : Nat, cycle : SUBSET References, entry : References \cup {NoEntry},
     range : Nat, basis : [quantity : Nat, amount : Nat], armed : BOOLEAN]

\* The candle of the present slot has been put to the instance of s.
Evaluated(s) ==
    \/ phase \in {"complete", "settle", "strategy", "apply"} /\ s \notin todo
    \/ phase = "apply" /\ s = turn.symbol
    \/ phase \in {"close", "done", "failed"}

\* Candles that have been put to the instance of s.
Turns(s) ==
    (session - 1) * Slots + (slot - 1) + (IF Evaluated(s) THEN 1 ELSE 0)

First(s, count) == {Label[s][n] : n \in 1..count}
Drawn(s) == First(s, memory[s].drawn)

\* The loop where it calls the strategy: the candle of a symbol that is still
\* to be done, after the last slot the close.
InTurns ==
    /\ mode = "strategy"
    /\ phase \in {"settle", "strategy", "apply"} => turn.symbol \in todo
    /\ phase \in {"close", "done"} => slot = Slots

Remembers ==
    /\ memory \in [Symbols -> MemoryRecord]
    /\ \A s \in Symbols :
         LET m == memory[s]
         IN  /\ m.drawn <= LongestAnswer * Turns(s)
             /\ m.range \in Ranges \cup {0}
             /\ m.cycle \subseteq Drawn(s)
             /\ m.entry \in m.cycle \cup {NoEntry}
             /\ m.entry = NoEntry <=> m.range = 0

(***************************************************************************)
(* Names.                                                                  *)
(***************************************************************************)

\* The names that the requests of an answer cancel.
Killed(output) ==
    {r \in References : \E n \in DOMAIN output :
        output[n].kind = "cancel" /\ r \in output[n].targets}

Trades(output) == {n \in DOMAIN output : output[n].kind = "trade"}

Ordinary == {i \in OrderIds : ~orders[i].forced}

\* Every order has a name of its own, which its symbol's instance made up;
\* so has every request that is still to be applied.
Naming ==
    /\ \A i \in Ordinary : orders[i].reference \in Drawn(orders[i].symbol)
    /\ \A i, j \in Ordinary : orders[i].reference = orders[j].reference => i = j
    /\ used \subseteq UNION {Drawn(s) : s \in Symbols}
    /\ phase = "apply" =>
         /\ \A n \in DOMAIN batch :
              /\ batch[n].reference \in Drawn(turn.symbol) \ Killed(batch)
              /\ \A i \in Ordinary : orders[i].reference # batch[n].reference
         /\ \A m, n \in DOMAIN batch :
              batch[m].reference = batch[n].reference => m = n

\* What is still to be applied was asked in time, and sells what is held.
Feasible ==
    phase = "apply" => \A n \in DOMAIN batch :
        /\ slot + 1 < Cutoff
        /\ batch[n].kind = "trade" =>
             /\ batch[n].intent.symbol = turn.symbol
             /\ batch[n].intent.side = "SELL" =>
                  batch[n].intent.quantity = Held(turn.symbol)

(***************************************************************************)
(* The offers of a symbol: its active orders as they will be once the      *)
(* answer that is being applied has been applied.                          *)
(***************************************************************************)

Offer(order) ==
    [reference |-> order.reference, side |-> order.side, type |-> order.type,
     group |-> order.group, forced |-> order.forced, filled |-> order.filled,
     left |-> Remaining(order)]

Asked(request) ==
    [reference |-> request.reference, side |-> request.intent.side,
     type |-> request.intent.type, group |-> request.intent.group,
     forced |-> FALSE, filled |-> 0, left |-> request.intent.quantity]

Wanted(output) == {Asked(output[n]) : n \in Trades(output)}

Answering(s) == phase = "apply" /\ turn.symbol = s

Standing(s) ==
    {i \in OrdersOf(s) :
        /\ Active(orders[i])
        /\ Answering(s) => orders[i].reference \notin Killed(batch)}

Offers(s) ==
    {Offer(orders[i]) : i \in Standing(s)}
      \cup (IF Answering(s) THEN Wanted(batch) ELSE {})

IsSale(x) == x.side = "SELL" /\ ~x.forced

\* A sale at the market is the only offer and sells all that is held; of two
\* exits neither has sold, both are for the remembered holding, and they
\* share a group; without a known range nothing is held or bought.
Shape(s) ==
    /\ \A x \in Offers(s) : IsSale(x) =>
         /\ x.reference \in memory[s].cycle
         /\ x.type = "MARKET" => Offers(s) = {x} /\ x.left = Held(s)
    /\ \A x, y \in Offers(s) : IsSale(x) /\ IsSale(y) /\ x # y =>
         /\ x.filled = 0 /\ x.left = memory[s].basis.quantity
         /\ x.group # NoGroup /\ x.group = y.group
    /\ memory[s].range = 0 =>
         Held(s) = 0 /\ \A x \in Offers(s) : x.side # "BUY"

\* The last candle has been put to the instance, and it was not to be silent.
Guarded(s) ==
    \/ phase \in {"decide", "barOpen", "inside"} /\ slot < Cutoff
    \/ /\ phase \in {"complete", "settle", "strategy", "apply"}
       /\ s \notin todo \/ (phase = "apply" /\ s = turn.symbol)
       /\ slot + 1 < Cutoff

\* What is held is offered for sale, and not bought again.
Covers(s) ==
    Guarded(s) /\ Held(s) > 0 =>
        /\ \E x \in Offers(s) : IsSale(x)
        /\ \A x \in Offers(s) : IsSale(x) => x.left = Held(s)
        /\ Exited(s) => \A x \in Offers(s) : x.side # "BUY"

Disciplined ==
    phase # "failed" =>
        Naming /\ Feasible /\ \A s \in Symbols : Shape(s) /\ Covers(s)

(***************************************************************************)
(* References and calls.                                                   *)
(***************************************************************************)

LEMMA Labels ==
    ASSUME NEW s \in Symbols
    PROVE  /\ Len(Label[s]) \in Nat
           /\ LongestAnswer * (Sessions * Slots) <= Len(Label[s])
           /\ DOMAIN Label[s] = 1..Len(Label[s])
           /\ \A n \in 1..Len(Label[s]) :
                /\ Label[s][n] \in References /\ Label[s][n] \in Groups
                /\ Label[s][n] \notin {ForcedReference, NoEntry, NoGroup}
<1>1. Label[s] \in Seq((References \cap Groups) \ {ForcedReference, NoEntry})
  BY LabelAssumption
<1>2. NoGroup \notin Groups
  BY SimulationAssumption
<1> QED BY <1>1, <1>2, LabelAssumption

\* An instance is called at most once in a slot.
LEMMA TurnsBound ==
    ASSUME IndInv, NEW s \in Symbols
    PROVE  /\ Turns(s) \in Nat /\ Turns(s) <= Sessions * Slots
           /\ Sessions * Slots \in Nat
           /\ ~Evaluated(s) => Turns(s) + 1 <= Sessions * Slots
<1> DEFINE before == (session - 1) * Slots
<1>1. /\ session \in Nat \ {0} /\ session <= Sessions
      /\ slot \in Nat \ {0} /\ slot <= Slots
      /\ Sessions \in Nat \ {0} /\ Slots \in Nat \ {0}
  BY Constants DEF IndInv, TypeOK
<1>2. /\ session - 1 \in Nat /\ Sessions - 1 \in Nat
      /\ session - 1 <= Sessions - 1
  BY <1>1
<1>3. /\ before \in Nat /\ (Sessions - 1) * Slots \in Nat
      /\ before <= (Sessions - 1) * Slots
  BY <1>1, <1>2, TimesMonotone
<1>4. (Sessions - 1) * Slots = Sessions * Slots - Slots /\ Sessions * Slots \in Nat
  BY <1>1
<1> HIDE DEF before
<1>5. \/ Evaluated(s) /\ Turns(s) = before + (slot - 1) + 1
      \/ ~Evaluated(s) /\ Turns(s) = before + (slot - 1) + 0
  BY DEF Turns, before
<1> HIDE DEF Turns, Evaluated
<1> QED BY <1>1, <1>3, <1>4, <1>5

\* Between any two steps the names drawn are within the labels, and where an
\* instance is called there are enough left for its answer.
LEMMA DrawnBound ==
    ASSUME IndInv, Remembers, NEW s \in Symbols
    PROVE  /\ memory[s] \in MemoryRecord /\ memory[s].drawn \in Nat
           /\ memory[s].drawn <= Len(Label[s])
           /\ ~Evaluated(s) => memory[s].drawn + LongestAnswer <= Len(Label[s])
<1> DEFINE all == Sessions * Slots
<1>1. /\ memory[s] \in MemoryRecord /\ memory[s].drawn \in Nat
      /\ memory[s].drawn <= LongestAnswer * Turns(s)
  BY DEF Remembers, MemoryRecord
<1>2. /\ Turns(s) \in Nat /\ Turns(s) <= all /\ all \in Nat
      /\ ~Evaluated(s) => Turns(s) + 1 <= all
  BY TurnsBound
<1>3. Len(Label[s]) \in Nat /\ 5 * all <= Len(Label[s])
  BY Labels DEF LongestAnswer
<1> HIDE DEF all, Turns, Evaluated
<1>4. memory[s].drawn <= 5 * Turns(s)
  BY <1>1 DEF LongestAnswer
<1> QED BY <1>1, <1>2, <1>3, <1>4 DEF LongestAnswer

\* The names of an answer are new, and differ from one another.
LEMMA NewNames ==
    ASSUME IndInv, Remembers, NEW s \in Symbols, ~Evaluated(s)
    PROVE  /\ \A k \in 1..LongestAnswer :
                /\ Name(s, k) \in References /\ Name(s, k) \in Groups
                /\ Name(s, k) \notin {ForcedReference, NoEntry, NoGroup}
                /\ \A t \in Symbols : Name(s, k) \notin Drawn(t)
           /\ \A k, l \in 1..LongestAnswer : Name(s, k) = Name(s, l) => k = l
<1>1. /\ memory[s].drawn \in Nat
      /\ memory[s].drawn + LongestAnswer <= Len(Label[s])
      /\ Len(Label[s]) \in Nat /\ DOMAIN Label[s] = 1..Len(Label[s])
  BY DrawnBound, Labels
<1>2. \A k \in 1..LongestAnswer : memory[s].drawn + k \in 1..Len(Label[s])
  BY <1>1 DEF LongestAnswer
<1>3. ASSUME NEW k \in 1..LongestAnswer, NEW t \in Symbols,
             Name(s, k) \in Drawn(t)
      PROVE  FALSE
  <2>1. /\ memory[t].drawn \in Nat /\ memory[t].drawn <= Len(Label[t])
        /\ Len(Label[t]) \in Nat /\ DOMAIN Label[t] = 1..Len(Label[t])
    BY DrawnBound, Labels
  <2>2. PICK n \in 1..memory[t].drawn :
               Label[s][memory[s].drawn + k] = Label[t][n]
    BY <1>3 DEF Drawn, First, Name
  <2>3. n \in DOMAIN Label[t] /\ memory[s].drawn + k \in DOMAIN Label[s]
    BY <1>1, <1>2, <2>1
  <2>4. s = t /\ memory[s].drawn + k = n
    BY <2>2, <2>3, LabelAssumption
  <2> QED BY <1>1, <2>1, <2>4 DEF LongestAnswer
<1>4. ASSUME NEW k \in 1..LongestAnswer, NEW l \in 1..LongestAnswer,
             Name(s, k) = Name(s, l)
      PROVE  k = l
  <2>1. memory[s].drawn + k = memory[s].drawn + l
    BY <1>1, <1>2, <1>4, LabelAssumption DEF Name
  <2> QED BY <1>1, <2>1 DEF LongestAnswer
<1>5. \A k \in 1..LongestAnswer :
        /\ Name(s, k) \in References /\ Name(s, k) \in Groups
        /\ Name(s, k) \notin {ForcedReference, NoEntry, NoGroup}
  BY <1>2, Labels DEF Name
<1> QED BY <1>3, <1>4, <1>5

(***************************************************************************)
(* Answers, part by part.                                                  *)
(***************************************************************************)

LiveNames(s) ==
    {orders[i].reference : i \in Live(s, "BUY") \cup Live(s, "SELL")}

\* Part of an answer: it is named by some of the (a+1)st to the b-th names,
\* each used once, asks for nothing after the cutoff, sells what is held and
\* cancels what is alive.
Part(s, output, a, b) ==
    /\ output \in Seq(RequestRecord)
    /\ \A k \in DOMAIN output :
         /\ \E m \in (a + 1)..b : output[k].reference = Name(s, m)
         /\ output[k].kind = "trade" =>
              /\ output[k].intent.symbol = s
              /\ output[k].intent.side = "SELL" =>
                   output[k].intent.quantity = Held(s)
         /\ output[k].kind = "cancel" => output[k].targets \subseteq LiveNames(s)
    /\ \A k, l \in DOMAIN output :
         output[k].reference = output[l].reference => k = l
    /\ output = <<>> \/ slot + 1 < Cutoff

\* The instance of s is about to be called.
Called(s) ==
    /\ IndInv /\ Timed /\ ForcedLate /\ InTurns /\ Remembers /\ Naming
    /\ phase = "strategy" /\ s = turn.symbol

LEMMA CalledFacts ==
    ASSUME NEW s, Called(s)
    PROVE  /\ s \in Symbols /\ s \in todo /\ ~Evaluated(s)
           /\ Held(s) \in Nat /\ positions[s] \in PositionRecord
           /\ memory[s] \in MemoryRecord
           /\ slot \in 1..Slots /\ Cutoff \in 1..Slots
           /\ Silent <=> ~(slot + 1 < Cutoff)
<1>1. s \in Symbols /\ s \in todo
  BY DEF Called, IndInv, TypeOK, InTurns, TurnRecord
<1>2. ~Evaluated(s)
  BY <1>1 DEF Called, Evaluated
<1>3. positions[s] \in PositionRecord /\ slot \in 1..Slots
  BY <1>1 DEF Called, IndInv, TypeOK
<1>4. Held(s) \in Nat
  BY <1>3 DEF Held, PositionRecord
<1>5. memory[s] \in MemoryRecord
  BY <1>1 DEF Called, Remembers
<1>6. Cutoff \in 1..Slots
  BY CutoffType
<1>7. Now = OpeningTime(slot + 1)
  BY DEF Called, Now
<1>8. Silent <=> ~(slot + 1 < Cutoff)
  <2> HIDE DEF Cutoff
  <2> QED BY <1>3, <1>6, <1>7, Constants DEF Silent, OpeningTime
<1> QED BY <1>1, <1>2, <1>3, <1>4, <1>5, <1>6, <1>8

\* The elements of two sequences put together.
LEMMA Joined ==
    ASSUME NEW S, NEW p \in Seq(S), NEW q \in Seq(S)
    PROVE  /\ p \o q \in Seq(S) /\ Len(p \o q) = Len(p) + Len(q)
           /\ \A k \in DOMAIN p : k \in DOMAIN (p \o q) /\ (p \o q)[k] = p[k]
           /\ \A k \in DOMAIN q : /\ Len(p) + k \in DOMAIN (p \o q)
                                  /\ (p \o q)[Len(p) + k] = q[k]
           /\ \A k \in DOMAIN (p \o q) :
                k \in DOMAIN p \/ \E l \in DOMAIN q : k = Len(p) + l
<1>1. /\ p \o q \in Seq(S) /\ Len(p \o q) = Len(p) + Len(q)
      /\ Len(p) \in Nat /\ Len(q) \in Nat
      /\ DOMAIN p = 1..Len(p) /\ DOMAIN q = 1..Len(q)
      /\ DOMAIN (p \o q) = 1..(Len(p) + Len(q))
  OBVIOUS
<1>2. \A k \in 1..(Len(p) + Len(q)) :
        (p \o q)[k] = IF k <= Len(p) THEN p[k] ELSE q[k - Len(p)]
  OBVIOUS
<1>3. ASSUME NEW k \in DOMAIN q
      PROVE  /\ Len(p) + k \in DOMAIN (p \o q)
             /\ (p \o q)[Len(p) + k] = q[k]
  <2>1. /\ Len(p) + k \in 1..(Len(p) + Len(q)) /\ ~(Len(p) + k <= Len(p))
        /\ (Len(p) + k) - Len(p) = k
    BY <1>1
  <2> QED BY <1>1, <1>2, <2>1
<1>4. ASSUME NEW k \in DOMAIN (p \o q), k \notin DOMAIN p
      PROVE  \E l \in DOMAIN q : k = Len(p) + l
  <2>1. k - Len(p) \in 1..Len(q) /\ k = Len(p) + (k - Len(p))
    BY <1>1, <1>4
  <2> QED BY <1>1, <2>1
<1> QED BY <1>1, <1>2, <1>3, <1>4

LEMMA JoinPart ==
    ASSUME NEW s, Called(s), NEW p, NEW q,
           NEW a \in 0..LongestAnswer, NEW b \in 0..LongestAnswer,
           NEW c \in 0..LongestAnswer, a <= b, b <= c,
           Part(s, p, a, b), Part(s, q, b, c)
    PROVE  /\ Part(s, p \o q, a, c) /\ Len(p \o q) = Len(p) + Len(q)
           /\ Killed(p \o q) = Killed(p) \cup Killed(q)
           /\ Wanted(p \o q) = Wanted(p) \cup Wanted(q)
<1>1. /\ p \in Seq(RequestRecord) /\ q \in Seq(RequestRecord)
      /\ Len(p) \in Nat /\ Len(q) \in Nat
      /\ DOMAIN p = 1..Len(p) /\ DOMAIN q = 1..Len(q)
  BY DEF Part
<1> DEFINE r == p \o q
<1>2. /\ r \in Seq(RequestRecord) /\ Len(r) = Len(p) + Len(q)
      /\ \A k \in DOMAIN p : k \in DOMAIN r /\ r[k] = p[k]
      /\ \A k \in DOMAIN q : Len(p) + k \in DOMAIN r /\ r[Len(p) + k] = q[k]
      /\ \A k \in DOMAIN r : k \in DOMAIN p \/ \E l \in DOMAIN q : k = Len(p) + l
  BY <1>1, Joined
<1>3. r = <<>> \/ slot + 1 < Cutoff
  <2>1. p = <<>> /\ q = <<>> => r = <<>>
    OBVIOUS
  <2> QED BY <2>1 DEF Part
<1> HIDE DEF r
<1>4. \A k, l \in 1..LongestAnswer : Name(s, k) = Name(s, l) => k = l
  BY NewNames, CalledFacts DEF Called
<1>5. ASSUME NEW k \in DOMAIN p, NEW l \in DOMAIN q
      PROVE  p[k].reference # q[l].reference
  <2>1. PICK m \in (a + 1)..b : p[k].reference = Name(s, m)
    BY DEF Part
  <2>2. PICK n \in (b + 1)..c : q[l].reference = Name(s, n)
    BY DEF Part
  <2>3. m \in 1..LongestAnswer /\ n \in 1..LongestAnswer /\ m # n
    BY DEF LongestAnswer
  <2> QED BY <1>4, <2>1, <2>2, <2>3
<1>6. ASSUME NEW k \in DOMAIN r, NEW l \in DOMAIN r,
             r[k].reference = r[l].reference
      PROVE  k = l
  <2>1. CASE k \in DOMAIN p /\ l \in DOMAIN p
    BY <1>2, <1>6, <2>1 DEF Part
  <2>2. CASE k \in DOMAIN p /\ l \notin DOMAIN p
    BY <1>2, <1>5, <1>6, <2>2
  <2>3. CASE k \notin DOMAIN p /\ l \in DOMAIN p
    BY <1>2, <1>5, <1>6, <2>3
  <2>4. CASE k \notin DOMAIN p /\ l \notin DOMAIN p
    <3>1. PICK i \in DOMAIN q, j \in DOMAIN q : k = Len(p) + i /\ l = Len(p) + j
      BY <1>2, <2>4
    <3>2. q[i].reference = q[j].reference
      BY <1>2, <1>6, <3>1
    <3> QED BY <3>1, <3>2 DEF Part
  <2> QED BY <2>1, <2>2, <2>3, <2>4
<1>7. ASSUME NEW k \in DOMAIN r
      PROVE  /\ \E m \in (a + 1)..c : r[k].reference = Name(s, m)
             /\ r[k].kind = "trade" =>
                  /\ r[k].intent.symbol = s
                  /\ r[k].intent.side = "SELL" => r[k].intent.quantity = Held(s)
             /\ r[k].kind = "cancel" => r[k].targets \subseteq LiveNames(s)
  <2>1. (a + 1)..b \subseteq (a + 1)..c /\ (b + 1)..c \subseteq (a + 1)..c
    OBVIOUS
  <2>2. CASE k \in DOMAIN p
    BY <1>2, <2>1, <2>2 DEF Part
  <2>3. CASE k \notin DOMAIN p
    <3>1. PICK l \in DOMAIN q : k = Len(p) + l
      BY <1>2, <2>3
    <3>2. r[k] = q[l]
      BY <1>2, <3>1
    <3> QED BY <2>1, <3>2 DEF Part
  <2> QED BY <2>2, <2>3
<1>8. Part(s, r, a, c)
  BY <1>2, <1>3, <1>6, <1>7 DEF Part
<1>9. Killed(r) = Killed(p) \cup Killed(q)
  BY <1>2 DEF Killed
<1>10. Wanted(r) = Wanted(p) \cup Wanted(q)
  <2>1. \A k \in Trades(r) : Asked(r[k]) \in Wanted(p) \cup Wanted(q)
    BY <1>2 DEF Trades, Wanted
  <2>2. \A k \in Trades(p) : k \in Trades(r) /\ r[k] = p[k]
    BY <1>2 DEF Trades
  <2>3. \A k \in Trades(q) : Len(p) + k \in Trades(r) /\ r[Len(p) + k] = q[k]
    BY <1>2 DEF Trades
  <2> QED BY <2>1, <2>2, <2>3 DEF Wanted
<1> QED BY <1>2, <1>8, <1>9, <1>10 DEF r

LEMMA LiveFacts ==
    ASSUME NEW s, Called(s), NEW side, NEW i \in Live(s, side)
    PROVE  /\ i \in OrderIds /\ i \in Ordinary /\ orders[i] \in OrderRecord
           /\ orders[i].symbol = s /\ orders[i].side = side
           /\ Active(orders[i]) /\ ~orders[i].forced
           /\ orders[i].reference \in References
           /\ orders[i].reference \in Drawn(s)
<1>1. /\ i \in OrderIds /\ i \in Ordinary /\ orders[i].symbol = s
      /\ orders[i].side = side /\ Active(orders[i]) /\ ~orders[i].forced
  BY DEF Live, OrdersOf, Ordinary
<1>2. orders[i] \in OrderRecord
  BY <1>1, OrderFacts DEF Called
<1>3. orders[i].reference \in References
  BY <1>1 DEF Called, Timed, TimedOrder
<1>4. orders[i].reference \in Drawn(s)
  BY <1>1 DEF Called, Naming
<1> QED BY <1>1, <1>2, <1>3, <1>4

LEMMA EmptyPart ==
    ASSUME NEW s, NEW a, NEW b
    PROVE  Part(s, <<>>, a, b) /\ Killed(<<>>) = {} /\ Wanted(<<>>) = {}
  BY DEF Part, Killed, Wanted, Trades

\* One request.
LEMMA SinglePart ==
    ASSUME NEW s, NEW n \in 1..LongestAnswer, NEW request \in RequestRecord,
           request.reference = Name(s, n), slot + 1 < Cutoff,
           request.kind = "trade" =>
             /\ request.intent.symbol = s
             /\ request.intent.side = "SELL" => request.intent.quantity = Held(s),
           request.kind = "cancel" => request.targets \subseteq LiveNames(s)
    PROVE  Part(s, <<request>>, n - 1, n) /\ Len(<<request>>) = 1
<1>1. <<request>> \in Seq(RequestRecord) /\ Len(<<request>>) = 1
      /\ DOMAIN <<request>> = {1} /\ <<request>>[1] = request
  OBVIOUS
<1>2. n \in ((n - 1) + 1)..n
  BY DEF LongestAnswer
<1> QED BY <1>1, <1>2 DEF Part

LEMMA CancelPart ==
    ASSUME NEW s, Called(s), NEW n \in 1..LongestAnswer, slot + 1 < Cutoff,
           NEW ids \in SUBSET (Live(s, "BUY") \cup Live(s, "SELL"))
    PROVE  LET c == Cancel(s, n, ids)
           IN  /\ Len(c) \in {0, 1} /\ Part(s, c, n - 1, n - 1 + Len(c))
               /\ Killed(c) = {orders[i].reference : i \in ids}
               /\ Wanted(c) = {}
<1> DEFINE names == {orders[i].reference : i \in ids}
<1>1. CASE ids = {}
  <2>1. Cancel(s, n, ids) = <<>> /\ Len(<<>>) = 0 /\ names = {}
    BY <1>1 DEF Cancel
  <2> QED BY <2>1, EmptyPart
<1>2. CASE ids # {}
  <2> DEFINE request == [kind |-> "cancel", reference |-> Name(s, n),
                         targets |-> names]
  <2>1. Cancel(s, n, ids) = <<request>>
    BY <1>2 DEF Cancel
  <2>2. names \subseteq References /\ names \subseteq LiveNames(s)
    BY LiveFacts DEF LiveNames
  <2>3. Name(s, n) \in References
    BY CalledFacts, NewNames DEF Called
  <2> HIDE DEF names
  <2>4. request \in RequestRecord
    BY <2>2, <2>3 DEF RequestRecord
  <2>5. /\ request.kind = "cancel" /\ request.reference = Name(s, n)
        /\ request.targets = names
    OBVIOUS
  <2>6. DOMAIN <<request>> = {1} /\ <<request>>[1] = request
    OBVIOUS
  <2> HIDE DEF request
  <2>7. Part(s, <<request>>, n - 1, n) /\ Len(<<request>>) = 1
    BY <2>2, <2>4, <2>5, SinglePart
  <2>8. Killed(<<request>>) = names
    BY <2>2, <2>5, <2>6 DEF Killed
  <2>9. Wanted(<<request>>) = {}
    BY <2>5, <2>6 DEF Wanted, Trades
  <2>10. n - 1 + 1 = n
    BY DEF LongestAnswer
  <2> QED BY <2>1, <2>7, <2>8, <2>9, <2>10 DEF names
<1> QED BY <1>1, <1>2

\* The offer that a trade of the strategy makes.
TradeOffer(s, n, side, quantity, type, group) ==
    [reference |-> Name(s, n), side |-> side, type |-> type, group |-> group,
     forced |-> FALSE, filled |-> 0, left |-> quantity]

LEMMA TradePart ==
    ASSUME NEW s, Called(s), NEW n \in 1..LongestAnswer, slot + 1 < Cutoff,
           NEW side \in Side, NEW quantity \in Nat \ {0},
           NEW type \in OrderType, NEW price \in Nat,
           NEW group \in Groups \cup {NoGroup},
           side = "SELL" => quantity = Held(s)
    PROVE  LET r == Request(s, n, side, quantity, type, price, group)
           IN  /\ Len(r) = 1 /\ Part(s, r, n - 1, n)
               /\ Killed(r) = {}
               /\ Wanted(r) = {TradeOffer(s, n, side, quantity, type, group)}
<1> DEFINE intent == [symbol |-> s, side |-> side, quantity |-> quantity,
                      type |-> type, price |-> price, group |-> group]
           request == [kind |-> "trade", reference |-> Name(s, n),
                       intent |-> intent]
<1>1. s \in Symbols /\ Name(s, n) \in References
  BY CalledFacts, NewNames DEF Called
<1>2. intent \in IntentType
  BY <1>1 DEF IntentType
<1>3. request \in RequestRecord
  BY <1>1, <1>2 DEF RequestRecord
<1>4. /\ request.kind = "trade" /\ request.reference = Name(s, n)
      /\ request.intent.symbol = s /\ request.intent.side = side
      /\ request.intent.quantity = quantity
  OBVIOUS
<1>5. Asked(request) = TradeOffer(s, n, side, quantity, type, group)
  BY DEF Asked, TradeOffer
<1>6. Request(s, n, side, quantity, type, price, group) = <<request>>
  BY DEF Request
<1>7. DOMAIN <<request>> = {1} /\ <<request>>[1] = request
  OBVIOUS
<1> HIDE DEF request
<1>8. Part(s, <<request>>, n - 1, n) /\ Len(<<request>>) = 1
  BY <1>3, <1>4, SinglePart
<1>9. Killed(<<request>>) = {}
  BY <1>4, <1>7 DEF Killed
<1>10. Wanted(<<request>>) = {Asked(request)}
  BY <1>4, <1>7 DEF Wanted, Trades
<1> QED BY <1>5, <1>6, <1>8, <1>9, <1>10

(***************************************************************************)
(* An answer, put together, is delivered.                                  *)
(***************************************************************************)

\* What an evaluation that made up n references may remember.
Recalls(s, n, after) ==
    /\ after \in MemoryRecord /\ after.drawn = memory[s].drawn + n
    /\ after.cycle \subseteq memory[s].cycle \cup {Name(s, k) : k \in 1..n}
    /\ after.range \in Ranges \cup {0}
    /\ after.entry \in after.cycle \cup {NoEntry}
    /\ after.entry = NoEntry <=> after.range = 0

\* What a branch of the evaluation does with its answer.
Answers(s, output, n, after) ==
    /\ Called(s)
    /\ n \in 0..LongestAnswer /\ Part(s, output, 0, n)
    /\ Recalls(s, n, after) /\ Answer(s, output, after)
    /\ UNCHANGED <<mode, session, slot, todo, turn, orders, fills, books, marks,
                   warnings>>

LEMMA AnswersAreAny ==
    ASSUME NEW s, NEW output, NEW n, NEW after, Answers(s, output, n, after)
    PROVE  AnyEvaluate /\ phase' \in {"apply", "failed"}
<1>1. Deliver(output) /\ output \in Seq(RequestRecord) /\ phase = "strategy"
  BY DEF Answers, Answer, Part, Called
<1>2. phase' \in {"apply", "failed"}
  BY <1>1 DEF Deliver, Fail
<1>3. UNCHANGED <<mode, session, slot, todo, turn, orders, fills, books, marks,
                  warnings>>
  BY DEF Answers
<1> QED BY <1>1, <1>2, <1>3 DEF AnyEvaluate

\* The names drawn so far are still drawn, and so are those of the answer.
LEMMA AnswersDrawn ==
    ASSUME NEW s, NEW output, NEW n, NEW after, Answers(s, output, n, after)
    PROVE  /\ memory'[s] = after
           /\ \A t \in Symbols \ {s} : memory'[t] = memory[t]
           /\ \A t \in Symbols : Drawn(t) \subseteq Drawn(t)'
           /\ \A k \in 1..n : Name(s, k) \in Drawn(s)'
<1>1. s \in Symbols /\ memory[s] \in MemoryRecord
  BY CalledFacts DEF Answers
<1>2. memory \in [Symbols -> MemoryRecord]
  BY DEF Answers, Called, Remembers
<1>3. memory' = [memory EXCEPT ![s] = after]
  BY DEF Answers, Answer
<1>4. memory'[s] = after /\ \A t \in Symbols \ {s} : memory'[t] = memory[t]
  BY <1>1, <1>2, <1>3
<1>5. /\ memory[s].drawn \in Nat /\ n \in Nat
      /\ memory'[s].drawn = memory[s].drawn + n
  BY <1>1, <1>4 DEF Answers, Recalls, MemoryRecord, LongestAnswer
<1>6. Drawn(s) \subseteq Drawn(s)'
  <2>1. 1..memory[s].drawn \subseteq 1..memory'[s].drawn
    BY <1>5
  <2> QED BY <2>1 DEF Drawn, First
<1>7. \A t \in Symbols \ {s} : Drawn(t)' = Drawn(t)
  BY <1>4 DEF Drawn
<1>8. \A k \in 1..n : Name(s, k) \in Drawn(s)'
  <2>1. \A k \in 1..n : memory[s].drawn + k \in 1..memory'[s].drawn
    BY <1>5
  <2> QED BY <2>1 DEF Drawn, First, Name
<1> QED BY <1>4, <1>6, <1>7, <1>8

LEMMA AnswersNamed ==
    ASSUME NEW s, NEW output, NEW n, NEW after, Answers(s, output, n, after),
           phase' = "apply"
    PROVE  Naming' /\ Feasible'
<1>1. /\ s \in Symbols /\ s = turn.symbol /\ Naming
      /\ Part(s, output, 0, n) /\ n \in 0..LongestAnswer
  BY CalledFacts DEF Answers, Called
<1>2. /\ batch' = output
      /\ used' = used \cup {output[k].reference : k \in DOMAIN output}
  BY DEF Answers, Answer, Deliver, Fail
<1>3. /\ orders' = orders /\ turn' = turn /\ slot' = slot
      /\ positions' = positions
  BY DEF Answers, books
<1>4. \A k \in DOMAIN output : \E m \in 1..n : output[k].reference = Name(s, m)
  BY <1>1 DEF Part
<1>5. \A m \in 1..n : /\ Name(s, m) \in Drawn(s)'
                      /\ \A t \in Symbols : Name(s, m) \notin Drawn(t)
  <2>1. 1..n \subseteq 1..LongestAnswer
    BY <1>1 DEF LongestAnswer
  <2> QED BY <2>1, AnswersDrawn, NewNames, CalledFacts DEF Answers, Called
<1>6. \A t \in Symbols : Drawn(t) \subseteq Drawn(t)'
  BY AnswersDrawn
<1>7. Killed(output) \subseteq Drawn(s)
  <2>1. LiveNames(s) \subseteq Drawn(s)
    BY LiveFacts DEF LiveNames, Answers
  <2> QED BY <1>1, <2>1 DEF Killed, Part
<1>8. \A i \in Ordinary :
         orders[i].symbol \in Symbols /\ orders[i].reference \in Drawn(orders[i].symbol)
  BY <1>1, OrderFacts DEF Naming, Ordinary, Answers, Called
<1>9. Ordinary' = Ordinary
  BY <1>3 DEF Ordinary, OrderIds
<1>10. Feasible'
  <2>1. Held(s)' = Held(s)
    BY <1>3 DEF Held
  <2>2. \A k \in DOMAIN output : output # <<>>
    OBVIOUS
  <2> QED BY <1>1, <1>2, <1>3, <2>1, <2>2 DEF Feasible, Part
<1>11. Naming'
  <2>1. \A i \in Ordinary' :
          orders'[i].reference
            \in First(orders'[i].symbol, memory'[orders'[i].symbol].drawn)
    BY <1>3, <1>6, <1>8, <1>9 DEF Drawn
  <2>2. \A i, j \in Ordinary' : orders'[i].reference = orders'[j].reference => i = j
    BY <1>1, <1>3, <1>9 DEF Naming
  <2>3. used' \subseteq (UNION {Drawn(t) : t \in Symbols})'
    <3>1. used \subseteq UNION {Drawn(t) : t \in Symbols}
      BY <1>1 DEF Naming
    <3> QED BY <1>1, <1>2, <1>4, <1>5, <1>6, <3>1
  <2>4. \A k \in DOMAIN output :
          /\ output[k].reference \in Drawn(s)'
          /\ output[k].reference \notin Killed(output)
          /\ \A i \in Ordinary : orders[i].reference # output[k].reference
    BY <1>1, <1>4, <1>5, <1>7, <1>8
  <2>5. \A k, l \in DOMAIN output :
          output[k].reference = output[l].reference => k = l
    BY <1>1 DEF Part
  <2> HIDE DEF Ordinary
  <2>6. /\ \A k \in DOMAIN batch' :
             /\ batch'[k].reference \in First(turn'.symbol,
                                               memory'[turn'.symbol].drawn)
             /\ batch'[k].reference \notin Killed(batch')
             /\ \A i \in Ordinary' : orders'[i].reference # batch'[k].reference
        /\ \A k, l \in DOMAIN batch' :
             batch'[k].reference = batch'[l].reference => k = l
    BY <1>1, <1>2, <1>3, <1>9, <2>4, <2>5 DEF Drawn
  <2> HIDE DEF Killed, First
  <2> QED BY <1>3, <2>1, <2>2, <2>3, <2>6 DEF Naming, Drawn
<1> QED BY <1>10, <1>11

LEMMA AnswersOffers ==
    ASSUME NEW s, NEW output, NEW n, NEW after, Answers(s, output, n, after),
           phase' = "apply"
    PROVE  /\ Offers(s)' = {x \in Offers(s) : x.reference \notin Killed(output)}
                              \cup Wanted(output)
           /\ \A t \in Symbols \ {s} : Offers(t)' = Offers(t)
<1>1. s = turn.symbol /\ phase = "strategy"
  BY DEF Answers, Called
<1>2. batch' = output
  BY DEF Answers, Answer, Deliver, Fail
<1>3. orders' = orders /\ turn' = turn
  BY DEF Answers
<1>4. \A t : ~Answering(t) /\ (Answering(t)' <=> t = s)
  BY <1>1, <1>3 DEF Answering
<1>5. \A t : OrdersOf(t)' = OrdersOf(t)
  BY <1>3 DEF OrdersOf, OrderIds
<1>6. \A t : /\ Standing(t) = {i \in OrdersOf(t) : Active(orders[i])}
             /\ Offers(t) = {Offer(orders[i]) : i \in Standing(t)}
  BY <1>4 DEF Standing, Offers
<1>7. ASSUME NEW t \in Symbols \ {s}
      PROVE  Offers(t)' = Offers(t)
  <2>1. Standing(t)' = Standing(t)
    BY <1>3, <1>4, <1>5, <1>6 DEF Standing
  <2> QED BY <1>3, <1>4, <1>6, <2>1 DEF Offers
<1>8. Standing(s)' = {i \in Standing(s) : orders[i].reference \notin Killed(output)}
  BY <1>2, <1>3, <1>4, <1>5, <1>6 DEF Standing
<1>9. Offers(s)' = {Offer(orders[i]) : i \in Standing(s)'} \cup Wanted(output)
  BY <1>2, <1>3, <1>4 DEF Offers
<1>10. \A i : Offer(orders[i]).reference = orders[i].reference
  BY DEF Offer
<1>11. {Offer(orders[i]) : i \in Standing(s)'}
         = {x \in Offers(s) : x.reference \notin Killed(output)}
  BY <1>6, <1>8, <1>10
<1> QED BY <1>7, <1>9, <1>11

(***************************************************************************)
(* What an answer leaves of the offers.                                    *)
(***************************************************************************)

AllLive(s) == Live(s, "BUY") \cup Live(s, "SELL")

\* Before the cutoff the offers of a symbol are its live orders: no forced
\* order is active yet.
LEMMA CalledOffers ==
    ASSUME NEW s, Called(s), slot + 1 < Cutoff
    PROVE  Offers(s) = {Offer(orders[i]) : i \in AllLive(s)}
<1>1. Offers(s) = {Offer(orders[i]) : i \in Standing(s)}
  BY DEF Called, Offers, Answering
<1>2. Standing(s) = {i \in OrdersOf(s) : Active(orders[i])}
  BY DEF Called, Standing, Answering
<1>3. ASSUME NEW i \in OrdersOf(s), Active(orders[i])
      PROVE  ~orders[i].forced
  <2>1. i \in OrderIds /\ phase = "strategy" /\ ForcedLate
    BY DEF OrdersOf, Called
  <2>2. orders[i].forced => slot >= Cutoff
    BY <1>3, <2>1, CalledFacts DEF ForcedLate, PastCutoff
  <2> HIDE DEF Cutoff
  <2> QED BY <2>2, CalledFacts
<1>4. ASSUME NEW i \in OrdersOf(s)
      PROVE  orders[i].side \in {"BUY", "SELL"}
  BY OrderFacts DEF Called, OrdersOf, Side
<1>5. Standing(s) = AllLive(s)
  BY <1>2, <1>3, <1>4 DEF AllLive, Live
<1> QED BY <1>1, <1>5

\* A cancellation by name takes away the offers of the orders it means.
LEMMA KilledOffers ==
    ASSUME NEW s, Called(s), slot + 1 < Cutoff, NEW ids \in SUBSET AllLive(s)
    PROVE  {x \in Offers(s) : x.reference \notin {orders[i].reference : i \in ids}}
             = {Offer(orders[i]) : i \in AllLive(s) \ ids}
<1>1. Offers(s) = {Offer(orders[i]) : i \in AllLive(s)}
  BY CalledOffers
<1>2. \A i, j \in AllLive(s) : orders[i].reference = orders[j].reference => i = j
  <2>1. \A i \in AllLive(s) : i \in Ordinary
    BY LiveFacts DEF AllLive
  <2> QED BY <2>1 DEF Called, Naming
<1>3. \A i : Offer(orders[i]).reference = orders[i].reference
  BY DEF Offer
<1> QED BY <1>1, <1>2, <1>3

LEMMA OfferFields ==
    ASSUME NEW s, Called(s), NEW i \in AllLive(s)
    PROVE  LET x == Offer(orders[i])
           IN  /\ x.reference = orders[i].reference /\ ~x.forced
               /\ x.side = orders[i].side /\ x.type = orders[i].type
               /\ x.group = orders[i].group /\ x.filled = orders[i].filled
               /\ x.left = Remaining(orders[i])
               /\ x.side = "BUY" <=> i \in Live(s, "BUY")
               /\ IsSale(x) <=> i \in Live(s, "SELL")
<1>1. ~orders[i].forced
  BY LiveFacts DEF AllLive
<1>2. i \in Live(s, "BUY") <=> orders[i].side = "BUY"
  BY DEF AllLive, Live
<1>3. i \in Live(s, "SELL") <=> orders[i].side = "SELL"
  BY DEF AllLive, Live
<1> QED BY <1>1, <1>2, <1>3 DEF Offer, IsSale

\* Fewer offers, the same holding and a memory that forgets nothing.
LEMMA FewerShape ==
    ASSUME NEW s, Shape(s), Offers(s)' \subseteq Offers(s), Held(s)' = Held(s),
           memory[s].cycle \subseteq memory'[s].cycle,
           memory'[s].basis = memory[s].basis,
           memory'[s].range = memory[s].range
    PROVE  Shape(s)'
<1>1. ASSUME NEW x \in Offers(s)', IsSale(x)
      PROVE  /\ x.reference \in memory'[s].cycle
             /\ x.type = "MARKET" => Offers(s)' = {x} /\ x.left = Held(s)'
  <2>1. /\ x \in Offers(s) /\ x.reference \in memory[s].cycle
        /\ x.type = "MARKET" => Offers(s) = {x} /\ x.left = Held(s)
    BY <1>1 DEF Shape
  <2> QED BY <2>1
<1>2. ASSUME NEW x \in Offers(s)', NEW y \in Offers(s)',
             IsSale(x), IsSale(y), x # y
      PROVE  /\ x.filled = 0 /\ x.left = memory'[s].basis.quantity
             /\ x.group # NoGroup /\ x.group = y.group
  BY <1>2 DEF Shape
<1>3. memory'[s].range = 0 =>
        Held(s)' = 0 /\ \A x \in Offers(s)' : x.side # "BUY"
  BY DEF Shape
<1> HIDE DEF Offers, Held
<1> QED BY <1>1, <1>2, <1>3 DEF Shape, IsSale

\* Everything that is held is for sale at the market, and nothing else is on
\* offer.
LEMMA SoleSale ==
    ASSUME NEW s, NEW x, Offers(s)' = {x}, IsSale(x), x.left = Held(s)',
           x.reference \in memory'[s].cycle, memory'[s].range # 0
    PROVE  Shape(s)' /\ Covers(s)'
<1>1. x.side # "BUY"
  BY DEF IsSale
<1> HIDE DEF Offers, Held
<1>2. Shape(s)'
  BY <1>1 DEF Shape, IsSale
<1>3. Covers(s)'
  BY <1>1 DEF Covers, IsSale
<1> QED BY <1>2, <1>3

\* What has been sold of a cycle does not change with the names it gets.
LEMMA ExitedStays ==
    ASSUME NEW s, NEW output, NEW n, NEW after, Answers(s, output, n, after),
           Exited(s)'
    PROVE  Exited(s)
<1>1. Called(s) /\ s \in Symbols /\ orders' = orders /\ n \in 0..LongestAnswer
  BY CalledFacts DEF Answers
<1>2. memory'[s].cycle \subseteq memory[s].cycle \cup {Name(s, k) : k \in 1..n}
  BY AnswersDrawn DEF Answers, Recalls
<1>3. PICK i \in OrdersOf(s) : /\ orders[i].side = "SELL" /\ orders[i].filled > 0
                               /\ orders[i].reference \in memory'[s].cycle
  BY <1>1 DEF Exited, OrdersOf, OrderIds
<1>4. ASSUME NEW k \in 1..n PROVE orders[i].reference # Name(s, k)
  <2>1. /\ k \in 1..LongestAnswer /\ Name(s, k) # ForcedReference
        /\ Name(s, k) \notin Drawn(s)
    BY <1>1, NewNames, CalledFacts DEF LongestAnswer, Called
  <2>2. i \in OrderIds /\ orders[i].symbol = s /\ orders[i].forced \in BOOLEAN
    BY <1>1, OrderFacts DEF OrdersOf, Called, OrderRecord
  <2>3. CASE orders[i].forced
    BY <1>1, <2>1, <2>2, <2>3 DEF Called, Timed, TimedOrder
  <2>4. CASE ~orders[i].forced
    BY <1>1, <2>1, <2>2, <2>4 DEF Called, Naming, Ordinary
  <2> QED BY <2>2, <2>3, <2>4
<1> QED BY <1>2, <1>3, <1>4 DEF Exited

(***************************************************************************)
(* What an evaluation remembers.                                           *)
(***************************************************************************)

LEMMA RememberFacts ==
    ASSUME NEW s, Called(s), NEW signal, NEW n \in 0..LongestAnswer
    PROVE  LET after == Remember(s, signal, n)
           IN  /\ Recalls(s, n, after)
               /\ after.cycle = memory[s].cycle \cup {Name(s, k) : k \in 1..n}
               /\ after.basis = memory[s].basis
               /\ after.range = memory[s].range
               /\ after.entry = memory[s].entry
<1> DEFINE after == Remember(s, signal, n)
           m == memory[s]
           names == {Name(s, k) : k \in 1..n}
<1>1. m \in MemoryRecord /\ s \in Symbols
  BY CalledFacts
<1>2. names \subseteq References
  <2>1. 1..n \subseteq 1..LongestAnswer
    BY DEF LongestAnswer
  <2> QED BY <2>1, NewNames, CalledFacts DEF Called
<1>3. /\ m.range \in Ranges \cup {0} /\ m.entry \in m.cycle \cup {NoEntry}
      /\ m.entry = NoEntry <=> m.range = 0
  BY <1>1 DEF Called, Remembers
<1>4. after = [m EXCEPT !.armed = @ \/ signal # "entry", !.drawn = @ + n,
                        !.cycle = @ \cup names]
  BY DEF Remember
<1> HIDE DEF after, m, names
<1>5. /\ after.drawn = m.drawn + n /\ after.cycle = m.cycle \cup names
      /\ after.basis = m.basis /\ after.range = m.range
      /\ after.entry = m.entry
  BY <1>1, <1>4 DEF MemoryRecord
<1>6. after \in MemoryRecord
  <2>1. (m.armed \/ signal # "entry") \in BOOLEAN
    OBVIOUS
  <2>2. m.drawn + n \in Nat /\ m.cycle \cup names \in SUBSET References
    BY <1>1, <1>2 DEF MemoryRecord, LongestAnswer
  <2> QED BY <1>1, <1>4, <2>1, <2>2 DEF MemoryRecord
<1>7. Recalls(s, n, after)
  BY <1>3, <1>5, <1>6 DEF Recalls, m, names
<1> QED BY <1>5, <1>7 DEF after, m, names

LEMMA AnswersRemember ==
    ASSUME NEW s, NEW output, NEW n, NEW after, Answers(s, output, n, after)
    PROVE  Remembers' /\ InTurns'
<1>1. /\ s \in Symbols /\ s = turn.symbol /\ phase = "strategy" /\ s \in todo
      /\ IndInv /\ InTurns /\ Remembers /\ Called(s)
      /\ UNCHANGED <<mode, session, slot, todo, turn>>
  BY CalledFacts DEF Answers, Called
<1>2. phase' \in {"apply", "failed"}
  BY AnswersAreAny
<1>3. InTurns'
  BY <1>1, <1>2 DEF InTurns
<1>4. memory' \in [Symbols -> MemoryRecord]
  BY <1>1 DEF Answers, Answer, Recalls, Remembers
<1>5. /\ memory'[s] = after /\ \A t \in Symbols \ {s} : memory'[t] = memory[t]
      /\ \A t \in Symbols : Drawn(t) \subseteq Drawn(t)'
      /\ \A k \in 1..n : Name(s, k) \in Drawn(s)'
  BY AnswersDrawn
<1>6. \A t \in Symbols : /\ Turns(t) \in Nat /\ Turns(t)' \in Int
                         /\ Turns(t) <= Turns(t)'
                         /\ t = s => Turns(t)' = Turns(t) + 1
  <2> TAKE t \in Symbols
  <2>1. Evaluated(t) => Evaluated(t)'
    BY <1>1, <1>2 DEF Evaluated
  <2>2. t = s => ~Evaluated(t) /\ Evaluated(t)'
    BY <1>1, <1>2 DEF Evaluated
  <2> DEFINE before == (session - 1) * Slots + (slot - 1)
  <2>3. /\ Turns(t) = before + (IF Evaluated(t) THEN 1 ELSE 0)
        /\ Turns(t)' = before + (IF Evaluated(t)' THEN 1 ELSE 0)
    BY <1>1 DEF Turns
  <2>4. Turns(t) \in Nat
    BY <1>1, TurnsBound
  <2>5. before \in Int
    BY <1>1, Constants DEF IndInv, TypeOK
  <2> HIDE DEF before, Turns, Evaluated
  <2> QED BY <2>1, <2>2, <2>3, <2>4, <2>5
<1>7. ASSUME NEW t \in Symbols
      PROVE  LET m == memory'[t]
             IN  /\ m.drawn <= LongestAnswer * Turns(t)'
                 /\ m.range \in Ranges \cup {0}
                 /\ m.cycle \subseteq Drawn(t)'
                 /\ m.entry \in m.cycle \cup {NoEntry}
                 /\ m.entry = NoEntry <=> m.range = 0
  <2>1. /\ memory[t].drawn <= LongestAnswer * Turns(t)
        /\ memory[t].range \in Ranges \cup {0}
        /\ memory[t].cycle \subseteq Drawn(t)
        /\ memory[t].entry \in memory[t].cycle \cup {NoEntry}
        /\ memory[t].entry = NoEntry <=> memory[t].range = 0
        /\ memory[t].drawn \in Nat
    BY <1>1 DEF Remembers, MemoryRecord
  <2> HIDE DEF Turns, Drawn
  <2>2. CASE t # s
    <3>1. LongestAnswer * Turns(t) <= LongestAnswer * Turns(t)'
      BY <1>6 DEF LongestAnswer
    <3>2. /\ LongestAnswer * Turns(t) \in Int
          /\ LongestAnswer * Turns(t)' \in Int
      BY <1>6 DEF LongestAnswer
    <3> QED BY <1>5, <2>1, <2>2, <3>1, <3>2
  <2>3. CASE t = s
    <3>1. n \in 0..LongestAnswer /\ Recalls(s, n, after)
      BY DEF Answers
    <3>2. memory[s].drawn + n <= LongestAnswer * Turns(s)'
      BY <1>6, <2>1, <2>3, <3>1 DEF LongestAnswer
    <3>3. after.cycle \subseteq Drawn(s)'
      BY <1>5, <2>1, <2>3, <3>1 DEF Recalls
    <3> QED BY <1>5, <2>3, <3>1, <3>2, <3>3 DEF Recalls
  <2> QED BY <2>2, <2>3
<1>8. Remembers'
  <2> HIDE DEF Turns, Drawn
  <2> QED BY <1>4, <1>7 DEF Remembers
<1> QED BY <1>3, <1>8

(***************************************************************************)
(* The branches of an evaluation: each answers well, and once its answer   *)
(* has been applied the offers have their shape and cover the holding.     *)
(***************************************************************************)

Frame == UNCHANGED <<mode, session, slot, todo, turn, orders, fills, books,
                     marks, warnings>>

AnswersWell(s) ==
    /\ \E output, n, after : Answers(s, output, n, after)
    /\ phase' = "apply" => Shape(s)' /\ Covers(s)'

LEMMA AnswersKeep ==
    ASSUME NEW s, NEW output, NEW n, NEW after, Answers(s, output, n, after),
           phase' = "apply"
    PROVE  /\ Held(s)' = Held(s)
           /\ Guarded(s)' <=> slot + 1 < Cutoff
<1>1. /\ slot' = slot /\ turn' = turn /\ positions' = positions
      /\ turn.symbol = s
  BY DEF Answers, books, Called
<1> HIDE DEF Cutoff
<1>2. Cutoff' = Cutoff
  BY DEF Cutoff, OpeningTime
<1> QED BY <1>1, <1>2 DEF Held, Guarded

\* An answer that cancels at most some orders leaves the shape as it is.
LEMMA CancellingShape ==
    ASSUME NEW s, NEW output, NEW n, NEW signal, Shape(s),
           Answers(s, output, n, Remember(s, signal, n)), phase' = "apply",
           Wanted(output) = {}
    PROVE  Shape(s)' /\ Offers(s)' = {x \in Offers(s) :
                                         x.reference \notin Killed(output)}
<1> DEFINE after == Remember(s, signal, n)
<1>1. Called(s) /\ n \in 0..LongestAnswer
  BY DEF Answers
<1>2. /\ after.cycle = memory[s].cycle \cup {Name(s, k) : k \in 1..n}
      /\ after.basis = memory[s].basis /\ after.range = memory[s].range
  BY <1>1, RememberFacts
<1>3. memory'[s] = after
  BY AnswersDrawn
<1>4. Offers(s)' = {x \in Offers(s) : x.reference \notin Killed(output)}
  BY AnswersOffers
<1>5. Held(s)' = Held(s)
  BY AnswersKeep
<1> HIDE DEF after, Offers, Held
<1>6. Shape(s)'
  BY <1>2, <1>3, <1>4, <1>5, FewerShape
<1> QED BY <1>4, <1>6

LEMMA StandAsideWell ==
    ASSUME NEW s, Called(s), Shape(s), Frame, NEW signal, StandAside(s, signal)
    PROVE  AnswersWell(s)
<1> DEFINE after == Remember(s, signal, 0)
<1>1. 0 \in 0..LongestAnswer
  BY DEF LongestAnswer
<1>2. Part(s, <<>>, 0, 0) /\ Killed(<<>>) = {} /\ Wanted(<<>>) = {}
  BY EmptyPart
<1>3. Recalls(s, 0, after)
  BY <1>1, RememberFacts
<1>4. Answer(s, <<>>, after)
  BY DEF StandAside
<1>5. Answers(s, <<>>, 0, after)
  BY <1>1, <1>2, <1>3, <1>4 DEF Answers, Frame
<1> HIDE DEF after
<1>6. ASSUME phase' = "apply" PROVE Shape(s)' /\ Covers(s)'
  <2>1. Shape(s)' /\ Offers(s)' = Offers(s)
    BY <1>2, <1>5, <1>6, CancellingShape DEF after
  <2>2. Held(s)' = Held(s) /\ (Guarded(s)' <=> slot + 1 < Cutoff)
    BY <1>5, <1>6, AnswersKeep
  <2>3. Held(s) \in Nat /\ (Silent <=> ~(slot + 1 < Cutoff))
    BY CalledFacts
  <2>4. ASSUME slot + 1 < Cutoff, Held(s) > 0
        PROVE  \E x : IsSale(x) /\ Offers(s) = {x} /\ x.left = Held(s)
    <3>1. Leaving(s)
      BY <2>3, <2>4 DEF StandAside
    <3>2. PICK i \in Live(s, "SELL") : orders[i].type = "MARKET"
      BY <3>1 DEF Leaving
    <3>3. i \in AllLive(s)
      BY DEF AllLive
    <3>4. /\ Offer(orders[i]) \in Offers(s) /\ IsSale(Offer(orders[i]))
          /\ Offer(orders[i]).type = "MARKET"
      BY <2>4, <3>2, <3>3, CalledOffers, OfferFields
    <3> QED BY <3>4 DEF Shape
  <2> HIDE DEF Offers, Held, Cutoff, Guarded
  <2>5. Covers(s)'
    <3> SUFFICES ASSUME slot + 1 < Cutoff, Held(s) > 0
                 PROVE  /\ \E x \in Offers(s) : IsSale(x)
                        /\ \A x \in Offers(s) : IsSale(x) => x.left = Held(s)
                        /\ \A x \in Offers(s) : x.side # "BUY"
      BY <2>1, <2>2 DEF Covers, IsSale
    <3> QED BY <2>4 DEF IsSale
  <2> QED BY <2>1, <2>5
<1> QED BY <1>5, <1>6 DEF AnswersWell

LEMMA SellAllPart ==
    ASSUME NEW s, Called(s), slot + 1 < Cutoff, Held(s) > 0,
           NEW n \in 1..LongestAnswer
    PROVE  /\ Len(SellAll(s, n)) = 1 /\ Part(s, SellAll(s, n), n - 1, n)
           /\ Killed(SellAll(s, n)) = {}
           /\ Wanted(SellAll(s, n))
                = {TradeOffer(s, n, "SELL", Held(s), "MARKET", NoGroup)}
<1>1. Held(s) \in Nat \ {0}
  BY CalledFacts
<1>2. "SELL" \in Side /\ "MARKET" \in OrderType /\ 0 \in Nat
  BY DEF Side, OrderType
<1> HIDE DEF Held
<1> QED BY <1>1, <1>2, TradePart DEF SellAll

\* An answer that cancels whatever is alive and sells everything.
LEMMA SellingWell ==
    ASSUME NEW s, Shape(s), NEW output, NEW n \in 1..LongestAnswer, NEW signal,
           NEW k \in 1..n, slot + 1 < Cutoff, Held(s) > 0, memory[s].range # 0,
           Answers(s, output, n, Remember(s, signal, n)),
           LiveNames(s) \subseteq Killed(output),
           Wanted(output) = {TradeOffer(s, k, "SELL", Held(s), "MARKET", NoGroup)}
    PROVE  AnswersWell(s)
<1> DEFINE after == Remember(s, signal, n)
           sale == TradeOffer(s, k, "SELL", Held(s), "MARKET", NoGroup)
<1>1. Called(s) /\ n \in 0..LongestAnswer
  BY DEF Answers
<1>2. ASSUME phase' = "apply" PROVE Shape(s)' /\ Covers(s)'
  <2>1. Offers(s)' = {x \in Offers(s) : x.reference \notin Killed(output)}
                       \cup {sale}
    BY <1>2, AnswersOffers
  <2>2. \A x \in Offers(s) : x.reference \in Killed(output)
    <3>1. \A i \in AllLive(s) : orders[i].reference \in LiveNames(s)
      BY DEF AllLive, LiveNames
    <3> QED BY <1>1, <3>1, CalledOffers, OfferFields
  <2>3. /\ memory'[s] = after /\ after.range = memory[s].range
        /\ Name(s, k) \in after.cycle
    BY <1>1, AnswersDrawn, RememberFacts
  <2>4. /\ sale.left = Held(s) /\ sale.reference = Name(s, k) /\ IsSale(sale)
    BY DEF TradeOffer, IsSale
  <2>5. Held(s)' = Held(s)
    BY <1>2, AnswersKeep
  <2> HIDE DEF after, sale, Offers, Held
  <2>6. Offers(s)' = {sale}
    BY <2>1, <2>2
  <2> QED BY <2>3, <2>4, <2>5, <2>6, SoleSale
<1> QED BY <1>2 DEF AnswersWell

LEMMA ReverseWell ==
    ASSUME NEW s, Called(s), Shape(s), Frame, NEW signal, Reverse(s, signal)
    PROVE  AnswersWell(s)
<1> DEFINE cancel == Cancel(s, 1, AllLive(s))
           c == Len(cancel)
           sell == SellAll(s, c + 1)
           output == cancel \o sell
<1>1. /\ slot + 1 < Cutoff /\ Held(s) > 0 /\ memory[s].range # 0
      /\ Answer(s, output, Remember(s, signal, Len(output)))
  BY CalledFacts DEF Reverse, Manages, AllLive
<1>2. AllLive(s) \in SUBSET (Live(s, "BUY") \cup Live(s, "SELL"))
  BY DEF AllLive
<1>3. /\ c \in {0, 1} /\ Part(s, cancel, 0, c)
      /\ Killed(cancel) = LiveNames(s) /\ Wanted(cancel) = {}
  <2>1. 1 \in 1..LongestAnswer /\ 1 - 1 = 0
    BY DEF LongestAnswer
  <2>2. /\ c \in {0, 1} /\ Part(s, cancel, 1 - 1, 1 - 1 + c)
        /\ Killed(cancel) = {orders[i].reference : i \in AllLive(s)}
        /\ Wanted(cancel) = {}
    BY <1>1, <1>2, <2>1, CancelPart
  <2>3. \A k \in {0, 1} : 1 - 1 = 0 /\ 1 - 1 + k = k
    OBVIOUS
  <2>4. {orders[i].reference : i \in AllLive(s)} = LiveNames(s)
    BY DEF AllLive, LiveNames
  <2> HIDE DEF cancel, c
  <2> QED BY <2>2, <2>3, <2>4
<1> HIDE DEF cancel, c
<1>4. /\ c + 1 \in 1..LongestAnswer /\ (c + 1) - 1 = c
      /\ c \in 0..LongestAnswer /\ c + 1 \in 0..LongestAnswer
      /\ 0 \in 0..LongestAnswer /\ 0 <= c /\ c <= c + 1
  BY <1>3 DEF LongestAnswer
<1>5. /\ Len(sell) = 1 /\ Part(s, sell, c, c + 1) /\ Killed(sell) = {}
      /\ Wanted(sell)
           = {TradeOffer(s, c + 1, "SELL", Held(s), "MARKET", NoGroup)}
  BY <1>1, <1>4, SellAllPart
<1> HIDE DEF sell
<1>6. /\ Part(s, output, 0, c + 1) /\ Len(output) = c + 1
      /\ Killed(output) = LiveNames(s)
      /\ Wanted(output)
           = {TradeOffer(s, c + 1, "SELL", Held(s), "MARKET", NoGroup)}
  <2>1. /\ Part(s, output, 0, c + 1) /\ Len(output) = Len(cancel) + Len(sell)
        /\ Killed(output) = Killed(cancel) \cup Killed(sell)
        /\ Wanted(output) = Wanted(cancel) \cup Wanted(sell)
    <3> DEFINE d == c + 1
    <3>1. Part(s, sell, c, d) /\ d \in 0..LongestAnswer /\ c <= d
      BY <1>4, <1>5
    <3> HIDE DEF d
    <3>2. /\ Part(s, output, 0, d) /\ Len(output) = Len(cancel) + Len(sell)
          /\ Killed(output) = Killed(cancel) \cup Killed(sell)
          /\ Wanted(output) = Wanted(cancel) \cup Wanted(sell)
      BY <1>3, <1>4, <3>1, JoinPart
    <3> QED BY <3>2 DEF d
  <2> QED BY <1>3, <1>5, <2>1 DEF c
<1> HIDE DEF output
<1>7. Answers(s, output, c + 1, Remember(s, signal, c + 1))
  BY <1>1, <1>4, <1>6, RememberFacts DEF Answers, Frame
<1>8. c + 1 \in 1..(c + 1)
  BY <1>4
<1> QED BY <1>1, <1>4, <1>6, <1>7, <1>8, SellingWell

\* The entry is cancelled once an exit has sold.
LEMMA CancelEntryPart ==
    ASSUME NEW s, Called(s), slot + 1 < Cutoff
    PROVE  LET c == CancelEntry(s)
           IN  /\ Len(c) \in {0, 1} /\ Part(s, c, 0, Len(c))
               /\ Killed(c) = IF Exited(s)
                              THEN {orders[i].reference : i \in Live(s, "BUY")}
                              ELSE {}
               /\ Wanted(c) = {}
<1> DEFINE ids == IF Exited(s) THEN Live(s, "BUY") ELSE {}
<1>1. ids \in SUBSET (Live(s, "BUY") \cup Live(s, "SELL"))
  OBVIOUS
<1>2. 1 \in 1..LongestAnswer /\ 1 - 1 = 0
  BY DEF LongestAnswer
<1>3. CancelEntry(s) = Cancel(s, 1, ids)
  BY DEF CancelEntry
<1>4. {orders[i].reference : i \in ids}
        = IF Exited(s) THEN {orders[i].reference : i \in Live(s, "BUY")} ELSE {}
  OBVIOUS
<1> HIDE DEF ids
<1>5. LET c == Cancel(s, 1, ids)
      IN  /\ Len(c) \in {0, 1} /\ Part(s, c, 1 - 1, 1 - 1 + Len(c))
          /\ Killed(c) = {orders[i].reference : i \in ids}
          /\ Wanted(c) = {}
  BY <1>1, <1>2, CancelPart
<1>6. \A k \in {0, 1} : 1 - 1 + k = k
  OBVIOUS
<1> QED BY <1>2, <1>3, <1>4, <1>5, <1>6

\* A stop that has sold is the only live exit, and its cycle has been exited.
LEMMA StoppingAlone ==
    ASSUME NEW s, Called(s), Shape(s), slot + 1 < Cutoff, NEW i \in Stopping(s)
    PROVE  Exited(s) /\ Live(s, "SELL") = {i}
<1>1. /\ i \in Live(s, "SELL") /\ orders[i].filled > 0
      /\ i \in OrdersOf(s) /\ orders[i].side = "SELL"
  BY DEF Stopping, Live
<1>2. /\ i \in AllLive(s) /\ Offer(orders[i]) \in Offers(s)
      /\ IsSale(Offer(orders[i]))
      /\ Offer(orders[i]).reference = orders[i].reference
      /\ Offer(orders[i]).filled = orders[i].filled
  BY <1>1, CalledOffers, OfferFields DEF AllLive
<1>3. orders[i].reference \in memory[s].cycle
  BY <1>2 DEF Shape
<1>4. Exited(s)
  BY <1>1, <1>3 DEF Exited
<1>5. ASSUME NEW j \in Live(s, "SELL") PROVE j = i
  <2>1. /\ j \in AllLive(s) /\ Offer(orders[j]) \in Offers(s)
        /\ IsSale(Offer(orders[j]))
        /\ Offer(orders[j]).reference = orders[j].reference
    BY CalledOffers, OfferFields DEF AllLive
  <2>2. orders[i].filled \in Nat
    BY <1>2, LiveFacts DEF AllLive, OrderRecord
  <2>3. Offer(orders[i]) = Offer(orders[j])
    BY <1>1, <1>2, <2>1, <2>2 DEF Shape
  <2>4. i \in Ordinary /\ j \in Ordinary
    BY <1>1, LiveFacts
  <2> QED BY <1>2, <2>1, <2>3, <2>4 DEF Called, Naming
<1> QED BY <1>1, <1>4, <1>5

LEMMA FirstStop ==
    ASSUME NEW s, Called(s), Stopping(s) # {}
    PROVE  (CHOOSE i \in Stopping(s) : \A j \in Stopping(s) : i <= j)
             \in Stopping(s)
<1> DEFINE R == OpToRel(<, Nat)
<1>1. Stopping(s) \subseteq Nat
  BY DEF Called, IndInv, TypeOK, Stopping, Live, OrdersOf, OrderIds
<1>2. PICK i \in Stopping(s) : \A j \in Stopping(s) : ~(<<j, i>> \in R)
  BY <1>1, NatLessThanWellFounded, WFMin
<1>3. \A j \in Stopping(s) : j < i => <<j, i>> \in R
  BY <1>1 DEF OpToRel
<1>4. \A j \in Stopping(s) : ~(j < i)
  BY <1>2, <1>3
<1>5. \A j \in Stopping(s) : i <= j
  <2> HIDE DEF R
  <2> QED BY <1>1, <1>4
<1> QED BY <1>5

\* What is left when only the entry is cancelled: it is when the cycle has
\* been exited, and the exits are never touched.
LEMMA AfterCancelEntry ==
    ASSUME NEW s, Called(s), Shape(s), slot + 1 < Cutoff, NEW signal,
           NEW n \in 0..LongestAnswer, phase' = "apply",
           Answers(s, CancelEntry(s), n, Remember(s, signal, n))
    PROVE  /\ Shape(s)' /\ Held(s)' = Held(s)
           /\ \A i \in Live(s, "SELL") : Offer(orders[i]) \in Offers(s)'
           /\ \A x \in Offers(s)' : IsSale(x) =>
                \E i \in Live(s, "SELL") : x = Offer(orders[i])
           /\ Exited(s)' => \A x \in Offers(s)' : x.side # "BUY"
<1> DEFINE output == CancelEntry(s)
           ids == IF Exited(s) THEN Live(s, "BUY") ELSE {}
<1>1. /\ Killed(output) = {orders[i].reference : i \in ids}
      /\ Wanted(output) = {}
  BY CancelEntryPart
<1>2. Shape(s)' /\ Offers(s)' = {x \in Offers(s) :
                                    x.reference \notin Killed(output)}
  BY <1>1, CancellingShape
<1>3. ids \in SUBSET AllLive(s)
  BY DEF AllLive
<1>4. {x \in Offers(s) : x.reference \notin {orders[i].reference : i \in ids}}
        = {Offer(orders[i]) : i \in AllLive(s) \ ids}
  <2> HIDE DEF ids
  <2> QED BY <1>3, KilledOffers
<1>5. Offers(s)' = {Offer(orders[i]) : i \in AllLive(s) \ ids}
  <2> HIDE DEF ids, output, Offers
  <2> QED BY <1>1, <1>2, <1>4
<1>6. Held(s)' = Held(s)
  BY AnswersKeep
<1>7. \A i \in Live(s, "SELL") : i \in AllLive(s) \ ids
  BY DEF AllLive, Live
<1>8. \A i \in AllLive(s) : /\ IsSale(Offer(orders[i])) <=> i \in Live(s, "SELL")
                            /\ Offer(orders[i]).side = "BUY"
                                 <=> i \in Live(s, "BUY")
  BY OfferFields
<1>9. Exited(s)' => Exited(s)
  BY ExitedStays
<1>10. Exited(s) => ids = Live(s, "BUY")
  OBVIOUS
<1> HIDE DEF ids, output, Offers, Held, Exited
<1> QED BY <1>2, <1>5, <1>6, <1>7, <1>8, <1>9, <1>10

LEMMA FollowStopWell ==
    ASSUME NEW s, Called(s), Shape(s), Frame, NEW signal, FollowStop(s, signal)
    PROVE  AnswersWell(s)
<1> DEFINE cancel == CancelEntry(s)
           c == Len(cancel)
           stop == CHOOSE i \in Stopping(s) : \A j \in Stopping(s) : i <= j
           replace == Cancel(s, c + 1, Live(s, "SELL"))
           r == Len(replace)
           sell == SellAll(s, c + r + 1)
           output == IF Remaining(orders[stop]) = Held(s) THEN cancel
                     ELSE cancel \o replace \o sell
<1>1. /\ slot + 1 < Cutoff /\ Held(s) > 0 /\ memory[s].range # 0
      /\ Stopping(s) # {}
      /\ Answer(s, output, Remember(s, signal, Len(output)))
  BY CalledFacts DEF FollowStop, Manages
<1>2. stop \in Stopping(s)
  BY <1>1, FirstStop
<1>3. Exited(s) /\ Live(s, "SELL") = {stop}
  BY <1>1, <1>2, StoppingAlone
<1>4. /\ c \in {0, 1} /\ Part(s, cancel, 0, c) /\ Wanted(cancel) = {}
      /\ Killed(cancel) = {orders[i].reference : i \in Live(s, "BUY")}
  BY <1>1, <1>3, CancelEntryPart
<1>5. CASE Remaining(orders[stop]) = Held(s)
  <2>1. output = cancel
    BY <1>5
  <2>2. c \in 0..LongestAnswer
    BY <1>4 DEF LongestAnswer
  <2>3. Answers(s, CancelEntry(s), c, Remember(s, signal, c))
    BY <1>1, <1>4, <2>1, <2>2, RememberFacts DEF Answers, Frame
  <2>4. ASSUME phase' = "apply" PROVE Shape(s)' /\ Covers(s)'
    <3>1. /\ Shape(s)' /\ Held(s)' = Held(s)
          /\ \A i \in Live(s, "SELL") : Offer(orders[i]) \in Offers(s)'
          /\ \A x \in Offers(s)' : IsSale(x) =>
               \E i \in Live(s, "SELL") : x = Offer(orders[i])
          /\ Exited(s)' => \A x \in Offers(s)' : x.side # "BUY"
      BY <1>1, <2>2, <2>3, <2>4, AfterCancelEntry
    <3>2. stop \in AllLive(s)
      BY <1>3 DEF AllLive
    <3>3. /\ IsSale(Offer(orders[stop]))
          /\ Offer(orders[stop]).left = Remaining(orders[stop])
      BY <1>3, <3>2, OfferFields
    <3> HIDE DEF stop, Offers, Held
    <3> QED BY <1>3, <1>5, <3>1, <3>3 DEF Covers, IsSale
  <2> QED BY <2>3, <2>4 DEF AnswersWell
<1>6. CASE Remaining(orders[stop]) # Held(s)
  <2>1. output = cancel \o replace \o sell
    BY <1>6
  <2>2. c + 1 \in 1..LongestAnswer /\ c + 1 - 1 = c /\ c \in Nat
    <3> HIDE DEF c
    <3> QED BY <1>4 DEF LongestAnswer
  <2>3. /\ r \in {0, 1} /\ Part(s, replace, c, c + r) /\ Wanted(replace) = {}
        /\ Killed(replace) = {orders[i].reference : i \in Live(s, "SELL")}
    <3> HIDE DEF c
    <3>1. /\ r \in {0, 1} /\ Part(s, replace, c + 1 - 1, c + 1 - 1 + r)
          /\ Killed(replace) = {orders[i].reference : i \in Live(s, "SELL")}
          /\ Wanted(replace) = {}
      BY <1>1, <2>2, CancelPart
    <3> HIDE DEF replace, r
    <3> QED BY <2>2, <3>1
  <2> HIDE DEF cancel, c, replace, r
  <2> DEFINE b == c + r
             d == b + 1
             both == cancel \o replace
  <2>4. /\ b \in 0..LongestAnswer /\ d \in 1..LongestAnswer /\ d - 1 = b
        /\ d \in 0..LongestAnswer /\ c \in 0..LongestAnswer
        /\ 0 \in 0..LongestAnswer /\ 0 <= c /\ c <= b /\ 0 <= b /\ b <= d
        /\ d \in 1..d
    BY <1>4, <2>3 DEF LongestAnswer
  <2>5. /\ Len(sell) = 1 /\ Part(s, sell, b, d) /\ Killed(sell) = {}
        /\ Wanted(sell) = {TradeOffer(s, d, "SELL", Held(s), "MARKET", NoGroup)}
    <3>1. sell = SellAll(s, d)
      OBVIOUS
    <3> HIDE DEF b, d, sell
    <3>2. /\ Len(SellAll(s, d)) = 1 /\ Part(s, SellAll(s, d), d - 1, d)
          /\ Killed(SellAll(s, d)) = {}
          /\ Wanted(SellAll(s, d))
               = {TradeOffer(s, d, "SELL", Held(s), "MARKET", NoGroup)}
      BY <1>1, <2>4, SellAllPart
    <3> QED BY <2>4, <3>1, <3>2
  <2>6. Part(s, replace, c, b) /\ Len(cancel) = c /\ Len(replace) = r
    BY <2>3 DEF c, r
  <2>7. /\ Part(s, both, 0, b) /\ Len(both) = Len(cancel) + Len(replace)
        /\ Killed(both) = Killed(cancel) \cup Killed(replace)
        /\ Wanted(both) = Wanted(cancel) \cup Wanted(replace)
    <3> HIDE DEF b, both
    <3>1. Part(s, cancel, 0, c) /\ Part(s, replace, c, b)
      BY <1>4, <2>6
    <3>2. /\ 0 \in 0..LongestAnswer /\ c \in 0..LongestAnswer
          /\ b \in 0..LongestAnswer /\ 0 <= c /\ c <= b
      BY <2>4
    <3> QED BY <3>1, <3>2, JoinPart DEF both
  <2>8. /\ Part(s, both \o sell, 0, d)
        /\ Len(both \o sell) = Len(both) + Len(sell)
        /\ Killed(both \o sell) = Killed(both) \cup Killed(sell)
        /\ Wanted(both \o sell) = Wanted(both) \cup Wanted(sell)
    <3> HIDE DEF b, d, both, sell
    <3>1. Part(s, both, 0, b) /\ Part(s, sell, b, d)
      BY <2>5, <2>7
    <3>2. /\ 0 \in 0..LongestAnswer /\ b \in 0..LongestAnswer
          /\ d \in 0..LongestAnswer /\ 0 <= b /\ b <= d
      BY <2>4
    <3> QED BY <3>1, <3>2, JoinPart
  <2>9. /\ Part(s, output, 0, d) /\ Len(output) = d
        /\ LiveNames(s) = Killed(output)
        /\ Wanted(output)
             = {TradeOffer(s, d, "SELL", Held(s), "MARKET", NoGroup)}
    <3>1. output = both \o sell
      BY <2>1
    <3> HIDE DEF sell, output, both
    <3> QED BY <1>4, <2>3, <2>5, <2>6, <2>7, <2>8, <3>1 DEF LiveNames
  <2> HIDE DEF b, d, output
  <2>10. Answers(s, output, d, Remember(s, signal, d))
    BY <1>1, <2>4, <2>9, RememberFacts DEF Answers, Frame
  <2> QED BY <1>1, <2>4, <2>9, <2>10, SellingWell
<1> QED BY <1>5, <1>6

\* Two elements are some, and each has the other one.
LEMMA TwoElements ==
    ASSUME NEW S, Cardinality(S) = 2
    PROVE  S # {} /\ \A i \in S : \E j \in S : j # i
<1>1. Cardinality({}) = 0
  BY FS_EmptySet
<1>2. ASSUME NEW i \in S, \A j \in S : j = i PROVE FALSE
  <2>1. S = {i}
    BY <1>2
  <2>2. Cardinality({i}) = 1
    BY FS_Singleton
  <2> QED BY <2>1, <2>2
<1>3. S # {}
  BY <1>1
<1> QED BY <1>2, <1>3

LEMMA KeepProtectionWell ==
    ASSUME NEW s, Called(s), Shape(s), Frame, NEW signal,
           KeepProtection(s, signal)
    PROVE  AnswersWell(s)
<1> DEFINE cancel == CancelEntry(s)
           c == Len(cancel)
<1>1. /\ slot + 1 < Cutoff /\ Held(s) > 0
      /\ memory[s].basis = Holding(s) /\ Cardinality(Live(s, "SELL")) = 2
      /\ Answer(s, cancel, Remember(s, signal, c))
  BY CalledFacts DEF KeepProtection, Manages, Protected
<1>2. /\ c \in {0, 1} /\ Part(s, cancel, 0, c)
  BY <1>1, CancelEntryPart
<1>3. c \in 0..LongestAnswer
  <2> HIDE DEF c
  <2> QED BY <1>2 DEF LongestAnswer
<1>4. Answers(s, CancelEntry(s), c, Remember(s, signal, c))
  BY <1>1, <1>2, <1>3, RememberFacts DEF Answers, Frame
<1>5. ASSUME NEW i \in Live(s, "SELL")
      PROVE  Offer(orders[i]).left = Held(s) /\ IsSale(Offer(orders[i]))
  <2>1. PICK j \in Live(s, "SELL") : j # i
    BY <1>1, TwoElements
  <2>2. i \in AllLive(s) /\ j \in AllLive(s) /\ i \in Ordinary /\ j \in Ordinary
    BY LiveFacts DEF AllLive
  <2>3. /\ Offer(orders[i]) \in Offers(s) /\ Offer(orders[j]) \in Offers(s)
        /\ IsSale(Offer(orders[i])) /\ IsSale(Offer(orders[j]))
        /\ Offer(orders[i]).reference = orders[i].reference
        /\ Offer(orders[j]).reference = orders[j].reference
    BY <1>1, <2>2, CalledOffers, OfferFields
  <2>4. Offer(orders[i]) # Offer(orders[j])
    BY <2>1, <2>2, <2>3 DEF Called, Naming
  <2>5. Offer(orders[i]).left = memory[s].basis.quantity
    BY <2>3, <2>4 DEF Shape
  <2> QED BY <1>1, <2>3, <2>5 DEF Holding
<1>6. Live(s, "SELL") # {}
  BY <1>1, TwoElements
<1>7. ASSUME phase' = "apply" PROVE Shape(s)' /\ Covers(s)'
  <2>1. /\ Shape(s)' /\ Held(s)' = Held(s)
        /\ \A i \in Live(s, "SELL") : Offer(orders[i]) \in Offers(s)'
        /\ \A x \in Offers(s)' : IsSale(x) =>
             \E i \in Live(s, "SELL") : x = Offer(orders[i])
        /\ Exited(s)' => \A x \in Offers(s)' : x.side # "BUY"
    BY <1>1, <1>3, <1>4, <1>7, AfterCancelEntry
  <2> HIDE DEF Offers, Held
  <2> QED BY <1>5, <1>6, <2>1 DEF Covers, IsSale
<1> QED BY <1>4, <1>7 DEF AnswersWell

LEMMA FinishCycleWell ==
    ASSUME NEW s, Called(s), Shape(s), Frame, NEW signal, FinishCycle(s, signal)
    PROVE  AnswersWell(s)
<1> DEFINE ids == IF Exited(s) THEN Live(s, "BUY") \cup Live(s, "SELL")
                               ELSE Live(s, "SELL")
           output == Cancel(s, 1, ids)
           n == Len(output)
           before == Remember(s, signal, n)
           after == [before EXCEPT !.entry = NoEntry, !.range = 0,
                                   !.basis = NoBasis]
<1>1. /\ slot + 1 < Cutoff /\ Held(s) = 0 /\ Answer(s, output, after)
      /\ AllLive(s) \ ids = {} /\ ids \in SUBSET AllLive(s)
  BY CalledFacts DEF FinishCycle, CycleOver, AllLive
<1>2. /\ n \in {0, 1} /\ Part(s, output, 0, n)
      /\ Killed(output) = {orders[i].reference : i \in ids}
      /\ Wanted(output) = {}
  <2>1. 1 \in 1..LongestAnswer
    BY DEF LongestAnswer
  <2> HIDE DEF ids
  <2>2. /\ n \in {0, 1} /\ Part(s, output, 1 - 1, 1 - 1 + n)
        /\ Killed(output) = {orders[i].reference : i \in ids}
        /\ Wanted(output) = {}
    BY <1>1, <2>1, CancelPart DEF AllLive
  <2>3. \A k \in {0, 1} : 1 - 1 = 0 /\ 1 - 1 + k = k
    OBVIOUS
  <2> HIDE DEF output, n
  <2> QED BY <2>2, <2>3
<1>3. n \in 0..LongestAnswer
  <2> HIDE DEF n
  <2> QED BY <1>2 DEF LongestAnswer
<1>4. Recalls(s, n, after)
  <2>1. Recalls(s, n, before)
    BY <1>3, RememberFacts
  <2> HIDE DEF before
  <2>2. /\ after.entry = NoEntry /\ after.range = 0
        /\ after.cycle = before.cycle /\ after.drawn = before.drawn
        /\ after \in MemoryRecord
    BY <2>1 DEF Recalls, MemoryRecord, NoBasis
  <2> HIDE DEF after
  <2> QED BY <2>1, <2>2 DEF Recalls
<1>5. Answers(s, output, n, after)
  BY <1>1, <1>2, <1>3, <1>4 DEF Answers, Frame
<1>6. ASSUME phase' = "apply" PROVE Shape(s)' /\ Covers(s)'
  <2>1. Offers(s)' = {x \in Offers(s) : x.reference \notin Killed(output)}
                       \cup Wanted(output)
    BY <1>5, <1>6, AnswersOffers
  <2>2. {x \in Offers(s) :
           x.reference \notin {orders[i].reference : i \in ids}}
          = {Offer(orders[i]) : i \in AllLive(s) \ ids}
    <3> HIDE DEF ids
    <3> QED BY <1>1, KilledOffers
  <2>3. Offers(s)' = {}
    <3> HIDE DEF ids, output, Offers
    <3> QED BY <1>1, <1>2, <2>1, <2>2
  <2>4. Held(s)' = 0
    BY <1>1, <1>5, <1>6, AnswersKeep
  <2> HIDE DEF Offers, Held
  <2> QED BY <2>3, <2>4 DEF Shape, Covers
<1> QED BY <1>5, <1>6 DEF AnswersWell

LEMMA EnterWell ==
    ASSUME NEW s, Called(s), Shape(s), Frame, NEW signal, Enter(s, signal)
    PROVE  AnswersWell(s)
<1>1. PICK range \in Ranges :
        Answer(s, Request(s, 1, "BUY", Quantity, "MARKET", 0, NoGroup),
               [Remember(s, signal, 1) EXCEPT
                   !.cycle = {Name(s, 1)}, !.entry = Name(s, 1),
                   !.range = range, !.armed = FALSE])
  BY DEF Enter
<1> DEFINE output == Request(s, 1, "BUY", Quantity, "MARKET", 0, NoGroup)
           before == Remember(s, signal, 1)
           after == [before EXCEPT !.cycle = {Name(s, 1)}, !.entry = Name(s, 1),
                                   !.range = range, !.armed = FALSE]
           bid == TradeOffer(s, 1, "BUY", Quantity, "MARKET", NoGroup)
<1>2. /\ slot + 1 < Cutoff /\ Held(s) = 0 /\ Answer(s, output, after)
      /\ AllLive(s) = {}
  BY <1>1, CalledFacts DEF Enter, AllLive
<1>3. 1 \in 0..LongestAnswer /\ 1 \in 1..LongestAnswer /\ 1 - 1 = 0
  BY DEF LongestAnswer
<1>4. Part(s, output, 0, 1) /\ Wanted(output) = {bid}
  <2>1. /\ "BUY" \in Side /\ "MARKET" \in OrderType /\ 0 \in Nat
        /\ Quantity \in Nat \ {0} /\ "BUY" # "SELL"
    BY BaselineAssumption DEF Side, OrderType
  <2>2. /\ Part(s, output, 1 - 1, 1)
        /\ Wanted(output) = {bid}
    BY <1>2, <1>3, <2>1, TradePart
  <2> QED BY <1>3, <2>2
<1>5. Name(s, 1) \in References /\ Name(s, 1) # NoEntry
  BY <1>3, NewNames, CalledFacts DEF Called
<1>6. Recalls(s, 1, after)
  <2>1. /\ Recalls(s, 1, before)
        /\ before.cycle = memory[s].cycle \cup {Name(s, k) : k \in 1..1}
    BY <1>3, RememberFacts
  <2>2. range \in Nat /\ range # 0
    BY BaselineAssumption
  <2> HIDE DEF before
  <2>3. /\ after.entry = Name(s, 1) /\ after.range = range
        /\ after.cycle = {Name(s, 1)} /\ after.drawn = before.drawn
        /\ after \in MemoryRecord
    BY <1>5, <2>1, <2>2 DEF Recalls, MemoryRecord
  <2>4. Name(s, 1) \in {Name(s, k) : k \in 1..1}
    OBVIOUS
  <2> HIDE DEF after
  <2> QED BY <1>5, <2>1, <2>2, <2>3, <2>4 DEF Recalls
<1>7. Answers(s, output, 1, after)
  BY <1>2, <1>3, <1>4, <1>6 DEF Answers, Frame
<1>8. ASSUME phase' = "apply" PROVE Shape(s)' /\ Covers(s)'
  <2>1. Offers(s)' = {x \in Offers(s) : x.reference \notin Killed(output)}
                       \cup Wanted(output)
    BY <1>7, <1>8, AnswersOffers
  <2>2. Offers(s) = {}
    BY <1>2, CalledOffers
  <2>3. memory'[s].range # 0
    <3>1. memory'[s] = after
      BY <1>7, AnswersDrawn
    <3>2. before \in MemoryRecord
      BY <1>3, RememberFacts DEF Recalls
    <3> HIDE DEF before
    <3>3. after.range = range
      BY <3>2 DEF MemoryRecord
    <3> QED BY <3>1, <3>3, BaselineAssumption
  <2>4. Held(s)' = 0
    BY <1>2, <1>7, <1>8, AnswersKeep
  <2>5. ~IsSale(bid)
    BY DEF IsSale, TradeOffer
  <2> HIDE DEF Offers, Held, bid, output
  <2>6. Offers(s)' = {bid}
    BY <1>4, <2>1, <2>2
  <2> QED BY <2>3, <2>4, <2>5, <2>6 DEF Shape, Covers, IsSale
<1> QED BY <1>7, <1>8 DEF AnswersWell

LEMMA PriceTypes ==
    ASSUME NEW s, Called(s), Held(s) > 0
    PROVE  /\ StopPrice(s) \in Int /\ TargetPrice(s) \in Nat
           /\ Holding(s) \in [quantity : Nat, amount : Nat]
           /\ Holding(s).quantity = Held(s)
<1> DEFINE basis == positions[s].basis
           shares == Held(s) * SlipDen
           distance == memory[s].range * StopMultiple
           reach == memory[s].range * TargetMultiple
<1>1. /\ Held(s) \in Nat \ {0} /\ basis \in Nat /\ SlipDen \in Nat \ {0}
      /\ memory[s].range \in Nat
      /\ StopMultiple \in Nat \ {0} /\ TargetMultiple \in Nat \ {0}
  BY CalledFacts, Constants, BaselineAssumption DEF PositionRecord, MemoryRecord
<1>2. shares \in Nat \ {0}
  <2> HIDE DEF Held
  <2> QED BY <1>1
<1>3. distance \in Nat /\ reach \in Nat
  BY <1>1
<1> HIDE DEF basis, shares, distance, reach
<1>4. (2 * basis + shares) \div (2 * shares) \in Nat
  <2>1. 2 * basis + shares \in Nat /\ 2 * shares \in Nat \ {0}
    BY <1>1, <1>2
  <2> DEFINE a == 2 * basis + shares
             d == 2 * shares
  <2> HIDE DEF a, d
  <2>2. a \in Nat /\ d \in Nat \ {0}
    BY <2>1 DEF a, d
  <2>3. a \div d \in Nat
    BY <2>2, DivMonotone
  <2> QED BY <2>3 DEF a, d
<1>5. AveragePrice(s) \in Nat
  BY <1>4 DEF AveragePrice, basis, shares
<1>6. StopPrice(s) \in Int /\ TargetPrice(s) \in Nat
  <2> HIDE DEF AveragePrice
  <2> QED BY <1>3, <1>5 DEF StopPrice, TargetPrice, distance, reach
<1> QED BY <1>1, <1>6 DEF Holding, basis

\* The stop and the target, as one part of an answer.
LEMMA ProtectionPart ==
    ASSUME NEW s, Called(s), slot + 1 < Cutoff, Held(s) > 0, StopPrice(s) > 0,
           NEW n \in 1..LongestAnswer, n + 2 \in 1..LongestAnswer
    PROVE  LET p == Protection(s, n)
           IN  /\ Len(p) = 2 /\ Part(s, p, n, n + 2) /\ Killed(p) = {}
               /\ Wanted(p)
                    = {TradeOffer(s, n + 1, "SELL", Held(s), "STOP_MARKET",
                                  Name(s, n)),
                       TradeOffer(s, n + 2, "SELL", Held(s), "LIMIT",
                                  Name(s, n))}
<1> DEFINE group == Name(s, n)
           a == n + 1
           b == n + 2
           stop == Request(s, a, "SELL", Held(s), "STOP_MARKET", StopPrice(s),
                           group)
           target == Request(s, b, "SELL", Held(s), "LIMIT", TargetPrice(s),
                             group)
<1>1. /\ a \in 1..LongestAnswer /\ a - 1 = n /\ b \in 1..LongestAnswer
      /\ b - 1 = a /\ n \in 0..LongestAnswer /\ a \in 0..LongestAnswer
      /\ b \in 0..LongestAnswer /\ n <= a /\ a <= b
  BY DEF LongestAnswer
<1>2. Protection(s, n) = stop \o target
  BY DEF Protection
<1>3. /\ Held(s) \in Nat \ {0} /\ StopPrice(s) \in Nat /\ TargetPrice(s) \in Nat
      /\ group \in Groups \cup {NoGroup}
      /\ "SELL" \in Side /\ "STOP_MARKET" \in OrderType /\ "LIMIT" \in OrderType
  <2>1. group \in Groups
    BY NewNames, CalledFacts DEF Called
  <2>2. "SELL" \in Side /\ "STOP_MARKET" \in OrderType /\ "LIMIT" \in OrderType
    BY DEF Side, OrderType
  <2>3. /\ Held(s) \in Nat /\ StopPrice(s) \in Int /\ TargetPrice(s) \in Nat
    BY CalledFacts, PriceTypes
  <2> HIDE DEF group, Held, StopPrice, TargetPrice
  <2> QED BY <2>1, <2>2, <2>3
<1> HIDE DEF group, a, b, Held, StopPrice, TargetPrice
<1>4. /\ Len(stop) = 1 /\ Part(s, stop, n, a) /\ Killed(stop) = {}
      /\ Wanted(stop)
           = {TradeOffer(s, a, "SELL", Held(s), "STOP_MARKET", group)}
  <2>1. /\ Len(stop) = 1 /\ Part(s, stop, a - 1, a) /\ Killed(stop) = {}
        /\ Wanted(stop)
             = {TradeOffer(s, a, "SELL", Held(s), "STOP_MARKET", group)}
    BY <1>1, <1>3, TradePart
  <2> HIDE DEF stop
  <2> QED BY <1>1, <2>1
<1>5. /\ Len(target) = 1 /\ Part(s, target, a, b) /\ Killed(target) = {}
      /\ Wanted(target) = {TradeOffer(s, b, "SELL", Held(s), "LIMIT", group)}
  <2>1. /\ Len(target) = 1 /\ Part(s, target, b - 1, b) /\ Killed(target) = {}
        /\ Wanted(target)
             = {TradeOffer(s, b, "SELL", Held(s), "LIMIT", group)}
    BY <1>1, <1>3, TradePart
  <2> HIDE DEF target
  <2> QED BY <1>1, <2>1
<1> HIDE DEF stop, target
<1>6. /\ Part(s, stop \o target, n, b)
      /\ Len(stop \o target) = Len(stop) + Len(target)
      /\ Killed(stop \o target) = Killed(stop) \cup Killed(target)
      /\ Wanted(stop \o target) = Wanted(stop) \cup Wanted(target)
  <2>1. Part(s, stop, n, a) /\ Part(s, target, a, b)
    BY <1>4, <1>5
  <2>2. /\ n \in 0..LongestAnswer /\ a \in 0..LongestAnswer
        /\ b \in 0..LongestAnswer /\ n <= a /\ a <= b
    BY <1>1
  <2> QED BY <2>1, <2>2, JoinPart
<1>7. Len(stop \o target) = 2
  BY <1>4, <1>5, <1>6
<1> QED BY <1>2, <1>4, <1>5, <1>6, <1>7 DEF a, b, group

LEMMA WidenPart ==
    ASSUME NEW s, NEW output, NEW a \in Nat, NEW b \in Nat, NEW d \in Nat,
           b <= d, Part(s, output, a, b)
    PROVE  Part(s, output, a, d)
<1>1. (a + 1)..b \subseteq (a + 1)..d
  OBVIOUS
<1> QED BY <1>1 DEF Part

\* A stop and a target for all that is held are the only exits.
LEMMA ProtectedWell ==
    ASSUME NEW s, Shape(s), NEW output, NEW e \in 1..LongestAnswer,
           NEW d \in 1..e, NEW d1 \in 1..e, NEW d2 \in 1..e, NEW signal,
           slot + 1 < Cutoff, Held(s) > 0, memory[s].range # 0,
           Answers(s, output, e,
                   [Remember(s, signal, e) EXCEPT !.basis = Holding(s)]),
           Killed(output) =
             {orders[i].reference :
                i \in (IF Exited(s) THEN Live(s, "BUY") ELSE {})
                        \cup Live(s, "SELL")},
           Wanted(output) =
             {TradeOffer(s, d1, "SELL", Held(s), "STOP_MARKET", Name(s, d)),
              TradeOffer(s, d2, "SELL", Held(s), "LIMIT", Name(s, d))}
    PROVE  AnswersWell(s)
<1> DEFINE before == Remember(s, signal, e)
           after == [before EXCEPT !.basis = Holding(s)]
           ids == (IF Exited(s) THEN Live(s, "BUY") ELSE {}) \cup Live(s, "SELL")
           group == Name(s, d)
           stop == TradeOffer(s, d1, "SELL", Held(s), "STOP_MARKET", group)
           target == TradeOffer(s, d2, "SELL", Held(s), "LIMIT", group)
<1>1. Called(s) /\ e \in 0..LongestAnswer
  BY DEF Answers
<1>2. ASSUME phase' = "apply" PROVE Shape(s)' /\ Covers(s)'
  <2>1. Offers(s)' = {x \in Offers(s) : x.reference \notin Killed(output)}
                       \cup Wanted(output)
    BY <1>2, AnswersOffers
  <2>2. ids \in SUBSET AllLive(s)
    BY DEF AllLive
  <2>3. {x \in Offers(s) : x.reference \notin {orders[i].reference : i \in ids}}
          = {Offer(orders[i]) : i \in AllLive(s) \ ids}
    <3> HIDE DEF ids
    <3> QED BY <1>1, <2>2, KilledOffers
  <2>4. Offers(s)' = {Offer(orders[i]) : i \in AllLive(s) \ ids}
                       \cup {stop, target}
    <3> HIDE DEF stop, target, group, Offers
    <3> QED BY <2>1, <2>3 DEF stop, target, group
  <2>5. \A i \in AllLive(s) \ ids :
           /\ ~IsSale(Offer(orders[i]))
           /\ ~Exited(s)
    <3>1. \A i \in AllLive(s) \ ids : i \notin Live(s, "SELL") /\ ~Exited(s)
      BY DEF AllLive
    <3> QED BY <1>1, <3>1, OfferFields
  <2>6. /\ stop.reference = Name(s, d1) /\ target.reference = Name(s, d2)
        /\ stop.type # "MARKET" /\ target.type # "MARKET"
        /\ IsSale(stop) /\ IsSale(target)
        /\ stop.left = Held(s) /\ target.left = Held(s)
        /\ stop.filled = 0 /\ target.filled = 0
        /\ stop.group = group /\ target.group = group
        /\ stop.side # "BUY" /\ target.side # "BUY"
    BY DEF TradeOffer, IsSale
  <2>7. group # NoGroup
    <3>1. d \in 1..LongestAnswer
      BY DEF LongestAnswer
    <3> QED BY <1>1, <3>1, NewNames, CalledFacts DEF Called
  <2>8. /\ memory'[s].basis.quantity = Held(s)
        /\ memory'[s].range # 0
        /\ Name(s, d1) \in memory'[s].cycle /\ Name(s, d2) \in memory'[s].cycle
    <3>1. memory'[s] = after
      BY AnswersDrawn
    <3>2. /\ before \in MemoryRecord /\ before.range = memory[s].range
          /\ before.cycle = memory[s].cycle \cup {Name(s, k) : k \in 1..e}
      BY <1>1, RememberFacts DEF Recalls
    <3> HIDE DEF before
    <3>3. /\ after.basis = Holding(s) /\ after.range = before.range
          /\ after.cycle = before.cycle
      BY <3>2 DEF MemoryRecord
    <3>4. Holding(s).quantity = Held(s)
      BY DEF Holding
    <3> HIDE DEF after
    <3> QED BY <3>1, <3>2, <3>3, <3>4
  <2>9. Held(s)' = Held(s)
    BY <1>2, AnswersKeep
  <2>10. Exited(s)' => Exited(s)
    BY ExitedStays
  <2> HIDE DEF Offers, Held, stop, target, ids, group, Exited
  <2>11. \A x \in Offers(s)' : IsSale(x) => x \in {stop, target}
    BY <2>4, <2>5
  <2>12. Shape(s)'
    BY <2>6, <2>7, <2>8, <2>9, <2>11 DEF Shape, IsSale
  <2>13. Covers(s)'
    BY <2>4, <2>5, <2>6, <2>9, <2>10, <2>11 DEF Covers, IsSale
  <2> QED BY <2>12, <2>13
<1> QED BY <1>2 DEF AnswersWell

LEMMA ProtectWell ==
    ASSUME NEW s, Called(s), Shape(s), Frame, NEW signal, Protect(s, signal)
    PROVE  AnswersWell(s)
<1> DEFINE cancel == CancelEntry(s)
           c == Len(cancel)
           replace == Cancel(s, c + 1, Live(s, "SELL"))
           r == Len(replace)
           protection == Protection(s, c + r + 1)
           output == cancel \o replace \o protection
<1>1. /\ slot + 1 < Cutoff /\ Held(s) > 0 /\ memory[s].range # 0
      /\ StopPrice(s) > 0
      /\ Answer(s, output, [Remember(s, signal, c + r + 1 + 2) EXCEPT
                              !.basis = Holding(s)])
  BY CalledFacts DEF Protect, Unprotected, Manages
<1>2. /\ c \in {0, 1} /\ Part(s, cancel, 0, c) /\ Wanted(cancel) = {}
      /\ Killed(cancel) = IF Exited(s)
                          THEN {orders[i].reference : i \in Live(s, "BUY")}
                          ELSE {}
  BY <1>1, CancelEntryPart
<1>3. c + 1 \in 1..LongestAnswer /\ c + 1 - 1 = c /\ c \in Nat
  <2> HIDE DEF c
  <2> QED BY <1>2 DEF LongestAnswer
<1>4. /\ r \in {0, 1} /\ Part(s, replace, c, c + r) /\ Wanted(replace) = {}
      /\ Killed(replace) = {orders[i].reference : i \in Live(s, "SELL")}
  <2> HIDE DEF c
  <2>1. /\ r \in {0, 1} /\ Part(s, replace, c + 1 - 1, c + 1 - 1 + r)
        /\ Killed(replace) = {orders[i].reference : i \in Live(s, "SELL")}
        /\ Wanted(replace) = {}
    BY <1>1, <1>3, CancelPart
  <2> HIDE DEF replace, r
  <2> QED BY <1>3, <2>1
<1> HIDE DEF cancel, c, replace, r
<1> DEFINE b == c + r
           d == b + 1
           d1 == d + 1
           e == d + 2
           both == cancel \o replace
<1>5. /\ b \in 0..LongestAnswer /\ d \in 0..LongestAnswer
      /\ e \in 0..LongestAnswer /\ c \in 0..LongestAnswer
      /\ 0 \in 0..LongestAnswer /\ 0 <= c /\ c <= b /\ 0 <= d /\ d <= e
      /\ b <= d /\ d \in 1..LongestAnswer /\ d + 2 \in 1..LongestAnswer
      /\ e \in 1..LongestAnswer /\ d \in 1..e /\ d1 \in 1..e /\ e \in 1..e
      /\ b \in Nat /\ d \in Nat /\ 0 \in Nat
  BY <1>2, <1>4 DEF LongestAnswer
<1>6. Part(s, both, 0, d) /\ Wanted(both) = {}
      /\ Killed(both) = {orders[i].reference :
                i \in (IF Exited(s) THEN Live(s, "BUY") ELSE {})
                        \cup Live(s, "SELL")}
  <2>1. Part(s, cancel, 0, c) /\ Part(s, replace, c, b)
    BY <1>2, <1>4
  <2> HIDE DEF b, d
  <2>2. /\ 0 \in 0..LongestAnswer /\ c \in 0..LongestAnswer
        /\ b \in 0..LongestAnswer /\ 0 <= c /\ c <= b
    BY <1>5
  <2>3. /\ Part(s, both, 0, b)
        /\ Killed(both) = Killed(cancel) \cup Killed(replace)
        /\ Wanted(both) = Wanted(cancel) \cup Wanted(replace)
    BY <2>1, <2>2, JoinPart
  <2> HIDE DEF both
  <2>4. Part(s, both, 0, d)
    BY <1>5, <2>3, WidenPart
  <2> QED BY <1>2, <1>4, <2>3, <2>4
<1>7. /\ Part(s, protection, d, e) /\ Killed(protection) = {}
      /\ Wanted(protection) =
           {TradeOffer(s, d1, "SELL", Held(s), "STOP_MARKET", Name(s, d)),
            TradeOffer(s, e, "SELL", Held(s), "LIMIT", Name(s, d))}
  <2>1. protection = Protection(s, d)
    OBVIOUS
  <2> HIDE DEF d, protection
  <2> QED BY <1>1, <1>5, <2>1, ProtectionPart
<1>8. /\ Part(s, both \o protection, 0, e)
      /\ Killed(both \o protection) = Killed(both) \cup Killed(protection)
      /\ Wanted(both \o protection) = Wanted(both) \cup Wanted(protection)
  <2> HIDE DEF b, d, e, both, protection
  <2>1. Part(s, both, 0, d) /\ Part(s, protection, d, e)
    BY <1>6, <1>7
  <2>2. /\ 0 \in 0..LongestAnswer /\ d \in 0..LongestAnswer
        /\ e \in 0..LongestAnswer /\ 0 <= d /\ d <= e
    BY <1>5
  <2> QED BY <2>1, <2>2, JoinPart
<1> DEFINE before == Remember(s, signal, e)
           after == [before EXCEPT !.basis = Holding(s)]
<1>9. Answer(s, output, after) /\ output = both \o protection
  <2>1. c + r + 1 + 2 = e
    OBVIOUS
  <2> QED BY <1>1, <2>1
<1> HIDE DEF b, d, d1, e, both, protection, output
<1>10. Recalls(s, e, after)
  <2>1. Recalls(s, e, before)
    BY <1>5, RememberFacts
  <2>2. Holding(s) \in [quantity : Nat, amount : Nat]
    BY <1>1, PriceTypes
  <2> HIDE DEF before
  <2>3. /\ after.entry = before.entry /\ after.range = before.range
        /\ after.cycle = before.cycle /\ after.drawn = before.drawn
        /\ after \in MemoryRecord
    BY <2>1, <2>2 DEF Recalls, MemoryRecord
  <2> HIDE DEF after
  <2> QED BY <2>1, <2>3 DEF Recalls
<1>11. Part(s, output, 0, e)
  BY <1>8, <1>9
<1>12. Answers(s, output, e, after)
  BY <1>5, <1>9, <1>10, <1>11 DEF Answers, Frame
<1>13. /\ Killed(output) = Killed(both) /\ Wanted(output) = Wanted(protection)
  BY <1>6, <1>7, <1>8, <1>9
<1> HIDE DEF Held
<1> QED BY <1>1, <1>5, <1>6, <1>7, <1>12, <1>13, ProtectedWell

(***************************************************************************)
(* One evaluation.                                                         *)
(***************************************************************************)

\* What the loop and the strategy keep between them.
Kept ==
    /\ IndInv /\ AccountingNeverRefuses /\ Timed /\ InCandle /\ ForcedLate
    /\ InTurns /\ Remembers /\ Disciplined

\* The evaluation gives up where a stop would have no price; whatever it
\* holds, it knows the entry.
GivesUp ==
    /\ AnyEvaluate /\ Frame /\ UNCHANGED memory
    /\ phase' = "failed" /\ failure' = "NONPOSITIVE_STOP"

LEMMA GiveUpWell ==
    ASSUME NEW s, Called(s), Shape(s), Frame, NEW signal, GiveUp(s, signal)
    PROVE  GivesUp
<1>1. ~(~Silent /\ Held(s) > 0 /\ memory[s].range = 0)
  <2>1. Held(s) \in Nat
    BY CalledFacts
  <2>2. memory[s].range = 0 => Held(s) = 0
    BY DEF Shape
  <2> HIDE DEF Held
  <2> QED BY <2>1, <2>2
<1>2. Trouble(s, signal) = "NONPOSITIVE_STOP"
  <2> HIDE DEF Unprotected, StopPrice, Silent, Held
  <2> QED BY <1>1 DEF GiveUp, Trouble
<1>3. Raise("NONPOSITIVE_STOP")
  BY <1>2 DEF GiveUp
<1>4. "NONPOSITIVE_STOP" \in StrategyErrors
  BY DEF StrategyErrors
<1>5. phase = "strategy" /\ UNCHANGED memory
  BY DEF Called, GiveUp
<1>6. phase' = "failed" /\ failure' = "NONPOSITIVE_STOP"
  BY <1>3 DEF Raise, Fail
<1> QED BY <1>3, <1>4, <1>5, <1>6 DEF GivesUp, AnyEvaluate, Frame

LEMMA EvaluateWell ==
    ASSUME NEW s, s = turn.symbol, BaselineEvaluate, Called(s), Shape(s)
    PROVE  AnswersWell(s) \/ GivesUp
<1>1. Frame
  BY DEF BaselineEvaluate, Frame
<1>2. PICK signal :
        \/ StandAside(s, signal) \/ GiveUp(s, signal)
        \/ Reverse(s, signal) \/ FollowStop(s, signal)
        \/ KeepProtection(s, signal) \/ Protect(s, signal)
        \/ FinishCycle(s, signal) \/ Enter(s, signal)
  BY DEF BaselineEvaluate
<1> HIDE DEF Frame
<1>4. CASE StandAside(s, signal)
  BY <1>1, <1>4, StandAsideWell
<1>5. CASE GiveUp(s, signal)
  BY <1>1, <1>5, GiveUpWell
<1>6. CASE Reverse(s, signal)
  BY <1>1, <1>6, ReverseWell
<1>7. CASE FollowStop(s, signal)
  BY <1>1, <1>7, FollowStopWell
<1>8. CASE KeepProtection(s, signal)
  BY <1>1, <1>8, KeepProtectionWell
<1>9. CASE Protect(s, signal)
  BY <1>1, <1>9, ProtectWell
<1>10. CASE FinishCycle(s, signal)
  BY <1>1, <1>10, FinishCycleWell
<1>11. CASE Enter(s, signal)
  BY <1>1, <1>11, EnterWell
<1> QED BY <1>2, <1>4, <1>5, <1>6, <1>7, <1>8, <1>9, <1>10, <1>11

\* A symbol whose offers, holding and memory stay is as disciplined as before.
LEMMA SameDiscipline ==
    ASSUME NEW t, Shape(t), Covers(t), Offers(t)' = Offers(t),
           Held(t)' = Held(t), memory'[t] = memory[t],
           Guarded(t)' => Guarded(t), Exited(t)' => Exited(t)
    PROVE  Shape(t)' /\ Covers(t)'
<1> HIDE DEF Offers, Held, Guarded, Exited
<1>1. Shape(t)'
  BY DEF Shape, IsSale
<1>2. Covers(t)'
  BY DEF Covers, IsSale
<1> QED BY <1>1, <1>2

LEMMA KeptCalled ==
    ASSUME Kept, phase = "strategy"
    PROVE  /\ Called(turn.symbol) /\ turn.symbol \in Symbols
           /\ \A t \in Symbols : Shape(t) /\ Covers(t)
<1>1. turn.symbol \in Symbols
  BY DEF Kept, IndInv, TypeOK, TurnRecord
<1>2. Naming /\ \A t \in Symbols : Shape(t) /\ Covers(t)
  BY DEF Kept, Disciplined
<1> QED BY <1>1, <1>2 DEF Kept, Called

\* Giving up changes nothing that the strategy keeps.
LEMMA GivesUpRemember ==
    ASSUME Kept, GivesUp
    PROVE  Remembers' /\ InTurns'
<1>1. /\ IndInv /\ Remembers /\ InTurns /\ phase' = "failed" /\ memory' = memory
      /\ UNCHANGED <<mode, session, slot, todo, turn>>
  BY DEF Kept, GivesUp, Frame
<1>2. InTurns'
  BY <1>1 DEF InTurns
<1>3. \A t \in Symbols : Turns(t) \in Nat /\ Turns(t)' \in Nat /\ Turns(t) <= Turns(t)'
  <2> TAKE t \in Symbols
  <2> DEFINE before == (session - 1) * Slots + (slot - 1)
  <2>1. Evaluated(t)'
    BY <1>1 DEF Evaluated
  <2>2. /\ Turns(t) = before + (IF Evaluated(t) THEN 1 ELSE 0)
        /\ Turns(t)' = before + 1
    BY <1>1, <2>1 DEF Turns
  <2>3. before \in Int /\ Turns(t) \in Nat
    BY <1>1, Constants, TurnsBound DEF IndInv, TypeOK
  <2> HIDE DEF before, Turns, Evaluated
  <2> QED BY <2>2, <2>3
<1>4. \A t \in Symbols : Drawn(t)' = Drawn(t)
  BY <1>1 DEF Drawn
<1>5. \A t \in Symbols : memory[t].drawn <= LongestAnswer * Turns(t)'
  <2> HIDE DEF Turns
  <2> QED BY <1>1, <1>3 DEF Remembers, MemoryRecord, LongestAnswer
<1>6. Remembers'
  <2> HIDE DEF Turns, Drawn
  <2> QED BY <1>1, <1>4, <1>5 DEF Remembers
<1> QED BY <1>2, <1>6

LEMMA EvaluateKeeps ==
    ASSUME Kept, BaselineEvaluate
    PROVE  AnyEvaluate /\ InTurns' /\ Remembers' /\ Disciplined'
<1>1. phase = "strategy"
  BY DEF BaselineEvaluate
<1>2. PICK s \in Symbols : s = turn.symbol /\ Called(s)
  BY <1>1, KeptCalled
<1>3. AnswersWell(s) \/ GivesUp
  BY <1>1, <1>2, KeptCalled, EvaluateWell
<1>4. CASE GivesUp
  <2>1. AnyEvaluate /\ Disciplined'
    BY <1>4 DEF GivesUp, Disciplined
  <2> QED BY <1>4, <2>1, GivesUpRemember
<1>5. CASE AnswersWell(s)
  <2>1. PICK output, n, after : Answers(s, output, n, after)
    BY <1>5 DEF AnswersWell
  <2>2. /\ AnyEvaluate /\ phase' \in {"apply", "failed"}
        /\ Remembers' /\ InTurns'
    BY <2>1, AnswersAreAny, AnswersRemember
  <2>3. ASSUME phase' = "apply" PROVE Disciplined'
    <3>1. Naming' /\ Feasible' /\ Shape(s)' /\ Covers(s)'
      BY <1>5, <2>1, <2>3, AnswersNamed DEF AnswersWell
    <3>2. ASSUME NEW t \in Symbols, t # s
          PROVE  Shape(t)' /\ Covers(t)'
      <4>1. Offers(t)' = Offers(t) /\ memory'[t] = memory[t]
        BY <2>1, <2>3, <3>2, AnswersOffers, AnswersDrawn
      <4>2. UNCHANGED <<slot, todo, turn, orders, positions>>
        BY <2>1 DEF Answers, books
      <4>3. Held(t)' = Held(t)
        BY <4>2 DEF Held
      <4>4. Exited(t)' => Exited(t)
        BY <4>1, <4>2 DEF Exited, OrdersOf, OrderIds
      <4>5. Guarded(t)' => Guarded(t)
        <5> HIDE DEF Cutoff
        <5>1. Cutoff' = Cutoff
          BY DEF Cutoff, OpeningTime
        <5> QED BY <1>1, <1>2, <2>3, <3>2, <4>2, <5>1 DEF Guarded
      <4>6. Shape(t) /\ Covers(t)
        BY <1>1, KeptCalled
      <4> HIDE DEF Shape, Covers, Offers, Held, Guarded, Exited
      <4> QED BY <4>1, <4>3, <4>4, <4>5, <4>6, SameDiscipline
    <3> QED BY <3>1, <3>2 DEF Disciplined
  <2>4. phase' = "failed" => Disciplined'
    BY DEF Disciplined
  <2> QED BY <2>2, <2>3, <2>4
<1> QED BY <1>3, <1>4, <1>5

(***************************************************************************)
(* The steps of the loop: they leave the memory alone.                     *)
(***************************************************************************)

\* How a step of the loop, other than a close, moves on.
Advance ==
    /\ UNCHANGED <<mode, session>>
    /\ \/ UNCHANGED <<slot, phase, todo>> /\ turn'.symbol = turn.symbol
       \/ phase = "decide" /\ phase' = "barOpen" /\ slot' = slot
       \/ phase = "barOpen" /\ phase' \in {"barOpen", "inside"} /\ slot' = slot
       \/ /\ phase = "inside" /\ phase' = "complete" /\ slot' = slot
          /\ todo' = Symbols
       \/ /\ phase = "complete" /\ phase' = "settle" /\ UNCHANGED <<slot, todo>>
          /\ turn'.symbol \in todo
       \/ /\ phase = "settle" /\ phase' = "strategy"
          /\ UNCHANGED <<slot, todo, turn>>
       \/ /\ phase = "apply" /\ todo' = todo \ {turn.symbol}
          /\ \/ phase' = "complete" /\ slot' = slot
             \/ /\ phase' = "decide" /\ slot < Slots /\ slot' = slot + 1
                /\ todo' = {}
             \/ phase' = "close" /\ slot = Slots /\ slot' = slot /\ todo' = {}

\* No script decides, and every candle is put to the strategy.
LEMMA LoopAdvances ==
    ASSUME IndInv, InTurns, Loop \/ Ended, ~SessionClose
    PROVE  Advance
<1>1. ~Decide /\ ~EndBar
  BY DEF InTurns, Decide, EndBar
<1>2. slot \in 1..Slots /\ Slots \in Nat
  BY Constants DEF IndInv, TypeOK
<1>3. turn \in TurnRecord
  BY DEF IndInv, TypeOK
<1>4. ASSUME NEW i, Visited(i) PROVE turn'.symbol = turn.symbol
  BY <1>3, <1>4 DEF Visited, TurnRecord
<1>5. CASE StartOpenings
  BY <1>5 DEF StartOpenings, Advance
<1>6. ASSUME NEW s \in Symbols, BarOpen(s) \/ Liquidate(s) PROVE Advance
  BY <1>6 DEF BarOpen, Liquidate, Opened, Advance
<1>7. CASE EndSlot
  BY <1>7 DEF EndSlot, Advance
<1>8. ASSUME NEW s \in Symbols, BeginBar(s) PROVE Advance
  <2>1. turn'.symbol = s
    BY <1>8 DEF BeginBar
  <2> QED BY <1>8, <2>1 DEF BeginBar, Advance
<1>9. ASSUME NEW i \in turn.waiting, SettleSkip(i) PROVE Advance
  BY <1>4, <1>9 DEF SettleSkip, Advance, clock
<1>10. ASSUME NEW i \in turn.waiting, SettleDry(i) PROVE Advance
  BY <1>4, <1>10 DEF SettleDry, Advance, clock
<1>11. ASSUME NEW i \in turn.waiting, SettleReject(i) PROVE Advance
  BY <1>4, <1>11 DEF SettleReject, Advance, clock
<1>12. ASSUME NEW i \in turn.waiting, SettleFill(i) PROVE Advance
  BY <1>12, FillEffect, FillHeld DEF Advance
<1>13. CASE CallStrategy
  BY <1>13 DEF CallStrategy, Advance
<1>14. CASE ApplyTrade
  BY <1>14 DEF ApplyTrade, Advance, clock
<1>15. CASE ApplyCancel
  BY <1>15 DEF ApplyCancel, Advance, clock
<1>16. CASE EndApply
  BY <1>2, <1>16 DEF EndApply, Leave, Advance
<1>17. CASE Ended
  BY <1>17 DEF Ended, Advance, vars
<1> QED BY <1>1, <1>5, <1>6, <1>7, <1>8, <1>9, <1>10, <1>11, <1>12, <1>13,
           <1>14, <1>15, <1>16, <1>17 DEF Loop, SettleOne

LEMMA AdvanceTurns ==
    ASSUME IndInv, InTurns, Advance
    PROVE  InTurns' /\ \A t \in Symbols : Turns(t) \in Nat /\ Turns(t) <= Turns(t)'
                                          /\ Turns(t)' \in Int
<1>1. slot \in 1..Slots /\ Slots \in Nat \ {0} /\ session \in Nat \ {0}
  BY Constants DEF IndInv, TypeOK
<1>2. InTurns'
  BY <1>1 DEF InTurns, Advance
<1>3. ASSUME NEW t \in Symbols
      PROVE  /\ Turns(t) \in Nat /\ Turns(t) <= Turns(t)' /\ Turns(t)' \in Int
  <2> DEFINE before == (session - 1) * Slots
  <2>1. before \in Int /\ Turns(t) \in Nat
    BY <1>1, TurnsBound
  <2>2. /\ Turns(t) = before + (slot - 1) + (IF Evaluated(t) THEN 1 ELSE 0)
        /\ Turns(t)' = before + (slot' - 1) + (IF Evaluated(t)' THEN 1 ELSE 0)
    BY DEF Turns, Advance
  <2>3. \/ slot' = slot /\ (Evaluated(t) => Evaluated(t)')
        \/ slot' = slot + 1
    BY DEF Advance, Evaluated
  <2> HIDE DEF before, Turns, Evaluated
  <2> QED BY <1>1, <2>1, <2>2, <2>3
<1> QED BY <1>2, <1>3

LEMMA CloseTurns ==
    ASSUME IndInv, InTurns, SessionClose
    PROVE  InTurns' /\ \A t \in Symbols : Turns(t) \in Nat /\ Turns(t) <= Turns(t)'
                                          /\ Turns(t)' \in Int
<1>1. slot = Slots /\ Slots \in Nat \ {0} /\ session \in Nat \ {0}
  BY Constants DEF IndInv, TypeOK, InTurns, SessionClose
<1>2. \/ UNCHANGED <<session, slot>> /\ phase' \in {"done", "failed"}
      \/ session' = session + 1 /\ slot' = 1 /\ phase' = "decide"
  BY DEF SessionClose, Fail
<1>3. InTurns'
  BY <1>1, <1>2 DEF InTurns, SessionClose
<1>4. ASSUME NEW t \in Symbols
      PROVE  /\ Turns(t) \in Nat /\ Turns(t) <= Turns(t)' /\ Turns(t)' \in Int
  <2> DEFINE before == (session - 1) * Slots
  <2>1. before \in Int /\ Turns(t) \in Nat /\ session * Slots = before + Slots
    BY <1>1, TurnsBound
  <2>2. Evaluated(t)
    BY DEF SessionClose, Evaluated
  <2>3. Turns(t) = before + (Slots - 1) + 1
    BY <1>1, <2>2 DEF Turns
  <2>4. CASE UNCHANGED <<session, slot>> /\ phase' \in {"done", "failed"}
    <3>1. Evaluated(t)'
      BY <2>4 DEF Evaluated
    <3>2. Turns(t)' = before + (Slots - 1) + 1
      BY <1>1, <2>4, <3>1 DEF Turns
    <3> HIDE DEF Turns, before
    <3> QED BY <1>1, <2>1, <2>3, <3>2
  <2>5. CASE session' = session + 1 /\ slot' = 1 /\ phase' = "decide"
    <3>1. ~Evaluated(t)'
      BY <2>5 DEF Evaluated
    <3>2. Turns(t)' = ((session + 1) - 1) * Slots + (1 - 1) + 0
      BY <2>5, <3>1 DEF Turns
    <3>3. Turns(t)' = session * Slots
      <4>1. (session + 1) - 1 = session
        BY <1>1
      <4>2. Turns(t)' = session * Slots + (1 - 1) + 0
        BY <3>2, <4>1
      <4> QED BY <1>1, <4>2
    <3> HIDE DEF Turns, before
    <3> QED BY <1>1, <2>1, <2>3, <3>3
  <2> QED BY <1>2, <2>4, <2>5
<1> QED BY <1>3, <1>4

LEMMA LoopRemembers ==
    ASSUME IndInv, InTurns, Remembers, Loop \/ Ended, UNCHANGED memory
    PROVE  InTurns' /\ Remembers'
<1>1. /\ InTurns'
      /\ \A t \in Symbols : Turns(t) \in Nat /\ Turns(t) <= Turns(t)'
                            /\ Turns(t)' \in Int
  BY LoopAdvances, AdvanceTurns, CloseTurns
<1>2. \A t \in Symbols : Drawn(t)' = Drawn(t)
  BY DEF Drawn
<1>3. \A t \in Symbols : memory[t].drawn <= LongestAnswer * Turns(t)'
  <2> HIDE DEF Turns
  <2> QED BY <1>1 DEF Remembers, MemoryRecord, LongestAnswer
<1>4. Remembers'
  <2> HIDE DEF Turns, Drawn
  <2> QED BY <1>2, <1>3 DEF Remembers
<1> QED BY <1>1, <1>4

LEMMA AdvanceGuarded ==
    ASSUME Advance, NEW t \in Symbols, Guarded(t)'
    PROVE  Guarded(t)
<1> HIDE DEF Cutoff
<1>1. Cutoff' = Cutoff
  BY DEF Cutoff, OpeningTime
<1>2. phase' \in {"decide", "barOpen", "inside", "complete", "settle",
                  "strategy", "apply"}
  BY DEF Guarded
<1> QED BY <1>1, <1>2 DEF Advance, Guarded

\* An answer is applied request by request.
LEMMA Applied ==
    ASSUME batch \in Seq(RequestRecord), batch # <<>>, batch' = Tail(batch)
    PROVE  LET head == Head(batch)
           IN  /\ head \in RequestRecord /\ 1 \in DOMAIN batch /\ head = batch[1]
               /\ \A n \in DOMAIN batch' :
                    /\ n + 1 \in DOMAIN batch /\ batch'[n] = batch[n + 1]
                    /\ n \in Nat \ {0}
               /\ Killed(batch')
                    = {r \in Killed(batch) : \E n \in DOMAIN batch' :
                          batch'[n].kind = "cancel" /\ r \in batch'[n].targets}
               /\ Killed(batch) = IF head.kind = "cancel"
                                  THEN Killed(batch') \cup head.targets
                                  ELSE Killed(batch')
               /\ Wanted(batch) = IF head.kind = "trade"
                                  THEN Wanted(batch') \cup {Asked(head)}
                                  ELSE Wanted(batch')
<1> DEFINE head == Head(batch)
           rest == Tail(batch)
<1>1. /\ head \in RequestRecord /\ 1 \in DOMAIN batch /\ head = batch[1]
      /\ DOMAIN rest = 1..(Len(batch) - 1) /\ DOMAIN batch = 1..Len(batch)
      /\ Len(batch) \in Nat \ {0}
  OBVIOUS
<1>2. \A n \in 1..(Len(batch) - 1) : rest[n] = batch[n + 1]
  OBVIOUS
<1>3. \A n \in DOMAIN rest : /\ n + 1 \in DOMAIN batch /\ rest[n] = batch[n + 1]
                             /\ n \in Nat \ {0}
  BY <1>1, <1>2
<1>4. \A n \in DOMAIN batch : n = 1 \/ \E m \in DOMAIN rest : n = m + 1
  <2> TAKE n \in DOMAIN batch
  <2>1. n = 1 \/ (n - 1 \in 1..(Len(batch) - 1) /\ n = (n - 1) + 1)
    BY <1>1
  <2> QED BY <1>1, <2>1
<1>5. head.kind = "cancel" => head.targets \subseteq References
  BY <1>1 DEF RequestRecord
<1> HIDE DEF head, rest
<1>6. Killed(batch) = IF head.kind = "cancel" THEN Killed(rest) \cup head.targets
                      ELSE Killed(rest)
  BY <1>1, <1>3, <1>4, <1>5 DEF Killed
<1>7. Wanted(batch) = IF head.kind = "trade" THEN Wanted(rest) \cup {Asked(head)}
                      ELSE Wanted(rest)
  <2>1. \A n \in Trades(rest) : n + 1 \in Trades(batch) /\ rest[n] = batch[n + 1]
    BY <1>3 DEF Trades
  <2>2. \A n \in Trades(batch) :
          \/ n = 1 /\ head.kind = "trade"
          \/ \E m \in Trades(rest) : batch[n] = rest[m]
    BY <1>1, <1>3, <1>4 DEF Trades
  <2>3. head.kind = "trade" => 1 \in Trades(batch)
    BY <1>1 DEF Trades
  <2> QED BY <1>1, <2>1, <2>2, <2>3 DEF Wanted
<1>8. batch' = rest
  BY DEF rest
<1>9. Killed(batch')
        = {r \in Killed(batch) : \E n \in DOMAIN batch' :
              batch'[n].kind = "cancel" /\ r \in batch'[n].targets}
  BY <1>6, <1>8 DEF Killed
<1> QED BY <1>1, <1>3, <1>6, <1>7, <1>8, <1>9 DEF head

\* Only applying an answer leaves an answer to apply.
LEMMA StillApplying ==
    ASSUME IndInv, InTurns, Loop \/ Ended, phase' = "apply"
    PROVE  /\ phase = "apply" /\ (ApplyTrade \/ ApplyCancel)
           /\ batch # <<>> /\ batch' = Tail(batch)
           /\ UNCHANGED <<slot, turn, positions>>
<1>1. ~SessionClose
  BY DEF SessionClose, Fail
<1>2. phase = "apply"
  BY <1>1, LoopAdvances DEF Advance
<1>3. ApplyTrade \/ ApplyCancel
  BY <1>2 DEF Loop, SettleOne, Turn, Ended, Decide, StartOpenings, BarOpen,
              Opened, Liquidate, EndSlot, BeginBar, SettleSkip, SettleDry,
              SettleReject, SettleFill, EndBar, CallStrategy, EndApply, Leave,
              SessionClose
<1> QED BY <1>2, <1>3 DEF ApplyTrade, ApplyCancel, clock, books

LEMMA LoopUsed ==
    ASSUME InTurns, Loop \/ Ended
    PROVE  UNCHANGED used
<1>1. ~Decide
  BY DEF InTurns, Decide
<1> QED BY <1>1 DEF Loop, SettleOne, Ended, StartOpenings, BarOpen,
              Opened, Liquidate, EndSlot, BeginBar, SettleSkip, SettleDry,
              SettleReject, SettleFill, EndBar, CallStrategy, EndApply,
              SessionClose, ApplyTrade, ApplyCancel, vars

\* The names that orders carry.
LEMMA OldNames ==
    ASSUME IndInv, [AnyNext]_vars
    PROVE  /\ OrderIds \subseteq OrderIds'
           /\ \A i \in OrderIds :
                /\ orders'[i].reference = orders[i].reference
                /\ orders'[i].symbol = orders[i].symbol
                /\ orders'[i].forced = orders[i].forced
                /\ orders'[i].side = orders[i].side
                /\ orders'[i].type = orders[i].type
                /\ orders'[i].group = orders[i].group
                /\ orders'[i].quantity = orders[i].quantity
<1>1. {"reference", "symbol", "forced", "side", "type", "group", "quantity"}
        \subseteq TermFields
  BY DEF TermFields
<1> QED BY <1>1, StepKeeps DEF KeptOrder

LEMMA LoopIsAny == Loop \/ Ended => [AnyNext]_vars
  BY DEF AnyNext, AnyStep

\* Every step but the placing of an order leaves the ordinary orders.
LEMMA NewOrdinary ==
    ASSUME IndInv, InTurns, Loop \/ Ended
    PROVE  /\ ~ApplyTrade => Ordinary' = Ordinary
           /\ ApplyTrade => Ordinary' = Ordinary \cup {Len(orders) + 1}
<1>1. [AnyNext]_vars /\ ~Decide
  BY LoopIsAny DEF InTurns, Decide
<1>2. /\ OrderIds \subseteq OrderIds'
      /\ \A i \in OrderIds : orders'[i].forced = orders[i].forced
  BY <1>1, OldNames
<1>3. CASE ApplyTrade
  <2>1. /\ OrderIds' = OrderIds \cup {Len(orders) + 1}
        /\ Len(orders) + 1 \notin OrderIds
        /\ \E reference \in References, intent \in IntentType :
             orders'[Len(orders) + 1] = NewOrder(reference, intent, FALSE)
    BY <1>3, PlacesEffect
  <2>2. ~orders'[Len(orders) + 1].forced
    BY <2>1 DEF NewOrder
  <2> QED BY <1>2, <1>3, <2>1, <2>2 DEF Ordinary
<1>4. ASSUME NEW s \in Symbols, Liquidate(s)
      PROVE  Ordinary' = Ordinary /\ ~ApplyTrade
  <2>1. /\ OrderIds' = OrderIds \cup {Len(orders) + 1}
        /\ Len(orders) + 1 \notin OrderIds
        /\ orders'[Len(orders) + 1]
             = NewOrder(ForcedReference, ExitIntent(s), TRUE)
        /\ phase = "barOpen"
    BY <1>4, LiquidateEffect
  <2>2. orders'[Len(orders) + 1].forced
    BY <2>1 DEF NewOrder
  <2> QED BY <1>2, <2>1, <2>2 DEF Ordinary, ApplyTrade
<1>5. CASE ~ApplyTrade /\ ~(\E s \in Symbols : Liquidate(s))
  <2>1. OrderIds' = OrderIds
    BY <1>1, <1>5, OtherKept
  <2> QED BY <1>2, <1>5, <2>1 DEF Ordinary
<1> QED BY <1>3, <1>4, <1>5

\* A request to trade becomes the order it asks for: in time and for what is
\* held, it is not rejected.
LEMMA TradeEffect ==
    ASSUME IndInv, Feasible, ApplyTrade
    PROVE  LET head == Head(batch)
               new  == Len(orders) + 1
           IN  /\ phase = "apply" /\ batch # <<>> /\ head.kind = "trade"
               /\ batch' = Tail(batch)
               /\ UNCHANGED <<slot, phase, todo, turn, positions, used>>
               /\ OrderIds' = OrderIds \cup {new} /\ new \notin OrderIds
               /\ \A i \in OrderIds : orders'[i] = orders[i]
               /\ orders'[new].symbol = turn.symbol /\ Active(orders'[new])
               /\ orders'[new].filled = 0 /\ ~orders'[new].forced
               /\ orders'[new].reference = head.reference
               /\ Offer(orders'[new]) = Asked(head)
<1> DEFINE head == Head(batch)
           new  == Len(orders) + 1
           order == NewOrder(head.reference, head.intent, FALSE)
<1>1. /\ phase = "apply" /\ batch # <<>> /\ head.kind = "trade"
      /\ batch' = Tail(batch) /\ orders' = Append(orders, order)
      /\ UNCHANGED <<slot, phase, todo, turn, positions, used>>
  BY DEF ApplyTrade, clock, books
<1>2. head \in RequestRecord /\ 1 \in DOMAIN batch /\ head = batch[1]
  BY <1>1 DEF IndInv, TypeOK
<1>3. head.intent \in IntentType
  BY <1>1, <1>2 DEF RequestRecord
<1>4. /\ slot + 1 < Cutoff /\ head.intent.symbol = turn.symbol
      /\ head.intent.side = "SELL" => head.intent.quantity = Held(turn.symbol)
  BY <1>1, <1>2 DEF Feasible
<1>5. /\ OrderIds' = OrderIds \cup {new} /\ new \notin OrderIds
      /\ orders'[new] = order /\ \A i \in OrderIds : orders'[i] = orders[i]
  BY <1>1, Added DEF IndInv, TypeOK
<1>6. ~(Now >= OpeningTime(Cutoff))
  <2>1. Now = OpeningTime(slot + 1)
    BY <1>1 DEF Now
  <2>2. slot \in Nat /\ Cutoff \in Nat
    BY CutoffType, Constants DEF IndInv, TypeOK
  <2> HIDE DEF Cutoff
  <2> QED BY <1>4, <2>1, <2>2 DEF OpeningTime
<1>7. ~(head.intent.side = "SELL"
          /\ head.intent.quantity > Held(head.intent.symbol))
  <2>1. head.intent.quantity \in Nat
    BY <1>3 DEF IntentType
  <2> HIDE DEF Held, head
  <2> QED BY <1>4, <2>1
<1> HIDE DEF Cutoff, Now, Held, head
<1>8. /\ order.status = "PENDING" /\ order.filled = 0 /\ order.forced = FALSE
      /\ order.reference = head.reference /\ order.symbol = head.intent.symbol
      /\ order.side = head.intent.side /\ order.type = head.intent.type
      /\ order.group = head.intent.group
      /\ order.quantity = head.intent.quantity
  BY <1>6, <1>7 DEF NewOrder
<1> HIDE DEF order
<1>9. Remaining(order) = head.intent.quantity
  <2>1. head.intent.quantity \in Nat
    BY <1>3 DEF IntentType
  <2> QED BY <1>8, <2>1 DEF Remaining
<1>10. Offer(order) = Asked(head)
  BY <1>8, <1>9 DEF Offer, Asked
<1>11. Active(order)
  BY <1>8 DEF Active, ActiveStatus
<1> HIDE DEF new
<1> QED BY <1>1, <1>4, <1>5, <1>8, <1>10, <1>11 DEF head, new

LEMMA LoopNames ==
    ASSUME IndInv, InTurns, Naming, Feasible, Loop \/ Ended, UNCHANGED memory
    PROVE  Naming' /\ Feasible'
<1>1. [AnyNext]_vars /\ used' = used
  BY LoopIsAny, LoopUsed
<1>2. \A i \in OrderIds : /\ orders'[i].reference = orders[i].reference
                          /\ orders'[i].symbol = orders[i].symbol
  BY <1>1, OldNames
<1>3. \A i \in Ordinary : i \in OrderIds /\ orders[i].symbol \in Symbols
  BY OrderFacts DEF Ordinary
<1>4. used' \subseteq (UNION {Drawn(s) : s \in Symbols})'
  BY <1>1 DEF Naming, Drawn
<1>5. \A t : First(t, memory'[t].drawn) = Drawn(t)
  BY DEF Drawn
<1>6. CASE ApplyTrade
  <2> DEFINE head == Head(batch)
             new == Len(orders) + 1
  <2>1. /\ phase = "apply" /\ batch # <<>> /\ head.kind = "trade"
        /\ batch' = Tail(batch)
        /\ UNCHANGED <<slot, phase, todo, turn, positions, used>>
        /\ new \notin OrderIds
        /\ orders'[new].symbol = turn.symbol
        /\ orders'[new].reference = head.reference
    BY <1>6, TradeEffect
  <2>2. batch \in Seq(RequestRecord)
    BY DEF IndInv, TypeOK
  <2>3. /\ 1 \in DOMAIN batch /\ head = batch[1]
        /\ \A n \in DOMAIN batch' : /\ n + 1 \in DOMAIN batch
                                    /\ batch'[n] = batch[n + 1]
                                    /\ n \in Nat \ {0}
        /\ Killed(batch') \subseteq Killed(batch)
    BY <2>1, <2>2, Applied
  <2>4. Ordinary' = Ordinary \cup {new}
    BY <1>6, NewOrdinary
  <2>5. /\ \A n \in DOMAIN batch :
             /\ batch[n].reference \in Drawn(turn.symbol) \ Killed(batch)
             /\ \A i \in Ordinary : orders[i].reference # batch[n].reference
        /\ \A m, n \in DOMAIN batch :
             batch[m].reference = batch[n].reference => m = n
    BY <2>1 DEF Naming
  <2> HIDE DEF head, new, Ordinary, Drawn
  <2>6. \A i \in Ordinary' :
          orders'[i].reference \in Drawn(orders'[i].symbol)
    BY <1>2, <1>3, <2>1, <2>3, <2>4, <2>5 DEF Naming
  <2>7. \A i, j \in Ordinary' : orders'[i].reference = orders'[j].reference => i = j
    BY <1>2, <1>3, <2>1, <2>3, <2>4, <2>5 DEF Naming
  <2>8. \A n \in DOMAIN batch' :
          /\ batch'[n].reference \in Drawn(turn.symbol) \ Killed(batch')
          /\ \A i \in Ordinary' : orders'[i].reference # batch'[n].reference
    <3> TAKE n \in DOMAIN batch'
    <3>1. n + 1 # 1
      BY <2>3
    <3>2. batch[n + 1].reference # batch[1].reference
      BY <2>3, <2>5, <3>1
    <3> QED BY <1>2, <1>3, <2>1, <2>3, <2>4, <2>5, <3>2
  <2>9. \A m, n \in DOMAIN batch' :
          batch'[m].reference = batch'[n].reference => m = n
    <3> TAKE m, n \in DOMAIN batch'
    <3>1. batch'[m].reference = batch'[n].reference => m + 1 = n + 1
      BY <2>3, <2>5
    <3> QED BY <2>3, <3>1
  <2>10. Naming'
    <3>1. \A i \in Ordinary' :
            orders'[i].reference
              \in First(orders'[i].symbol, memory'[orders'[i].symbol].drawn)
      BY <1>5, <2>6
    <3>2. \A n \in DOMAIN batch' :
            /\ batch'[n].reference \in First(turn'.symbol,
                                             memory'[turn'.symbol].drawn)
            /\ batch'[n].reference \notin Killed(batch')
            /\ \A i \in Ordinary' : orders'[i].reference # batch'[n].reference
      BY <1>5, <2>1, <2>8
    <3> HIDE DEF Killed, First
    <3> QED BY <1>4, <2>7, <2>9, <3>1, <3>2 DEF Naming, Drawn
  <2>11. Feasible'
    <3>1. Held(turn.symbol)' = Held(turn.symbol) /\ turn'.symbol = turn.symbol
      BY <2>1 DEF Held
    <3>2. Cutoff' = Cutoff
      BY DEF Cutoff, OpeningTime
    <3> HIDE DEF Held, Cutoff
    <3> QED BY <2>1, <2>3, <3>1, <3>2 DEF Feasible
  <2> QED BY <2>10, <2>11
<1>7. CASE ~ApplyTrade
  <2>1. Ordinary' = Ordinary
    BY <1>7, NewOrdinary
  <2>2. \A i \in Ordinary' :
          orders'[i].reference
            \in First(orders'[i].symbol, memory'[orders'[i].symbol].drawn)
    <3> HIDE DEF Ordinary, First
    <3> QED BY <1>2, <1>3, <1>5, <2>1 DEF Naming
  <2>3. \A i, j \in Ordinary' : orders'[i].reference = orders'[j].reference => i = j
    <3> HIDE DEF Ordinary
    <3> QED BY <1>2, <1>3, <2>1 DEF Naming
  <2>4. ASSUME phase' = "apply"
        PROVE  /\ phase = "apply" /\ turn' = turn /\ slot' = slot
               /\ positions' = positions
               /\ \A n \in DOMAIN batch' : /\ n + 1 \in DOMAIN batch
                                           /\ batch'[n] = batch[n + 1]
                                           /\ n \in Nat \ {0}
               /\ Killed(batch') \subseteq Killed(batch)
    <3>1. /\ phase = "apply" /\ batch # <<>> /\ batch' = Tail(batch)
          /\ UNCHANGED <<slot, turn, positions>>
      BY <2>4, StillApplying
    <3>2. batch \in Seq(RequestRecord)
      BY DEF IndInv, TypeOK
    <3> QED BY <3>1, <3>2, Applied
  <2>5. phase' = "apply" =>
          /\ \A n \in DOMAIN batch' :
               /\ batch'[n].reference
                    \in First(turn'.symbol, memory'[turn'.symbol].drawn)
               /\ batch'[n].reference \notin Killed(batch')
               /\ \A i \in Ordinary' : orders'[i].reference # batch'[n].reference
          /\ \A m, n \in DOMAIN batch' :
               batch'[m].reference = batch'[n].reference => m = n
    <3> SUFFICES ASSUME phase' = "apply"
                 PROVE  /\ \A n \in DOMAIN batch' :
                             /\ batch'[n].reference \in Drawn(turn.symbol)
                             /\ batch'[n].reference \notin Killed(batch')
                             /\ \A i \in Ordinary :
                                  orders[i].reference # batch'[n].reference
                        /\ \A m, n \in DOMAIN batch' :
                             batch'[m].reference = batch'[n].reference => m = n
      <4> HIDE DEF Ordinary, First, Killed
      <4> QED BY <1>2, <1>3, <1>5, <2>1, <2>4
    <3>1. /\ \A n \in DOMAIN batch :
               /\ batch[n].reference \in Drawn(turn.symbol) \ Killed(batch)
               /\ \A i \in Ordinary : orders[i].reference # batch[n].reference
          /\ \A m, n \in DOMAIN batch :
               batch[m].reference = batch[n].reference => m = n
      BY <2>4 DEF Naming
    <3>2. \A m, n \in DOMAIN batch' :
            batch'[m].reference = batch'[n].reference => m = n
      <4> TAKE m, n \in DOMAIN batch'
      <4>1. batch'[m].reference = batch'[n].reference => m + 1 = n + 1
        BY <2>4, <3>1
      <4> QED BY <2>4, <4>1
    <3> HIDE DEF Ordinary, Drawn, Killed
    <3> QED BY <2>4, <3>1, <3>2
  <2>6. Naming'
    <3> HIDE DEF Killed, First
    <3> QED BY <1>4, <2>2, <2>3, <2>5 DEF Naming, Drawn
  <2>7. Feasible'
    <3>1. phase' = "apply" => Held(turn.symbol)' = Held(turn.symbol)
      BY <2>4 DEF Held
    <3>2. Cutoff' = Cutoff
      BY DEF Cutoff, OpeningTime
    <3> HIDE DEF Held, Cutoff
    <3> QED BY <2>4, <3>1, <3>2 DEF Feasible
  <2> QED BY <2>6, <2>7
<1> QED BY <1>6, <1>7

(***************************************************************************)
(* Symbols that a step does not concern.                                   *)
(***************************************************************************)

LEMMA SameOffers ==
    ASSUME IndInv, [AnyNext]_vars, NEW t \in Symbols,
           Answering(t) => batch = <<>>, Answering(t)' => batch' = <<>>,
           \A i \in OrdersOf(t) : Active(orders[i]) =>
               Active(orders'[i]) /\ Offer(orders'[i]) = Offer(orders[i]),
           \A i \in OrderIds' \ OrderIds : orders'[i].symbol # t
    PROVE  Offers(t)' = Offers(t)
<1>1. Killed(<<>>) = {} /\ Wanted(<<>>) = {}
  BY EmptyPart
<1>2. Offers(t) = {Offer(orders[i]) : i \in {j \in OrdersOf(t) : Active(orders[j])}}
  BY <1>1 DEF Offers, Standing
<1>3. Offers(t)'
        = {Offer(orders'[i]) : i \in {j \in OrdersOf(t)' : Active(orders'[j])}}
  BY <1>1 DEF Offers, Standing
<1>4. OrdersOf(t)' = OrdersOf(t)
  BY OldNames DEF OrdersOf
<1>5. \A i \in OrdersOf(t) : ~Active(orders[i]) => orders'[i] = orders[i]
  BY StepKeeps DEF KeptOrder, OrdersOf
<1>6. \A i \in OrdersOf(t) : Active(orders'[i]) <=> Active(orders[i])
  BY <1>5
<1> HIDE DEF Offers
<1> QED BY <1>2, <1>3, <1>4, <1>6

LEMMA SameExited ==
    ASSUME IndInv, [AnyNext]_vars, NEW t \in Symbols, UNCHANGED memory,
           \A i \in OrdersOf(t) :
               Active(orders[i]) => orders'[i].filled = orders[i].filled,
           \A i \in OrderIds' \ OrderIds :
               orders'[i].symbol # t \/ orders'[i].filled = 0,
           Exited(t)'
    PROVE  Exited(t)
<1>1. PICK i \in OrdersOf(t)' :
        /\ orders'[i].side = "SELL" /\ orders'[i].filled > 0
        /\ orders'[i].reference \in memory[t].cycle
  BY DEF Exited
<1>2. i \in OrderIds
  BY <1>1 DEF OrdersOf
<1>3. /\ i \in OrdersOf(t) /\ orders'[i].side = orders[i].side
      /\ orders'[i].reference = orders[i].reference
  BY <1>1, <1>2, OldNames DEF OrdersOf
<1>4. ~Active(orders[i]) => orders'[i] = orders[i]
  BY <1>2, StepKeeps DEF KeptOrder
<1>5. orders'[i].filled = orders[i].filled
  BY <1>3, <1>4
<1> QED BY <1>1, <1>3, <1>5 DEF Exited

LEMMA Undisturbed ==
    ASSUME IndInv, Loop \/ Ended, Advance, UNCHANGED memory, NEW t \in Symbols,
           Shape(t), Covers(t), positions'[t] = positions[t],
           Answering(t) => batch = <<>>, Answering(t)' => batch' = <<>>,
           \A i \in OrdersOf(t) : Active(orders[i]) =>
               Active(orders'[i]) /\ Offer(orders'[i]) = Offer(orders[i]),
           \A i \in OrderIds' \ OrderIds : orders'[i].symbol # t
    PROVE  Shape(t)' /\ Covers(t)'
<1>1. [AnyNext]_vars
  BY LoopIsAny
<1>2. Offers(t)' = Offers(t)
  BY <1>1, SameOffers
<1>3. \A i \in OrdersOf(t) :
        Active(orders[i]) => orders'[i].filled = orders[i].filled
  BY DEF Offer
<1>4. Exited(t)' => Exited(t)
  BY <1>1, <1>3, SameExited
<1>5. Held(t)' = Held(t) /\ memory'[t] = memory[t]
  BY DEF Held
<1>6. Guarded(t)' => Guarded(t)
  BY AdvanceGuarded
<1> HIDE DEF Shape, Covers, Offers, Held, Guarded, Exited
<1> QED BY <1>2, <1>4, <1>5, <1>6, SameDiscipline

\* A step that leaves orders and positions, and ends no answer half applied.
LEMMA QuietDiscipline ==
    ASSUME IndInv, Loop \/ Ended, Advance, UNCHANGED <<memory, orders, positions>>,
           phase = "apply" => batch = <<>>, phase' # "apply",
           NEW t \in Symbols, Shape(t), Covers(t)
    PROVE  Shape(t)' /\ Covers(t)'
<1>1. OrderIds' = OrderIds
  BY DEF OrderIds
<1>2. ~Answering(t)' /\ (Answering(t) => batch = <<>>)
  BY DEF Answering
<1> HIDE DEF Shape, Covers, Answering
<1> QED BY <1>1, <1>2, Undisturbed

LEMMA Cancelled ==
    ASSUME IndInv, NEW ids, orders' = Move(ids, "CANCELLED")
    PROVE  /\ OrderIds' = OrderIds
           /\ \A i \in OrderIds :
                IF i \in ids /\ Active(orders[i]) THEN ~Active(orders'[i])
                                                 ELSE orders'[i] = orders[i]
<1>1. /\ "CANCELLED" \in Status /\ "CANCELLED" # "TRIGGERED"
      /\ "CANCELLED" \notin ActiveStatus
  BY DEF Status, TerminalStatus, ActiveStatus
<1>2. orders \in Seq(OrderRecord)
  BY DEF IndInv, TypeOK
<1>3. Len(orders') = Len(orders) /\ orders' \in Seq(OrderRecord)
  BY <1>1, <1>2, MoveType
<1>4. ASSUME NEW i \in OrderIds
      PROVE  IF i \in ids /\ Active(orders[i]) THEN orders'[i].status = "CANCELLED"
                                              ELSE orders'[i] = orders[i]
  BY <1>1, MoveKeeps
<1> QED BY <1>1, <1>2, <1>3, <1>4 DEF Active, OrderIds

\* The step concerns another symbol.
LEMMA OtherDiscipline ==
    ASSUME IndInv, InTurns, InCandle, Feasible, Loop \/ Ended, Advance,
           UNCHANGED memory, NEW s \in Symbols, NEW t \in Symbols, t # s,
           Shape(t), Covers(t),
           \/ Liquidate(s)
           \/ s = turn.symbol /\ (ApplyTrade \/ ApplyCancel)
           \/ /\ s = turn.symbol
              /\ \E i \in turn.waiting : SettleReject(i) \/ SettleFill(i)
    PROVE  Shape(t)' /\ Covers(t)'
<1>1. [AnyNext]_vars
  BY LoopIsAny
<1> SUFFICES /\ positions'[t] = positions[t]
             /\ ~Answering(t) /\ ~Answering(t)'
             /\ \A i \in OrdersOf(t) : orders'[i] = orders[i]
             /\ \A i \in OrderIds' \ OrderIds : orders'[i].symbol # t
  <2> HIDE DEF Shape, Covers, Answering
  <2> QED BY Undisturbed
<1>2. CASE Liquidate(s)
  <2>1. phase = "barOpen" /\ phase' # "apply" /\ UNCHANGED positions
    BY <1>2, LiquidateEffect
  <2>2. /\ \A i \in OrderIds : orders[i].symbol # s => orders'[i] = orders[i]
        /\ OrderIds' = OrderIds \cup {Len(orders) + 1}
        /\ orders'[Len(orders) + 1]
             = NewOrder(ForcedReference, ExitIntent(s), TRUE)
    BY <1>2, LiquidateEffect
  <2>3. orders'[Len(orders) + 1].symbol = s
    BY <2>2 DEF NewOrder, ExitIntent
  <2> QED BY <2>1, <2>2, <2>3 DEF Answering, OrdersOf
<1>3. CASE s = turn.symbol /\ ApplyTrade
  BY <1>3, TradeEffect DEF Answering, OrdersOf
<1>4. CASE s = turn.symbol /\ ApplyCancel
  <2> DEFINE named == {i \in OrdersOf(turn.symbol) :
                         orders[i].reference \in Head(batch).targets}
  <2>1. /\ orders' = Move(named, "CANCELLED") /\ turn' = turn
        /\ UNCHANGED positions
    BY <1>4 DEF ApplyCancel, books
  <2> HIDE DEF named
  <2>2. /\ OrderIds' = OrderIds
        /\ \A i \in OrderIds : i \notin named => orders'[i] = orders[i]
    BY <2>1, Cancelled
  <2>3. \A i \in OrdersOf(t) : i \in OrderIds /\ i \notin named
    BY <1>4 DEF OrdersOf, named
  <2> QED BY <1>4, <2>1, <2>2, <2>3 DEF Answering
<1>5. ASSUME NEW i \in turn.waiting, s = turn.symbol, SettleReject(i)
      PROVE  /\ positions'[t] = positions[t]
             /\ ~Answering(t) /\ ~Answering(t)'
             /\ \A j \in OrdersOf(t) : orders'[j] = orders[j]
             /\ \A j \in OrderIds' \ OrderIds : orders'[j].symbol # t
  <2>1. /\ orders' = [orders EXCEPT ![i] = Transition(Woken(i), "REJECTED")]
        /\ phase = "settle" /\ phase' = phase /\ UNCHANGED positions
    BY <1>5 DEF SettleReject, Turn, clock, books
  <2>2. orders[i].symbol = s
    BY <1>5 DEF InCandle
  <2>3. /\ OrderIds' = OrderIds
        /\ \A j \in OrderIds : j # i => orders'[j] = orders[j]
    BY <2>1 DEF IndInv, TypeOK, OrderIds
  <2> QED BY <2>1, <2>2, <2>3 DEF Answering, OrdersOf
<1>6. ASSUME NEW i \in turn.waiting, s = turn.symbol, SettleFill(i)
      PROVE  /\ positions'[t] = positions[t]
             /\ ~Answering(t) /\ ~Answering(t)'
             /\ \A j \in OrdersOf(t) : orders'[j] = orders[j]
             /\ \A j \in OrderIds' \ OrderIds : orders'[j].symbol # t
  <2>1. phase = "settle" /\ phase' = phase
    BY <1>6, FillEffect DEF Turn
  <2>2. orders[i].symbol = s
    BY <1>6 DEF InCandle
  <2>3. positions'[t] = positions[t]
    BY <1>6, FillHeld
  <2>4. /\ OrderIds' = OrderIds
        /\ \A j \in OrderIds \ {i} : j \notin Siblings(i) => orders'[j] = orders[j]
    BY <1>6, FillKept
  <2>5. \A j \in Siblings(i) : orders[j].symbol = s
    BY <1>6 DEF Siblings, OrdersOf
  <2> HIDE DEF Siblings
  <2> QED BY <2>1, <2>2, <2>3, <2>4, <2>5 DEF Answering, OrdersOf
<1> QED BY <1>2, <1>3, <1>4, <1>5, <1>6

(***************************************************************************)
(* The symbol whose answer is applied, or whose candle is settled.         *)
(***************************************************************************)

\* Applying one request changes nothing of what there will be on offer once
\* all are applied.
LEMMA TradeDiscipline ==
    ASSUME IndInv, InTurns, Naming, Feasible, ApplyTrade, Advance,
           UNCHANGED memory, NEW s \in Symbols, s = turn.symbol,
           Shape(s), Covers(s)
    PROVE  Shape(s)' /\ Covers(s)'
<1> DEFINE head == Head(batch)
           new == Len(orders) + 1
<1>1. /\ phase = "apply" /\ batch # <<>> /\ head.kind = "trade"
      /\ batch' = Tail(batch)
      /\ UNCHANGED <<slot, phase, todo, turn, positions, used>>
      /\ OrderIds' = OrderIds \cup {new} /\ new \notin OrderIds
      /\ \A i \in OrderIds : orders'[i] = orders[i]
      /\ orders'[new].symbol = s /\ Active(orders'[new])
      /\ orders'[new].filled = 0
      /\ orders'[new].reference = head.reference
      /\ Offer(orders'[new]) = Asked(head)
  BY TradeEffect
<1>2. batch \in Seq(RequestRecord)
  BY DEF IndInv, TypeOK
<1>3. /\ 1 \in DOMAIN batch /\ head = batch[1]
      /\ Killed(batch) = Killed(batch')
      /\ Wanted(batch) = Wanted(batch') \cup {Asked(head)}
  <2>1. head.kind # "cancel"
    BY <1>1
  <2> QED BY <1>1, <1>2, <2>1, Applied
<1>4. head.reference \notin Killed(batch)
  BY <1>1, <1>3 DEF Naming
<1>5. Answering(s) /\ Answering(s)'
  BY <1>1 DEF Answering
<1>6. OrdersOf(s)' = OrdersOf(s) \cup {new}
  BY <1>1 DEF OrdersOf
<1>7. Standing(s) = {i \in OrdersOf(s) : /\ Active(orders[i])
                                         /\ orders[i].reference \notin Killed(batch)}
  BY <1>5 DEF Standing
<1>8. Standing(s)' = {i \in OrdersOf(s)' :
                        /\ Active(orders'[i])
                        /\ orders'[i].reference \notin Killed(batch')}
  BY <1>5 DEF Standing
<1>9. \A i \in OrdersOf(s) : i \in OrderIds
  BY DEF OrdersOf
<1>10. Offers(s) = {Offer(orders[i]) : i \in Standing(s)} \cup Wanted(batch)
  BY <1>5 DEF Offers
<1>11. Offers(s)' = {Offer(orders'[i]) : i \in Standing(s)'} \cup Wanted(batch')
  BY <1>5 DEF Offers
<1> HIDE DEF head, new, Killed, Wanted, Offers, Standing
<1>12. Standing(s)' = Standing(s) \cup {new}
  BY <1>1, <1>3, <1>4, <1>6, <1>7, <1>8, <1>9
<1>13. \A i \in Standing(s) : orders'[i] = orders[i]
  BY <1>1, <1>7, <1>9
<1>14. {Offer(orders'[i]) : i \in Standing(s)'}
         = {Offer(orders[i]) : i \in Standing(s)} \cup {Asked(head)}
  BY <1>1, <1>12, <1>13
<1>15. Offers(s)' = Offers(s)
  BY <1>3, <1>10, <1>11, <1>14
<1>16. Exited(s)' => Exited(s)
  <2>1. [AnyNext]_vars
    BY LoopIsAny DEF Loop
  <2> QED BY <1>1, <1>9, <2>1, SameExited
<1>17. Held(s)' = Held(s) /\ memory'[s] = memory[s]
  BY <1>1 DEF Held
<1>18. Guarded(s)' => Guarded(s)
  BY AdvanceGuarded
<1> HIDE DEF Shape, Covers, Offers, Held, Guarded, Exited
<1> QED BY <1>15, <1>16, <1>17, <1>18, SameDiscipline

LEMMA CancelDiscipline ==
    ASSUME IndInv, InTurns, Naming, ApplyCancel, Advance,
           UNCHANGED memory, NEW s \in Symbols, s = turn.symbol,
           Shape(s), Covers(s)
    PROVE  Shape(s)' /\ Covers(s)'
<1> DEFINE head == Head(batch)
           named == {i \in OrdersOf(turn.symbol) :
                       orders[i].reference \in head.targets}
<1>1. /\ phase = "apply" /\ batch # <<>> /\ head.kind = "cancel"
      /\ batch' = Tail(batch) /\ orders' = Move(named, "CANCELLED")
      /\ UNCHANGED <<slot, phase, todo, turn, positions, used>>
  BY DEF ApplyCancel, clock, books
<1>2. batch \in Seq(RequestRecord)
  BY DEF IndInv, TypeOK
<1>3. /\ Killed(batch) = Killed(batch') \cup head.targets
      /\ Wanted(batch) = Wanted(batch')
  <2>1. head.kind # "trade"
    BY <1>1
  <2> QED BY <1>1, <1>2, <2>1, Applied
<1>4. Answering(s) /\ Answering(s)'
  BY <1>1 DEF Answering
<1>5. \A i : i \in named <=> i \in OrdersOf(s) /\ orders[i].reference \in head.targets
  OBVIOUS
<1> HIDE DEF named, head
<1>6. /\ OrderIds' = OrderIds
      /\ \A i \in OrderIds :
           IF i \in named /\ Active(orders[i]) THEN ~Active(orders'[i])
                                               ELSE orders'[i] = orders[i]
  BY <1>1, Cancelled
<1>7. [AnyNext]_vars
  BY LoopIsAny DEF Loop
<1>8. OrdersOf(s)' = OrdersOf(s)
  BY <1>6, <1>7, OldNames DEF OrdersOf
<1>9. \A i \in OrdersOf(s) : i \in OrderIds
  BY DEF OrdersOf
<1>10. Standing(s) = {i \in OrdersOf(s) : /\ Active(orders[i])
                                          /\ orders[i].reference \notin Killed(batch)}
  BY <1>4 DEF Standing
<1>11. Standing(s)' = {i \in OrdersOf(s)' :
                         /\ Active(orders'[i])
                         /\ orders'[i].reference \notin Killed(batch')}
  BY <1>4 DEF Standing
<1>12. Offers(s) = {Offer(orders[i]) : i \in Standing(s)} \cup Wanted(batch)
  BY <1>4 DEF Offers
<1>13. Offers(s)' = {Offer(orders'[i]) : i \in Standing(s)'} \cup Wanted(batch')
  BY <1>4 DEF Offers
<1> HIDE DEF Killed, Wanted, Offers, Standing
<1>14. Standing(s)' = Standing(s) /\ \A i \in Standing(s) : orders'[i] = orders[i]
  BY <1>3, <1>5, <1>6, <1>8, <1>9, <1>10, <1>11
<1>15. Offers(s)' = Offers(s)
  BY <1>3, <1>12, <1>13, <1>14
<1>16. Exited(s)' => Exited(s)
  <2>1. \A i \in OrdersOf(s) : orders'[i].filled = orders[i].filled
    <3>1. ~(\E i \in turn.waiting : SettleFill(i))
      BY <1>1 DEF SettleFill, Turn
    <3> QED BY <1>7, <1>9, <3>1, StepKeeps DEF KeptOrder
  <2> QED BY <1>6, <1>7, <2>1, SameExited
<1>17. Held(s)' = Held(s) /\ memory'[s] = memory[s]
  BY <1>1 DEF Held
<1>18. Guarded(s)' => Guarded(s)
  BY AdvanceGuarded
<1> HIDE DEF Shape, Covers, Offers, Held, Guarded, Exited
<1> QED BY <1>15, <1>16, <1>17, <1>18, SameDiscipline

\* A stop that is triggered is the same offer.
LEMMA DryDiscipline ==
    ASSUME IndInv, NEW i \in turn.waiting, SettleDry(i), Advance,
           UNCHANGED memory, NEW t \in Symbols, Shape(t), Covers(t)
    PROVE  Shape(t)' /\ Covers(t)'
<1>1. /\ orders' = [orders EXCEPT ![i] = Woken(i)] /\ phase = "settle"
      /\ phase' = phase /\ positions' = positions /\ Active(orders[i])
  BY DEF SettleDry, Turn, CanFill, clock, books
<1>2. i \in OrderIds /\ Loop
  <2>1. i \in OrderIds
    BY InTurn
  <2> QED BY <2>1 DEF Loop, SettleOne
<1>3. /\ OrderIds' = OrderIds /\ orders'[i] = Woken(i)
      /\ \A j \in OrderIds : j # i => orders'[j] = orders[j]
  BY <1>1, <1>2 DEF IndInv, TypeOK, OrderIds
<1>4. Active(Woken(i)) /\ Offer(Woken(i)) = Offer(orders[i])
  <2>1. {"reference", "side", "type", "group", "forced", "quantity"}
          \subseteq TermFields
    BY DEF TermFields
  <2>2. /\ \A field \in TermFields : Woken(i)[field] = orders[i][field]
        /\ Woken(i).filled = orders[i].filled
        /\ Woken(i) = orders[i] \/ Woken(i).status = "TRIGGERED"
    BY WokenKeeps
  <2>3. Remaining(Woken(i)) = Remaining(orders[i])
    BY <2>1, <2>2 DEF Remaining
  <2>4. Offer(Woken(i)) = Offer(orders[i])
    BY <2>1, <2>2, <2>3 DEF Offer
  <2>5. Active(Woken(i))
    BY <1>1, <2>2 DEF Active, ActiveStatus
  <2> QED BY <2>4, <2>5
<1>5. \A j \in OrdersOf(t) : Active(orders[j]) =>
        Active(orders'[j]) /\ Offer(orders'[j]) = Offer(orders[j])
  BY <1>3, <1>4 DEF OrdersOf
<1>6. ~Answering(t) /\ ~Answering(t)'
  BY <1>1 DEF Answering
<1> HIDE DEF Shape, Covers, Answering
<1> QED BY <1>1, <1>2, <1>3, <1>5, <1>6, Undisturbed

\* While its candle is settled a symbol need not be covered.
LEMMA RejectDiscipline ==
    ASSUME IndInv, InTurns, NEW i \in turn.waiting, SettleReject(i),
           UNCHANGED memory, NEW s \in Symbols, s = turn.symbol, Shape(s)
    PROVE  Shape(s)' /\ Covers(s)'
<1>1. /\ orders' = [orders EXCEPT ![i] = Transition(Woken(i), "REJECTED")]
      /\ phase = "settle" /\ UNCHANGED <<phase, todo, positions>>
  BY DEF SettleReject, Turn, clock, books
<1>2. i \in OrderIds
  BY InTurn
<1>3. /\ OrderIds' = OrderIds
      /\ orders'[i] = Transition(Woken(i), "REJECTED")
      /\ \A j \in OrderIds : j # i => orders'[j] = orders[j]
  BY <1>1, <1>2 DEF IndInv, TypeOK, OrderIds
<1>4. ~Active(orders'[i])
  <2>1. "REJECTED" \in Status /\ "REJECTED" \notin ActiveStatus
    BY DEF Status, TerminalStatus, ActiveStatus
  <2>2. Transition(Woken(i), "REJECTED").status = "REJECTED"
    BY <2>1, WokenKeeps, TransitionKeeps
  <2> QED BY <1>3, <2>1, <2>2 DEF Active
<1>5. ~Answering(s) /\ ~Answering(s)'
  BY <1>1 DEF Answering
<1>6. Offers(s) = {Offer(orders[j]) : j \in {k \in OrdersOf(s) : Active(orders[k])}}
  BY <1>5 DEF Offers, Standing
<1>7. Offers(s)'
        = {Offer(orders'[j]) : j \in {k \in OrdersOf(s)' : Active(orders'[k])}}
  BY <1>5 DEF Offers, Standing
<1>8. \A j \in OrdersOf(s)' : Active(orders'[j]) =>
        j \in OrdersOf(s) /\ orders'[j] = orders[j]
  BY <1>3, <1>4 DEF OrdersOf
<1> HIDE DEF Offers
<1>9. Offers(s)' \subseteq Offers(s)
  BY <1>6, <1>7, <1>8
<1>10. Held(s)' = Held(s)
  BY <1>1 DEF Held
<1>11. Shape(s)'
  <2> HIDE DEF Shape, Held
  <2> QED BY <1>9, <1>10, FewerShape
<1>12. ~Guarded(s)'
  BY <1>1 DEF Guarded, InTurns
<1> QED BY <1>11, <1>12 DEF Covers

\* At the cutoff the forced order is the only offer, and not the strategy's.
LEMMA LiquidateDiscipline ==
    ASSUME IndInv, NEW s \in Symbols, Liquidate(s), UNCHANGED memory, Shape(s)
    PROVE  Shape(s)' /\ \A t \in Symbols : ~Guarded(t)'
<1> DEFINE new == Len(orders) + 1
<1>1. /\ phase = "barOpen" /\ slot = Cutoff /\ Held(s) > 0 /\ slot' = slot
      /\ phase' \in {"barOpen", "inside"} /\ positions' = positions
      /\ OrderIds' = OrderIds \cup {new}
      /\ orders'[new] = NewOrder(ForcedReference, ExitIntent(s), TRUE)
      /\ \A i \in OrderIds :
           IF orders[i].symbol = s /\ Active(orders[i])
           THEN orders'[i].status = "CANCELLED"
           ELSE orders'[i] = orders[i]
  BY LiquidateEffect
<1>2. orders'[new].forced
  BY <1>1 DEF NewOrder
<1>3. ~Answering(s)'
  BY <1>1 DEF Answering
<1>4. Offers(s)'
        = {Offer(orders'[j]) : j \in {k \in OrdersOf(s)' : Active(orders'[k])}}
  BY <1>3 DEF Offers, Standing
<1>5. \A i \in OrderIds :
        orders'[i].symbol = s => ~Active(orders'[i])
  BY <1>1 DEF Active, ActiveStatus
<1>6. \A j \in OrdersOf(s)' : Active(orders'[j]) => j = new
  BY <1>1, <1>5 DEF OrdersOf
<1>7. Offer(orders'[new]).forced
  BY <1>2 DEF Offer
<1> HIDE DEF Offers, new
<1>8. \A x \in Offers(s)' : ~IsSale(x)
  BY <1>4, <1>6, <1>7 DEF IsSale
<1>9. memory[s].range # 0 /\ Held(s)' = Held(s)
  <2>1. Held(s)' = Held(s)
    BY <1>1 DEF Held
  <2>2. memory[s].range = 0 => Held(s) = 0
    BY DEF Shape
  <2> HIDE DEF Held
  <2> QED BY <1>1, <2>1, <2>2
<1>10. Shape(s)'
  <2> HIDE DEF Held
  <2> QED BY <1>8, <1>9 DEF Shape, IsSale
<1>11. \A t \in Symbols : ~Guarded(t)'
  <2>1. Cutoff' = Cutoff /\ Cutoff \in Nat
    <3>1. Cutoff' = Cutoff
      BY DEF Cutoff, OpeningTime
    <3> HIDE DEF Cutoff
    <3> QED BY <3>1, CutoffType, Constants
  <2> HIDE DEF Cutoff
  <2> QED BY <1>1, <2>1 DEF Guarded
<1> QED BY <1>10, <1>11

\* At a close that succeeds nothing is held and nothing is on offer.
LEMMA CloseDiscipline ==
    ASSUME IndInv, SessionClose, phase' # "failed", UNCHANGED memory,
           NEW t \in Symbols
    PROVE  Shape(t)' /\ Covers(t)'
<1>1. /\ OrderIds' = OrderIds
      /\ \A i \in OrderIds : ~Active(orders'[i])
  BY CloseExpires
<1>2. ~Answering(t)' /\ ~(Held(t) > 0) /\ positions' = positions
  BY DEF SessionClose, Fail, Answering, books
<1>3. Held(t)' = 0
  <2>1. Held(t) \in Nat
    BY DEF IndInv, TypeOK, Held, PositionRecord
  <2>2. Held(t)' = Held(t)
    BY <1>2 DEF Held
  <2> HIDE DEF Held
  <2> QED BY <1>2, <2>1, <2>2
<1>4. Standing(t)' = {}
  BY <1>1 DEF Standing, OrdersOf
<1>5. Offers(t)' = {}
  BY <1>2, <1>4 DEF Offers
<1> HIDE DEF Offers, Held
<1> QED BY <1>3, <1>5 DEF Shape, Covers

\* A fill of one of two exits cancels the other; a sale at the market sells
\* from a holding that shrinks with what it has left.
LEMMA FillDiscipline ==
    ASSUME IndInv, InTurns, InCandle, Naming, NEW i \in turn.waiting,
           SettleFill(i), UNCHANGED memory, NEW s \in Symbols, s = turn.symbol,
           Shape(s)
    PROVE  Shape(s)' /\ Covers(s)'
<1> DEFINE q == FillQuantity(i)
<1>1. /\ phase = "settle" /\ UNCHANGED <<phase, todo, slot>>
      /\ Active(orders[i]) /\ q \in Nat \ {0} /\ q <= Remaining(orders[i])
      /\ orders[i].side = "SELL" => Remaining(orders[i]) <= Held(s)
  BY FillEffect DEF Turn
<1>2. /\ i \in OrderIds /\ OrderIds' = OrderIds
      /\ orders'[i].filled = orders[i].filled + q
      /\ \A j \in OrderIds \ {i} :
           IF j \in Siblings(i) /\ Active(orders[j])
           THEN orders'[j].status = "CANCELLED" ELSE orders'[j] = orders[j]
  BY FillKept
<1>3. /\ Held(s) \in Nat
      /\ Held(s)' = IF orders[i].side = "BUY" THEN Held(s) + q ELSE Held(s) - q
  BY FillHeld DEF Held
<1>4. [AnyNext]_vars
  <2>1. Loop
    BY DEF Loop, SettleOne
  <2> QED BY <2>1, LoopIsAny
<1>5. orders[i].symbol = s /\ i \in OrdersOf(s)
  BY <1>2 DEF InCandle, OrdersOf
<1>6. OrdersOf(s)' = OrdersOf(s) /\ \A j \in OrdersOf(s) : j \in OrderIds
  BY <1>2, <1>4, OldNames DEF OrdersOf
<1>7. \A j \in OrdersOf(s) : j # i /\ Active(orders'[j]) =>
        /\ orders'[j] = orders[j]
        /\ ~(orders[i].group # NoGroup /\ orders[j].group = orders[i].group)
  <2> TAKE j \in OrdersOf(s)
  <2> HAVE j # i /\ Active(orders'[j])
  <2>1. orders'[j].status # "CANCELLED"
    BY DEF Active, ActiveStatus
  <2>2. ~(j \in Siblings(i) /\ Active(orders[j])) /\ orders'[j] = orders[j]
    BY <1>2, <1>6, <2>1
  <2>3. j \notin Siblings(i)
    BY <2>2
  <2> QED BY <2>2, <2>3 DEF Siblings
<1>8. /\ Offer(orders'[i]).reference = Offer(orders[i]).reference
      /\ Offer(orders'[i]).side = Offer(orders[i]).side
      /\ Offer(orders'[i]).type = Offer(orders[i]).type
      /\ Offer(orders'[i]).group = Offer(orders[i]).group
      /\ Offer(orders'[i]).forced = Offer(orders[i]).forced
      /\ Offer(orders'[i]).left = Offer(orders[i]).left - q
  <2>1. /\ orders'[i].reference = orders[i].reference
        /\ orders'[i].forced = orders[i].forced
        /\ orders'[i].side = orders[i].side
        /\ orders'[i].type = orders[i].type
        /\ orders'[i].group = orders[i].group
        /\ orders'[i].quantity = orders[i].quantity
    BY <1>2, <1>4, OldNames
  <2>2. Remaining(orders'[i]) = Remaining(orders[i]) - q
    <3>1. orders[i].quantity \in Nat /\ orders[i].filled \in Nat /\ q \in Nat
      BY <1>1, <1>2, OrderFacts
    <3> HIDE DEF q
    <3> QED BY <1>2, <2>1, <3>1 DEF Remaining
  <2> QED BY <2>1, <2>2 DEF Offer
<1>9. ~Answering(s) /\ ~Answering(s)'
  BY <1>1 DEF Answering
<1>10. Offers(s) = {Offer(orders[j]) : j \in {k \in OrdersOf(s) : Active(orders[k])}}
  BY <1>9 DEF Offers, Standing
<1>11. Offers(s)'
         = {Offer(orders'[j]) : j \in {k \in OrdersOf(s)' : Active(orders'[k])}}
  BY <1>9 DEF Offers, Standing
\* The offers of two sales differ, as their names do.
<1>12. ASSUME NEW j \in OrdersOf(s), NEW k \in OrdersOf(s), j # k,
              IsSale(Offer(orders[j])), IsSale(Offer(orders[k]))
       PROVE  Offer(orders[j]) # Offer(orders[k])
  <2>1. j \in Ordinary /\ k \in Ordinary
    BY <1>6, <1>12 DEF Ordinary, IsSale, Offer
  <2>2. orders[j].reference # orders[k].reference
    BY <1>12, <2>1 DEF Naming
  <2>3. /\ Offer(orders[j]).reference = orders[j].reference
        /\ Offer(orders[k]).reference = orders[k].reference
    BY DEF Offer
  <2> QED BY <2>2, <2>3
\* An order on offer afterwards was on offer before, as the same kind of one.
<1>13. ASSUME NEW j \in OrdersOf(s), Active(orders'[j])
       PROVE  /\ Active(orders[j]) /\ Offer(orders[j]) \in Offers(s)
              /\ IsSale(Offer(orders'[j])) <=> IsSale(Offer(orders[j]))
              /\ Offer(orders'[j]).reference = Offer(orders[j]).reference
              /\ Offer(orders'[j]).type = Offer(orders[j]).type
  <2>1. Active(orders[j])
    BY <1>1, <1>7, <1>13
  <2>2. Offer(orders[j]) \in Offers(s)
    <3> HIDE DEF Offers
    <3> QED BY <1>10, <2>1
  <2> QED BY <1>7, <1>8, <1>13, <2>1, <2>2 DEF IsSale
<1>14. \A x \in Offers(s)' : \E j \in OrdersOf(s) : /\ Active(orders'[j])
                                                   /\ x = Offer(orders'[j])
  <2> HIDE DEF Offers
  <2> QED BY <1>6, <1>11
<1>15. Offer(orders[i]) \in Offers(s)
  <2> HIDE DEF Offers
  <2> QED BY <1>1, <1>5, <1>10
<1>16. Offer(orders[i]).left = Remaining(orders[i])
  BY DEF Offer
<1> HIDE DEF q, Offers, Held, Offer
<1>17. ASSUME NEW x \in Offers(s)', IsSale(x)
       PROVE  /\ x.reference \in memory[s].cycle
              /\ x.type = "MARKET" => Offers(s)' = {x} /\ x.left = Held(s)'
  <2>1. PICK j \in OrdersOf(s) : Active(orders'[j]) /\ x = Offer(orders'[j])
    BY <1>14
  <2> DEFINE y == Offer(orders[j])
  <2>2. /\ y \in Offers(s) /\ IsSale(y) /\ y.reference = x.reference
        /\ y.type = x.type /\ Active(orders[j])
    BY <1>13, <1>17, <2>1
  <2>3. x.reference \in memory[s].cycle
    BY <2>2 DEF Shape
  <2>4. ASSUME x.type = "MARKET"
        PROVE  Offers(s)' = {x} /\ x.left = Held(s)'
    <3>1. Offers(s) = {y} /\ y.left = Held(s)
      BY <2>2, <2>4 DEF Shape
    <3>2. \A k \in OrdersOf(s) : Active(orders[k]) => k = j
      <4> TAKE k \in OrdersOf(s)
      <4> HAVE Active(orders[k])
      <4>1. Offer(orders[k]) \in Offers(s)
        BY <1>10
      <4>2. Offer(orders[k]) = y
        BY <3>1, <4>1
      <4> QED BY <1>12, <2>2, <4>2
    <3>3. j = i
      BY <1>1, <1>5, <3>2
    <3>4. Offers(s)' = {x}
      <4>1. x \in Offers(s)'
        OBVIOUS
      <4>2. \A k \in OrdersOf(s) : Active(orders'[k]) => k = j
        BY <1>13, <3>2
      <4> QED BY <1>14, <2>1, <4>1, <4>2
    <3>5. orders[i].side # "BUY"
      <4>1. y.side = orders[i].side
        BY <3>3 DEF Offer
      <4> QED BY <2>2, <4>1 DEF IsSale
    <3>6. x.left = Held(s)'
      BY <1>3, <1>8, <2>1, <3>1, <3>3, <3>5
    <3> QED BY <3>4, <3>6
  <2> QED BY <2>3, <2>4
<1>18. ASSUME NEW x \in Offers(s)', NEW y \in Offers(s)',
              IsSale(x), IsSale(y), x # y
       PROVE  /\ x.filled = 0 /\ x.left = memory[s].basis.quantity
              /\ x.group # NoGroup /\ x.group = y.group
  <2>1. PICK j \in OrdersOf(s) : Active(orders'[j]) /\ x = Offer(orders'[j])
    BY <1>14
  <2>2. PICK k \in OrdersOf(s) : Active(orders'[k]) /\ y = Offer(orders'[k])
    BY <1>14
  <2>3. j # k
    BY <1>18, <2>1, <2>2
  <2> DEFINE a == Offer(orders[j])
             b == Offer(orders[k])
  <2>4. /\ a \in Offers(s) /\ b \in Offers(s) /\ IsSale(a) /\ IsSale(b)
        /\ a # b
    BY <1>12, <1>13, <1>18, <2>1, <2>2, <2>3
  <2>5. /\ a.filled = 0 /\ a.left = memory[s].basis.quantity
        /\ a.group # NoGroup /\ a.group = b.group
    BY <2>4 DEF Shape
  <2>6. a.group = orders[j].group /\ b.group = orders[k].group
    BY DEF Offer
  <2>7. j # i /\ k # i
    BY <1>7, <2>1, <2>2, <2>3, <2>5, <2>6
  <2>8. x = a /\ y = b
    BY <1>7, <2>1, <2>2, <2>7
  <2> QED BY <2>5, <2>8
<1>19. memory[s].range # 0
  <2> SUFFICES ASSUME memory[s].range = 0 PROVE FALSE
    OBVIOUS
  <2>1. Held(s) = 0 /\ Offer(orders[i]).side # "BUY"
    BY <1>15 DEF Shape
  <2>2. orders[i].side = "SELL"
    BY <1>2, <2>1, OrderFacts DEF Offer, Side
  <2>3. Remaining(orders[i]) \in Int
    <3>1. orders[i].quantity \in Nat /\ orders[i].filled \in Nat
      BY <1>2, OrderFacts
    <3> QED BY <3>1 DEF Remaining
  <2> QED BY <1>1, <2>1, <2>2, <2>3
<1>20. Shape(s)'
  BY <1>17, <1>18, <1>19 DEF Shape, IsSale
<1>21. ~Guarded(s)'
  <2>1. s \in todo /\ turn'.symbol = turn.symbol
    BY <1>1, FillHeld DEF InTurns
  <2> QED BY <1>1, <2>1 DEF Guarded
<1> QED BY <1>20, <1>21 DEF Covers

(***************************************************************************)
(* The loop and the strategy together.                                     *)
(***************************************************************************)

LEMMA LoopDiscipline ==
    ASSUME Kept, Loop \/ Ended, UNCHANGED memory
    PROVE  Disciplined'
<1> SUFFICES ASSUME phase' # "failed" PROVE Disciplined'
  BY DEF Disciplined
<1>1. /\ IndInv /\ InTurns /\ InCandle
      /\ SessionClose \/ Advance
  BY LoopAdvances DEF Kept
<1>2. phase # "failed"
  BY <1>1 DEF SessionClose, Advance
<1>3. /\ Naming /\ Feasible
      /\ \A t \in Symbols : Shape(t) /\ Covers(t)
  BY <1>2 DEF Kept, Disciplined
<1>4. Naming' /\ Feasible'
  BY <1>1, <1>3, LoopNames
<1>5. ASSUME NEW t \in Symbols
      PROVE  Shape(t)' /\ Covers(t)'
  <2>1. Shape(t) /\ Covers(t)
    BY <1>3
  <2>2. CASE SessionClose
    BY <1>1, <2>2, CloseDiscipline
  <2>3. CASE ~SessionClose
    <3>1. Advance
      BY <1>1, <2>3
    <3>2. ASSUME NEW s \in Symbols, Liquidate(s)
          PROVE  Shape(t)' /\ Covers(t)'
      <4>1. Shape(s)' /\ ~Guarded(t)'
        BY <1>1, <1>3, <3>2, LiquidateDiscipline
      <4>2. CASE t = s
        BY <4>1, <4>2 DEF Covers
      <4>3. CASE t # s
        BY <1>1, <1>3, <2>1, <3>1, <3>2, <4>3, OtherDiscipline
      <4> QED BY <4>2, <4>3
    <3>3. ASSUME NEW i \in turn.waiting, SettleDry(i)
          PROVE  Shape(t)' /\ Covers(t)'
      BY <1>1, <2>1, <3>1, <3>3, DryDiscipline
    <3>4. ASSUME NEW i \in turn.waiting, SettleReject(i) \/ SettleFill(i)
          PROVE  Shape(t)' /\ Covers(t)'
      <4>1. PICK s \in Symbols : s = turn.symbol
        BY <1>1, InTurn
      <4>2. CASE t # s
        BY <1>1, <1>3, <2>1, <3>1, <3>4, <4>1, <4>2, OtherDiscipline
      <4>3. CASE t = s
        BY <1>1, <1>3, <2>1, <3>4, <4>1, <4>3, RejectDiscipline, FillDiscipline
      <4> QED BY <4>2, <4>3
    <3>5. CASE ApplyTrade \/ ApplyCancel
      <4>1. PICK s \in Symbols : s = turn.symbol
        BY <1>1 DEF IndInv, TypeOK, TurnRecord
      <4>2. CASE t # s
        BY <1>1, <1>3, <2>1, <3>1, <3>5, <4>1, <4>2, OtherDiscipline
      <4>3. CASE t = s
        BY <1>1, <1>3, <2>1, <3>1, <3>5, <4>1, <4>3, TradeDiscipline,
           CancelDiscipline
      <4> QED BY <4>2, <4>3
    <3>6. CASE \/ StartOpenings \/ (\E s \in Symbols : BarOpen(s)) \/ EndSlot
               \/ (\E s \in Symbols : BeginBar(s))
               \/ (\E i \in turn.waiting : SettleSkip(i))
               \/ CallStrategy \/ EndApply \/ Ended
      <4>1. UNCHANGED <<orders, positions>>
        BY <3>6 DEF StartOpenings, BarOpen, EndSlot, BeginBar, SettleSkip,
                    CallStrategy, EndApply, Ended, books, vars
      <4>2. /\ phase = "apply" => batch = <<>>
            /\ phase' # "apply"
        BY <3>6 DEF StartOpenings, BarOpen, Opened, EndSlot, BeginBar,
                    SettleSkip, Turn, CallStrategy, EndApply, Leave, Ended,
                    clock, vars
      <4> HIDE DEF Shape, Covers, Advance
      <4> QED BY <1>1, <2>1, <3>1, <4>1, <4>2, QuietDiscipline
    <3>7. ~Decide /\ ~EndBar
      BY <1>1 DEF InTurns, Decide, EndBar
    <3> QED BY <2>3, <3>2, <3>3, <3>4, <3>5, <3>6, <3>7 DEF Loop, SettleOne
  <2> QED BY <2>2, <2>3
<1> HIDE DEF Naming, Feasible, Shape, Covers
<1> QED BY <1>4, <1>5 DEF Disciplined

LEMMA SameState ==
    ASSUME Disciplined,
           UNCHANGED <<memory, phase, slot, todo, turn, batch, used, orders,
                       positions, session>>
    PROVE  Disciplined'
<1> SUFFICES ASSUME phase # "failed" PROVE Disciplined'
  BY DEF Disciplined
<1>1. /\ Naming /\ Feasible
      /\ \A t \in Symbols : Shape(t) /\ Covers(t)
  BY DEF Disciplined
<1>2. /\ memory' = memory /\ phase' = phase /\ slot' = slot /\ todo' = todo
      /\ turn' = turn /\ batch' = batch /\ used' = used /\ orders' = orders
      /\ positions' = positions
  OBVIOUS
<1>3. OrderIds' = OrderIds /\ Ordinary' = Ordinary
  BY <1>2 DEF OrderIds, Ordinary
<1>4. \A t : Drawn(t)' = Drawn(t) /\ OrdersOf(t)' = OrdersOf(t) /\ Held(t)' = Held(t)
  BY <1>2 DEF Drawn, OrdersOf, OrderIds, Held
<1>5. Naming'
  <2>1. \A i \in Ordinary' : (orders[i].reference \in First(orders[i].symbol,
                                         memory[orders[i].symbol].drawn))'
    <3>1. \A i \in Ordinary : orders[i].reference \in First(orders[i].symbol,
                                         memory[orders[i].symbol].drawn)
      BY <1>1 DEF Naming, Drawn
    <3> HIDE DEF Ordinary
    <3> QED BY <1>2, <1>3, <3>1 DEF First
  <2> QED BY <1>1, <1>2, <1>3, <2>1 DEF Naming, Drawn, First, Killed
<1>6. Feasible'
  BY <1>1, <1>2 DEF Feasible, Held, Cutoff, OpeningTime
<1>7. ASSUME NEW t \in Symbols
      PROVE  Shape(t)' /\ Covers(t)'
  <2>1. Answering(t)' = Answering(t)
    BY <1>2 DEF Answering
  <2>2. Standing(t)' = Standing(t)
    <3> HIDE DEF OrdersOf, Answering
    <3> QED BY <1>2, <1>4, <2>1 DEF Standing, Killed
  <2>3. Offers(t)' = Offers(t)
    <3> HIDE DEF Standing, Answering
    <3> QED BY <1>2, <2>1, <2>2 DEF Offers, Wanted, Trades
  <2>4. Guarded(t)' => Guarded(t)
    <3>1. Cutoff' = Cutoff
      BY DEF Cutoff, OpeningTime
    <3> HIDE DEF Cutoff
    <3> QED BY <1>2, <3>1 DEF Guarded
  <2>5. Exited(t)' => Exited(t)
    <3> HIDE DEF OrdersOf
    <3> QED BY <1>2, <1>4 DEF Exited
  <2>6. Shape(t) /\ Covers(t)
    BY <1>1
  <2> HIDE DEF Shape, Covers, Offers, Held, Guarded, Exited
  <2> QED BY <1>2, <1>4, <2>3, <2>4, <2>5, <2>6, SameDiscipline
<1> HIDE DEF Naming, Feasible, Shape, Covers
<1> QED BY <1>5, <1>6, <1>7 DEF Disciplined

LEMMA StrategyStep ==
    ASSUME Kept, [BaselineNext]_baselineVars
    PROVE  [AnyNext]_vars /\ Kept'
<1>1. [AnyNext]_vars /\ InTurns' /\ Remembers' /\ Disciplined'
  <2>1. CASE BaselineEvaluate
    <3>1. AnyEvaluate /\ InTurns' /\ Remembers' /\ Disciplined'
      BY <2>1, EvaluateKeeps
    <3> QED BY <3>1 DEF AnyNext, AnyStep
  <2>2. CASE (Loop \/ Ended) /\ UNCHANGED memory
    <3>1. IndInv /\ InTurns /\ Remembers
      BY DEF Kept
    <3>2. InTurns' /\ Remembers'
      BY <2>2, <3>1, LoopRemembers
    <3> QED BY <2>2, <3>2, LoopIsAny, LoopDiscipline
  <2>3. CASE UNCHANGED baselineVars
    <3>1. UNCHANGED vars /\ UNCHANGED memory
      BY <2>3 DEF baselineVars
    <3>2. InTurns' /\ Remembers' /\ Disciplined'
      <4>1. InTurns /\ Remembers /\ Disciplined
        BY DEF Kept
      <4>2. InTurns'
        BY <3>1, <4>1 DEF InTurns, vars
      <4>3. /\ UNCHANGED <<memory, phase, slot, todo, turn, batch, used, orders,
                           positions, session>>
        BY <3>1 DEF vars
      <4>4. Remembers'
        <5>1. \A s \in Symbols : Turns(s)' = Turns(s) /\ Drawn(s)' = Drawn(s)
          BY <4>3 DEF Turns, Evaluated, Drawn
        <5> HIDE DEF Turns, Drawn
        <5> QED BY <4>1, <4>3, <5>1 DEF Remembers
      <4>5. Disciplined'
        BY <4>1, <4>3, SameState
      <4> QED BY <4>2, <4>4, <4>5
    <3> QED BY <3>1, <3>2
  <2> QED BY <2>1, <2>2, <2>3 DEF BaselineNext
<1>2. IndInv' /\ AccountingNeverRefuses'
  BY <1>1, StepType DEF Kept
<1>3. Timed' /\ InCandle' /\ ForcedLate'
  BY <1>1, <1>2, StepTimed, StepCandle, StepForcedLate DEF Kept
<1> QED BY <1>1, <1>2, <1>3 DEF Kept

LEMMA StrategyInit == BaselineInit => Kept
<1> SUFFICES ASSUME BaselineInit PROVE Kept
  OBVIOUS
<1>1. Init /\ mode = "strategy" /\ memory = [s \in Symbols |-> NewMemory]
  BY DEF BaselineInit
<1>2. IndInv /\ AccountingNeverRefuses
  BY <1>1, InitType DEF Init, AccountingNeverRefuses, NoFailure
<1>3. /\ orders = <<>> /\ OrderIds = {} /\ phase = "decide" /\ slot = 1
      /\ session = 1 /\ turn = NoTurn /\ fills = {} /\ used = {}
      /\ \A s \in Symbols : positions[s] = NoPosition
  BY <1>1 DEF Init, OrderIds
<1>4. Timed /\ InCandle /\ ForcedLate
  BY <1>3, NoTurnType DEF Timed, InCandle, ForcedLate
<1>5. InTurns
  BY <1>1, <1>3 DEF InTurns
<1>6. NewMemory \in MemoryRecord
  BY DEF NewMemory, MemoryRecord, NoBasis
<1>7. Remembers
  <2>1. \A s \in Symbols : Turns(s) \in Nat
    BY <1>2, TurnsBound
  <2>2. \A s \in Symbols : 0 <= LongestAnswer * Turns(s)
    <3> HIDE DEF Turns
    <3> QED BY <2>1 DEF LongestAnswer
  <2> HIDE DEF Turns
  <2> QED BY <1>1, <1>6, <2>2 DEF Remembers, NewMemory
<1>8. Naming /\ Feasible
  BY <1>3 DEF Naming, Feasible, Ordinary
<1>9. ASSUME NEW s \in Symbols
      PROVE  Shape(s) /\ Covers(s)
  <2>1. Offers(s) = {}
    BY <1>3 DEF Offers, Answering, Standing, OrdersOf
  <2>2. Held(s) = 0
    BY <1>3 DEF Held, NoPosition
  <2> HIDE DEF Offers, Held
  <2> QED BY <2>1, <2>2 DEF Shape, Covers
<1> HIDE DEF Naming, Feasible, Shape, Covers
<1>10. Disciplined
  BY <1>8, <1>9 DEF Disciplined
<1> QED BY <1>2, <1>4, <1>5, <1>7, <1>10 DEF Kept

LEMMA StrategyInvariant == BaselineSpec => []Kept
<1>1. Kept /\ [BaselineNext]_baselineVars => Kept'
  BY StrategyStep
<1> QED BY StrategyInit, <1>1, PTL DEF BaselineSpec

\* The strategy is one that the loop admits: it answers with requests, in the
\* phase in which it is called, and touches nothing but what it answers.  What
\* is proved of the loop with any strategy holds with this one.
THEOREM StrategyIsAdmitted == BaselineSpec => AnySpec
<1>1. BaselineInit => Init
  BY DEF BaselineInit
<1>2. Kept /\ [BaselineNext]_baselineVars => [AnyNext]_vars
  BY StrategyStep
<1> QED BY <1>1, <1>2, StrategyInvariant, PTL DEF BaselineSpec, AnySpec

\* Whatever this strategy answers: orders live one day and fill in later
\* candles only, of two exits in a group one executes, a reached stop comes
\* before a target, a candle's volume is used once, the account refuses no
\* fill, and the ledger explains itself.
THEOREM LoopKeepsItsInvariants ==
    BaselineSpec => /\ []TypeOK /\ []AccountingNeverRefuses /\ []DayOrders
                    /\ []NoLookahead /\ []OcoExclusive /\ []StopBeatsTarget
                    /\ []BarCapacity /\ []LedgerReconciles
<1>1. IndInv => TypeOK
  BY DEF IndInv
<1> QED BY <1>1, StrategyIsAdmitted, Inductive, AnyLiveOneDay, AnyNoHindsight,
           AnyOneExit, AnyStopsFirst, AnyVolumeOnce, LedgerInvariant, PTL

\* From the cutoff on the one forced order of a symbol is for exactly what is
\* held of it, and nothing cancels it, as long as its name is no other order's.
THEOREM LoopForcesExit ==
    ASSUME ForcedReference \notin References
    PROVE  BaselineSpec => []ForcedExitCovers /\ []ForcedNeverCancelled
  BY StrategyIsAdmitted, AnyForcedExit, AnyForcedStands, PTL

\* What a reader of a result is promised of its book, and that a finished order
\* stays as it is, hold with this strategy.
THEOREM BaselineImplementsBook == BaselineSpec => ImplementsBook /\ TerminalFrozen
  BY StrategyIsAdmitted, AnyBook, AnyFinishedStay, PTL

\* What an instance remembers is what the program's objects can hold: it has
\* made up no more references than there are, those of a cycle are among them,
\* and it knows a range exactly while it knows an entry.
THEOREM MemoryCorrect == BaselineSpec => []MemoryOK
<1>1. Kept => MemoryOK
  <2> SUFFICES ASSUME Kept, NEW s \in Symbols
               PROVE  LET m == memory[s]
                      IN  /\ m.drawn \in 0..Len(Label[s])
                          /\ m.range \in Ranges \cup {0}
                          /\ m.armed \in BOOLEAN
                          /\ m.cycle \subseteq {Label[s][n] : n \in 1..m.drawn}
                          /\ m.entry \in m.cycle \cup {NoEntry}
                          /\ m.entry = NoEntry <=> m.range = 0
                          /\ m.basis.quantity \in Nat /\ m.basis.amount \in Nat
    BY DEF MemoryOK
  <2>1. IndInv /\ Remembers
    BY DEF Kept
  <2>2. memory[s].drawn \in 0..Len(Label[s]) /\ memory[s] \in MemoryRecord
    BY <2>1, DrawnBound, Labels
  <2>3. /\ memory[s].armed \in BOOLEAN
        /\ memory[s].basis \in [quantity : Nat, amount : Nat]
    BY <2>2 DEF MemoryRecord
  <2>4. /\ memory[s].range \in Ranges \cup {0}
        /\ memory[s].cycle \subseteq {Label[s][n] : n \in 1..memory[s].drawn}
        /\ memory[s].entry \in memory[s].cycle \cup {NoEntry}
        /\ memory[s].entry = NoEntry <=> memory[s].range = 0
    BY <2>1 DEF Remembers, Drawn, First
  <2> QED BY <2>2, <2>3, <2>4
<1> QED BY <1>1, StrategyInvariant, PTL

\* Between two candles, an exit that is for sale sells what is held, some exit
\* is, and of two that both could fill each cancels the other: whatever the
\* candles fill in between, and in whatever parts.
THEOREM ExitsCoverHolding == BaselineSpec => []ExitsMatchHolding
<1>1. Kept => ExitsMatchHolding
  <2> SUFFICES ASSUME Kept, NEW s \in Symbols, Settled(s)
               PROVE  /\ Live(s, "SELL") # {}
                      /\ \A i \in Live(s, "SELL") : Remaining(orders[i]) = Held(s)
                      /\ \A i, j \in Live(s, "SELL") :
                            i # j => /\ orders[i].group # NoGroup
                                     /\ orders[i].group = orders[j].group
    BY DEF ExitsMatchHolding
  <2>1. Shape(s) /\ Covers(s) /\ Naming
    BY DEF Kept, Disciplined, Settled
  <2>2. Guarded(s) /\ Held(s) > 0 /\ ~Answering(s)
    BY DEF Settled, Guarded, Answering
  <2>3. Offers(s) = {Offer(orders[i]) : i \in {j \in OrdersOf(s) : Active(orders[j])}}
    BY <2>2 DEF Offers, Standing
  <2>4. \A i \in OrdersOf(s) :
          i \in Live(s, "SELL") <=> Active(orders[i]) /\ IsSale(Offer(orders[i]))
    BY DEF Live, IsSale, Offer
  <2>5. \A i \in Live(s, "SELL") :
          /\ i \in OrdersOf(s) /\ i \in Ordinary
          /\ Active(orders[i]) /\ IsSale(Offer(orders[i]))
    BY <2>4 DEF Live, OrdersOf, Ordinary
  <2> HIDE DEF Offers, Held, Guarded
  <2>6. \A i \in Live(s, "SELL") : Offer(orders[i]) \in Offers(s)
    BY <2>3, <2>5
  <2>7. /\ \E x \in Offers(s) : IsSale(x)
        /\ \A x \in Offers(s) : IsSale(x) => x.left = Held(s)
    BY <2>1, <2>2 DEF Covers
  <2>8. Live(s, "SELL") # {}
    BY <2>3, <2>4, <2>7
  <2>9. \A i \in Live(s, "SELL") : Remaining(orders[i]) = Held(s)
    BY <2>5, <2>6, <2>7 DEF Offer
  <2>10. ASSUME NEW i \in Live(s, "SELL"), NEW j \in Live(s, "SELL"), i # j
         PROVE  /\ orders[i].group # NoGroup
                /\ orders[i].group = orders[j].group
    <3>1. orders[i].reference # orders[j].reference
      BY <2>1, <2>5, <2>10 DEF Naming
    <3>2. Offer(orders[i]) # Offer(orders[j])
      BY <3>1 DEF Offer
    <3>3. /\ Offer(orders[i]).group # NoGroup
          /\ Offer(orders[i]).group = Offer(orders[j]).group
      BY <2>1, <2>5, <2>6, <3>2 DEF Shape
    <3> QED BY <3>3 DEF Offer
  <2> QED BY <2>8, <2>9, <2>10
<1> QED BY <1>1, StrategyInvariant, PTL

\* Once an exit has sold some of a holding, nothing is bought for it any more:
\* the rest of the entry has been cancelled by the end of the same candle.
THEOREM ExitsEndPurchases == BaselineSpec => []NoReopening
<1>1. Kept => NoReopening
  <2> SUFFICES ASSUME Kept, NEW s \in Symbols, Settled(s), Exited(s)
               PROVE  Live(s, "BUY") = {}
    BY DEF NoReopening
  <2>1. Covers(s)
    BY DEF Kept, Disciplined, Settled
  <2>2. Guarded(s) /\ Held(s) > 0 /\ ~Answering(s)
    BY DEF Settled, Guarded, Answering
  <2>3. \A i \in Live(s, "BUY") : /\ Offer(orders[i]) \in Offers(s)
                                  /\ Offer(orders[i]).side = "BUY"
    BY <2>2 DEF Offers, Standing, Live, Offer
  <2> HIDE DEF Offers, Held, Guarded, Exited
  <2> QED BY <2>1, <2>2, <2>3 DEF Covers
<1> QED BY <1>1, StrategyInvariant, PTL

(***************************************************************************)
(* The runtime refuses no answer.                                          *)
(***************************************************************************)

\* The references that one instance makes up at most in a run, and those of
\* all instances.
Room == LongestAnswer * (Sessions * Slots)
MadeUp == UNION {First(s, Room) : s \in Symbols}

\* The limit on a run's requests leaves room for every one of them.
Roomy == RequestLimit >= Cardinality(Symbols) * Room

LEMMA DrawnRoom ==
    ASSUME IndInv, Remembers, NEW s \in Symbols
    PROVE  /\ Room \in Nat /\ memory[s].drawn \in Nat
           /\ memory[s].drawn <= Room /\ Drawn(s) \subseteq First(s, Room)
           /\ ~Evaluated(s) => memory[s].drawn + LongestAnswer <= Room
<1> DEFINE all == Sessions * Slots
<1>1. /\ memory[s].drawn \in Nat /\ memory[s].drawn <= LongestAnswer * Turns(s)
  BY DEF Remembers, MemoryRecord
<1>2. /\ Turns(s) \in Nat /\ Turns(s) <= all /\ all \in Nat
      /\ ~Evaluated(s) => Turns(s) + 1 <= all
  BY TurnsBound
<1>3. Room = 5 * all /\ LongestAnswer = 5
  BY DEF Room, LongestAnswer
<1> HIDE DEF all, Turns, Evaluated, Room
<1>4. /\ Room \in Nat /\ memory[s].drawn <= Room
      /\ ~Evaluated(s) => memory[s].drawn + LongestAnswer <= Room
  BY <1>1, <1>2, <1>3
<1>5. 1..memory[s].drawn \subseteq 1..Room
  BY <1>1, <1>4
<1> QED BY <1>1, <1>4, <1>5 DEF Drawn, First

LEMMA MadeUpFinite ==
    /\ IsFiniteSet(MadeUp) /\ Cardinality(MadeUp) \in Nat
    /\ Roomy => Cardinality(MadeUp) <= RequestLimit
<1> DEFINE pairs == Symbols \X (1..Room)
           f == [p \in pairs |-> Label[p[1]][p[2]]]
<1>1. Room \in Nat
  <2>1. Sessions * Slots \in Nat
    BY Constants
  <2> DEFINE all == Sessions * Slots
  <2> HIDE DEF all
  <2>2. all \in Nat => LongestAnswer * all \in Nat
    BY DEF LongestAnswer
  <2> QED BY <2>1, <2>2 DEF Room, all
<1>2. IsFiniteSet(1..Room) /\ Cardinality(1..Room) = Room
  <2> HIDE DEF Room
  <2> QED BY <1>1, FS_Interval
<1>3. IsFiniteSet(Symbols) /\ Cardinality(Symbols) \in Nat
  BY SimulationAssumption, FS_CardinalityType
<1>4. IsFiniteSet(pairs) /\ Cardinality(pairs) = Cardinality(Symbols) * Room
  <2> HIDE DEF Room
  <2> QED BY <1>2, <1>3, FS_Product
<1>5. f \in Surjection(pairs, MadeUp)
  <2> HIDE DEF Room
  <2>1. \A p \in pairs : f[p] \in MadeUp
    BY DEF MadeUp, First
  <2>2. ASSUME NEW r \in MadeUp PROVE \E p \in pairs : f[p] = r
    <3>1. PICK s \in Symbols, n \in 1..Room : r = Label[s][n]
      BY DEF MadeUp, First
    <3>2. <<s, n>> \in pairs /\ f[<<s, n>>] = r
      BY <3>1
    <3> QED BY <3>2
  <2>3. f \in [pairs -> MadeUp]
    BY <2>1
  <2> HIDE DEF f, pairs
  <2> QED BY <2>2, <2>3 DEF Surjection
<1>6. /\ IsFiniteSet(MadeUp)
      /\ Cardinality(MadeUp) <= Cardinality(Symbols) * Room
  <2> HIDE DEF f, pairs
  <2> QED BY <1>4, <1>5, FS_Surjection
<1>7. Cardinality(MadeUp) \in Nat
  BY <1>6, FS_CardinalityType
<1> DEFINE bound == Cardinality(Symbols) * Room
<1>8. bound \in Nat
  <2> HIDE DEF Room
  <2> QED BY <1>1, <1>3
<1> HIDE DEF bound
<1>9. Cardinality(MadeUp) <= bound /\ (Roomy => RequestLimit >= bound)
  BY <1>6 DEF bound, Roomy
<1> QED BY <1>6, <1>7, <1>8, <1>9, Constants

\* The names of a sequence without repetition are as many as it is long.
LEMMA CountNames ==
    ASSUME NEW S, NEW output \in Seq(S),
           \A k, l \in DOMAIN output :
               output[k].reference = output[l].reference => k = l
    PROVE  LET names == {output[k].reference : k \in DOMAIN output}
           IN  IsFiniteSet(names) /\ Cardinality(names) = Len(output)
<1> DEFINE names == {output[k].reference : k \in DOMAIN output}
           f == [k \in 1..Len(output) |-> output[k].reference]
<1>1. Len(output) \in Nat /\ DOMAIN output = 1..Len(output)
  OBVIOUS
<1>2. f \in Bijection(1..Len(output), names)
  BY <1>1 DEF Bijection, Injection, Surjection, IsInjective
<1>3. IsFiniteSet(1..Len(output)) /\ Cardinality(1..Len(output)) = Len(output)
  BY <1>1, FS_Interval
<1>4. ExistsBijection(1..Len(output), names)
  BY <1>2 DEF ExistsBijection
<1> HIDE DEF names, f
<1> QED BY <1>1, <1>3, <1>4, FS_Bijection DEF names

\* The names in use and those of an answer together are among the made up.
LEMMA AnswerFits ==
    ASSUME NEW s, Called(s), NEW output, NEW n \in 0..LongestAnswer,
           Part(s, output, 0, n), Roomy
    PROVE  /\ Cardinality(used) + Len(output) <= RequestLimit
           /\ \A k \in DOMAIN output : output[k].reference \notin used
<1> DEFINE names == {output[k].reference : k \in DOMAIN output}
<1>1. /\ IndInv /\ Remembers /\ s \in Symbols /\ ~Evaluated(s)
      /\ used \subseteq UNION {Drawn(t) : t \in Symbols}
  BY CalledFacts DEF Called, Naming
<1>2. used \subseteq MadeUp
  <2>1. \A t \in Symbols : Drawn(t) \subseteq First(t, Room)
    BY <1>1, DrawnRoom
  <2> HIDE DEF Drawn, First
  <2> QED BY <1>1, <2>1 DEF MadeUp
<1>3. /\ Room \in Nat /\ memory[s].drawn \in Nat
      /\ memory[s].drawn + LongestAnswer <= Room
  BY <1>1, DrawnRoom
<1>4. ASSUME NEW k \in DOMAIN output
      PROVE  /\ output[k].reference \in MadeUp
             /\ output[k].reference \notin used
  <2>1. PICK m \in 1..n : output[k].reference = Name(s, m)
    BY DEF Part
  <2>2. m \in 1..LongestAnswer
    BY DEF LongestAnswer
  <2>3. memory[s].drawn + m \in 1..Room
    <3> HIDE DEF Room
    <3> QED BY <1>3, <2>2 DEF LongestAnswer
  <2>4. Name(s, m) \in First(s, Room)
    BY <2>3 DEF Name, First
  <2>5. \A t \in Symbols : Name(s, m) \notin Drawn(t)
    BY <1>1, <2>2, NewNames
  <2> HIDE DEF First, Drawn, Name
  <2> QED BY <1>1, <2>1, <2>4, <2>5 DEF MadeUp
<1>5. output \in Seq(RequestRecord)
  BY DEF Part
<1>6. IsFiniteSet(names) /\ Cardinality(names) = Len(output)
  BY <1>5, CountNames DEF Part
<1>7. names \subseteq MadeUp /\ used \cap names = {}
  BY <1>4
<1> HIDE DEF names
<1>8. IsFiniteSet(used) /\ Cardinality(used) \in Nat
  BY <1>2, MadeUpFinite, FS_Subset, FS_CardinalityType
<1>9. Cardinality(used \cup names) = Cardinality(used) + Len(output)
  <2>1. Cardinality({}) = 0 /\ Len(output) \in Nat
    BY <1>5, FS_EmptySet
  <2>2. Cardinality(used \cup names)
          = Cardinality(used) + Cardinality(names) - Cardinality(used \cap names)
    BY <1>6, <1>8, FS_Union
  <2>3. Cardinality(used \cap names) = 0
    BY <1>7, <2>1
  <2> DEFINE old == Cardinality(used)
             all == Cardinality(used \cup names)
             both == Cardinality(used \cap names)
             new == Cardinality(names)
             length == Len(output)
  <2>4. /\ old \in Nat /\ length \in Nat /\ new = length /\ both = 0
        /\ all = old + new - both
    BY <1>6, <1>8, <2>1, <2>2, <2>3
  <2> HIDE DEF old, all, both, new, length
  <2>5. all = old + length
    BY <2>4
  <2> QED BY <2>5 DEF old, all, length
<1>10. Cardinality(used \cup names) <= Cardinality(MadeUp)
  <2>1. used \cup names \in SUBSET MadeUp
    BY <1>2, <1>7
  <2> QED BY <2>1, MadeUpFinite, FS_Subset
<1>11. Cardinality(used) + Len(output) <= RequestLimit
  <2>1. Cardinality(used \cup names) \in Nat
    BY <1>5, <1>8, <1>9
  <2> QED BY <1>9, <1>10, <2>1, MadeUpFinite, Constants
<1> QED BY <1>4, <1>11

LEMMA AnswerAccepted ==
    ASSUME NEW s, NEW output, NEW n, NEW after, Answers(s, output, n, after),
           Roomy
    PROVE  UNCHANGED failure
<1>1. /\ Called(s) /\ n \in 0..LongestAnswer /\ Part(s, output, 0, n)
      /\ s = turn.symbol /\ Deliver(output)
  BY DEF Answers, Answer, Called
<1>2. output \in Seq(RequestRecord)
  BY <1>1 DEF Part
<1>3. /\ Cardinality(used) + Len(output) <= RequestLimit
      /\ \A k \in DOMAIN output : output[k].reference \notin used
  BY <1>1, AnswerFits
<1>4. ASSUME NEW k \in DOMAIN output
      PROVE  /\ \A m \in 1..(k - 1) : output[m].reference # output[k].reference
             /\ output[k].kind = "trade" => output[k].intent.symbol = s
             /\ output[k].kind = "cancel" => output[k].targets \subseteq Known(s)
  <2>1. DOMAIN output = 1..Len(output) /\ Len(output) \in Nat /\ k \in Nat
    BY <1>2
  <2>2. \A m \in 1..(k - 1) : m \in DOMAIN output /\ m # k
    BY <2>1
  <2>3. LiveNames(s) \subseteq Known(s)
    BY DEF LiveNames, Live, Known
  <2> QED BY <1>1, <2>2, <2>3 DEF Part
<1>5. output # <<>> => Now < 2 * Slots
  <2>1. output # <<>> => slot + 1 < Cutoff
    BY <1>1 DEF Part
  <2>2. slot \in 1..Slots /\ Cutoff \in 1..Slots
    BY <1>1, CalledFacts
  <2>3. Now = OpeningTime(slot + 1)
    BY <1>1 DEF Called, Now
  <2> HIDE DEF Cutoff
  <2> QED BY <2>1, <2>2, <2>3, Constants DEF OpeningTime
<1>6. Accepted(output)
  <2>1. \A k \in DOMAIN output : output # <<>>
    OBVIOUS
  <2> HIDE DEF Now, Known
  <2> QED BY <1>1, <1>3, <1>4, <1>5, <2>1 DEF Accepted
<1> QED BY <1>1, <1>6 DEF Deliver

\* The loop itself abandons a run for what is left at the close, or because
\* the account refuses a fill.
LEMMA LoopFails ==
    ASSUME Loop \/ Ended
    PROVE  failure' \in {failure, "FORCED_EXIT_INCOMPLETE", "ACCOUNTING"}
<1>1. CASE Decide
  BY <1>1 DEF Decide
<1>2. CASE StartOpenings \/ EndSlot \/ EndBar \/ CallStrategy
  BY <1>2 DEF StartOpenings, EndSlot, EndBar, CallStrategy
<1>3. ASSUME NEW s \in Symbols, BarOpen(s) \/ Liquidate(s) \/ BeginBar(s)
      PROVE  UNCHANGED failure
  BY <1>3 DEF BarOpen, Liquidate, BeginBar
<1>4. ASSUME NEW i \in turn.waiting, SettleSkip(i) \/ SettleDry(i) \/ SettleReject(i)
      PROVE  UNCHANGED failure
  BY <1>4 DEF SettleSkip, SettleDry, SettleReject
<1>5. ASSUME NEW i \in turn.waiting, SettleFill(i)
      PROVE  failure' \in {failure, "ACCOUNTING"}
  BY <1>5 DEF SettleFill, Fail
<1>6. CASE ApplyTrade \/ ApplyCancel \/ EndApply \/ Ended
  BY <1>6 DEF ApplyTrade, ApplyCancel, EndApply, Ended, vars
<1>7. CASE SessionClose
  BY <1>7 DEF SessionClose, Fail
<1> QED BY <1>1, <1>2, <1>3, <1>4, <1>5, <1>6, <1>7 DEF Loop, SettleOne

\* What ends a run with this strategy: neither the account nor the strategy's
\* own knowledge of its entry does, and the runtime only at its limit.
LEMMA StrategyFails ==
    ASSUME Kept, [BaselineNext]_baselineVars
    PROVE  /\ failure' \in {failure, "FORCED_EXIT_INCOMPLETE", "ACCOUNTING",
                            "INVALID_INTENT", "NONPOSITIVE_STOP"}
           /\ Roomy => failure' \in {failure, "FORCED_EXIT_INCOMPLETE",
                                     "ACCOUNTING", "NONPOSITIVE_STOP"}
<1>1. CASE BaselineEvaluate
  <2>1. phase = "strategy"
    BY <1>1 DEF BaselineEvaluate
  <2>2. PICK s \in Symbols : s = turn.symbol /\ Called(s) /\ Shape(s)
    BY <2>1, KeptCalled
  <2>3. AnswersWell(s) \/ GivesUp
    BY <1>1, <2>2, EvaluateWell
  <2>4. CASE GivesUp
    BY <2>4 DEF GivesUp
  <2>5. CASE AnswersWell(s)
    <3>1. PICK output, n, after : Answers(s, output, n, after)
      BY <2>5 DEF AnswersWell
    <3>2. Deliver(output)
      BY <3>1 DEF Answers, Answer
    <3>3. failure' \in {failure, "INVALID_INTENT"}
      BY <3>2 DEF Deliver, Fail
    <3>4. Roomy => UNCHANGED failure
      BY <3>1, AnswerAccepted
    <3> QED BY <3>3, <3>4
  <2> QED BY <2>3, <2>4, <2>5
<1>2. CASE Loop \/ Ended
  BY <1>2, LoopFails
<1>3. CASE UNCHANGED baselineVars
  BY <1>3 DEF baselineVars, vars
<1> QED BY <1>1, <1>2, <1>3 DEF BaselineNext

\* Whatever it holds, the strategy knows the entry it came from, and so never
\* abandons a run for not knowing it.
THEOREM EntryIsKnown == BaselineSpec => [](failure # "UNKNOWN_ENTRY")
<1>1. BaselineInit => failure # "UNKNOWN_ENTRY"
  BY DEF BaselineInit, Init, NoFailure
<1>2. /\ Kept /\ failure # "UNKNOWN_ENTRY" /\ [BaselineNext]_baselineVars
      => (failure # "UNKNOWN_ENTRY")'
  BY StrategyFails
<1> QED BY <1>1, <1>2, StrategyInvariant, PTL DEF BaselineSpec

\* The runtime accepts whatever the strategy answers, where its limit on the
\* requests of a run leaves room for those of every candle: no name is used
\* twice, no order is cancelled that is not known, nothing is asked for after
\* the close.
THEOREM AnswersAreAccepted ==
    ASSUME RequestLimit >= Cardinality(Symbols) * Room
    PROVE  BaselineSpec => []NeverRefused
<1>1. Roomy
  BY DEF Roomy
<1>2. BaselineInit => NeverRefused
  BY DEF BaselineInit, Init, NoFailure, NeverRefused
<1>3. /\ Kept /\ NeverRefused /\ [BaselineNext]_baselineVars
      => NeverRefused'
  BY <1>1, StrategyFails DEF NeverRefused
<1> QED BY <1>2, <1>3, StrategyInvariant, PTL DEF BaselineSpec

=============================================================================
