---------------------------- MODULE OrderProofs ----------------------------
(***************************************************************************)
(* Theorems about the life of an order: when it may fill, which orders     *)
(* exclude one another, and how the forced exit of a session covers what   *)
(* is held.  They rest on the invariant of SimulationProofs, on what a     *)
(* step may do to an order at all, and on one invariant per hazard.        *)
(***************************************************************************)
EXTENDS SimulationProofs

(***************************************************************************)
(* The invariants.                                                         *)
(***************************************************************************)

\* Candle k of the day opened after the order was made.
Begun(order, day, k) ==
    \/ order.day < day
    \/ order.day = day /\ order.created < OpeningTime(k)

\* In candle k of the day: an order's day and times, and what a forced one is.
TimedOrder(order, day, k) ==
    /\ order.day <= day
    /\ Active(order) => order.day = day /\ order.filled < order.quantity
    /\ order.forced => /\ order.created = OpeningTime(Cutoff)
                       /\ order.eligible = Cutoff
                       /\ order.group = NoGroup
                       /\ order.reference = ForcedReference
    /\ ~order.forced => /\ order.eligible = OpeningAfter(order.created)
                        /\ order.reference \in References
                        /\ order.filled > 0 => Begun(order, day, k)
    /\ order.triggered => order.type = "STOP_MARKET"

Timed == \A i \in OrderIds : TimedOrder(orders[i], session, slot)

\* What the candle being settled may still fill, and what it has filled.
InCandle ==
    /\ \A i \in turn.waiting :
         /\ orders[i].symbol = turn.symbol
         /\ orders[i].eligible <= slot
         /\ orders[i].forced \/ slot < Cutoff
    /\ \A f \in fills :
         /\ orders[f.order].symbol = turn.symbol
         /\ orders[f.order].eligible <= slot
         /\ f.order \notin turn.waiting
    /\ phase \notin {"settle", "strategy", "apply", "failed"} => fills = {}
    /\ phase # "settle" => turn.waiting = {}

\* Orders that an OCO group makes exclude each other.
Rivals(i, j) ==
    /\ i # j /\ orders[i].group # NoGroup
    /\ orders[i].group = orders[j].group
    /\ orders[i].symbol = orders[j].symbol
    /\ orders[i].day = orders[j].day
    /\ orders[i].created = orders[j].created

RivalsSpent ==
    \A i, j \in OrderIds :
        Rivals(i, j) /\ orders[i].filled > 0
          => ~Active(orders[j]) /\ orders[j].filled = 0

StopFilled == \E g \in fills : IsStop(orders[g.order])
TargetFilled == \E f \in fills : IsTarget(orders[f.order])
LiveStops == Stops(turn.symbol, turn.bar)

\* A target that the candle may still pay: either no stop is in its way, or
\* the stops come first and find nothing to sell, or there is no volume left.
TargetsWait ==
    phase = "settle" =>
        \A i \in turn.waiting :
            IsTarget(orders[i]) /\ Reachable(orders[i], turn.bar)
                /\ Active(orders[i])
              => \/ LiveStops = {} /\ ~StopFilled
                 \/ /\ LiveStops \subseteq turn.waiting /\ ~StopFilled
                    /\ Held(turn.symbol) = 0
                 \/ Participates /\ turn.capacity = 0

StopsPrevail == TargetFilled => LiveStops = {} /\ ~StopFilled

\* A forced order is alive only behind the cutoff.
ForcedLate ==
    phase \notin {"done", "failed"} =>
        \A i \in OrderIds : orders[i].forced /\ Active(orders[i])
                              => PastCutoff(orders[i].symbol)

(***************************************************************************)
(* What a step may do to the orders.                                       *)
(***************************************************************************)

TermFields == {"reference", "symbol", "side", "quantity", "type", "price",
               "group", "day", "created", "forced", "eligible"}

\* The order stays, and keeps its terms; it changes only while it is active;
\* only a fill of it fills it, and only a stop in reach is triggered.
KeptOrder(i) ==
    /\ i \in OrderIds'
    /\ \A field \in TermFields : orders'[i][field] = orders[i][field]
    /\ orders'[i] = orders[i] \/ Active(orders[i])
    /\ \/ orders'[i].filled = orders[i].filled
       \/ i \in turn.waiting /\ SettleFill(i)
    /\ \/ orders'[i].triggered = orders[i].triggered
       \/ /\ i \in turn.waiting /\ CanFill(i)
          /\ orders[i].type = "STOP_MARKET" /\ orders'[i].triggered

\* The fields of an order that the steps below compute with.
LEMMA OrderFacts ==
    ASSUME IndInv, NEW i \in OrderIds
    PROVE  /\ orders[i] \in OrderRecord
           /\ orders[i].filled \in Nat /\ orders[i].quantity \in Nat \ {0}
           /\ orders[i].filled <= orders[i].quantity
           /\ orders[i].symbol \in Symbols /\ orders[i].side \in Side
           /\ orders[i].forced => orders[i].side = "SELL"
<1>1. orders[i] \in OrderRecord
  BY DEF IndInv, TypeOK, OrderIds
<1>2. /\ orders[i].filled <= orders[i].quantity
      /\ orders[i].forced => orders[i].side = "SELL"
  BY DEF IndInv, OrdersOK
<1> QED BY <1>1, <1>2 DEF OrderRecord

\* A step that leaves the orders alone keeps every one of them.
LEMMA SameKept ==
    ASSUME UNCHANGED orders, NEW i \in OrderIds PROVE KeptOrder(i)
  BY DEF KeptOrder, OrderIds

\* An order that is added takes the next number and disturbs no other.
LEMMA Added ==
    ASSUME IndInv, NEW base \in Seq(OrderRecord), Len(base) = Len(orders),
           NEW order, orders' = Append(base, order)
    PROVE  /\ Len(orders) + 1 \notin OrderIds
           /\ OrderIds' = OrderIds \cup {Len(orders) + 1}
           /\ orders'[Len(orders) + 1] = order
           /\ \A i \in OrderIds : orders'[i] = base[i]
  BY DEF IndInv, TypeOK, OrderIds

\* A transition other than a trigger keeps the terms, what is filled, and the
\* trigger mark.
LEMMA TransitionKeeps ==
    ASSUME NEW order \in OrderRecord, NEW status \in Status,
           status # "TRIGGERED"
    PROVE  /\ \A field \in TermFields :
                 Transition(order, status)[field] = order[field]
           /\ Transition(order, status).filled = order.filled
           /\ Transition(order, status).turnover = order.turnover
           /\ Transition(order, status).triggered = order.triggered
           /\ Transition(order, status).status = status
<1>1. Transition(order, status).triggered = order.triggered
  BY DEF Transition, OrderRecord
<1> QED BY <1>1, TransitionType DEF TermFields

\* The same for a set of orders.
LEMMA MoveKeeps ==
    ASSUME IndInv, NEW ids, NEW status \in Status, status # "TRIGGERED",
           NEW i \in OrderIds
    PROVE  LET moved == Move(ids, status)
           IN  /\ moved \in Seq(OrderRecord) /\ Len(moved) = Len(orders)
               /\ \A field \in TermFields : moved[i][field] = orders[i][field]
               /\ moved[i].filled = orders[i].filled
               /\ moved[i].triggered = orders[i].triggered
               /\ IF i \in ids /\ Active(orders[i])
                  THEN moved[i].status = status ELSE moved[i] = orders[i]
<1>1. orders \in Seq(OrderRecord) /\ orders[i] \in OrderRecord
  BY DEF IndInv, TypeOK, OrderIds
<1> QED BY <1>1, MoveType, TransitionKeeps

\* Moving orders to another status keeps each for what it was.
LEMMA MoveKept ==
    ASSUME IndInv, NEW ids, NEW status \in Status, status # "TRIGGERED",
           orders' = Move(ids, status), NEW i \in OrderIds
    PROVE  KeptOrder(i) /\ OrderIds' = OrderIds
<1>1. OrderIds' = OrderIds
  BY MoveKeeps DEF OrderIds, IndInv, TypeOK
<1> QED BY <1>1, MoveKeeps DEF KeptOrder

\* Waking an order at most marks a stop as triggered.
LEMMA WokenKeeps ==
    ASSUME IndInv, NEW i \in turn.waiting
    PROVE  /\ Woken(i) \in OrderRecord
           /\ \A field \in TermFields : Woken(i)[field] = orders[i][field]
           /\ Woken(i).filled = orders[i].filled
           /\ \/ Woken(i) = orders[i]
              \/ /\ orders[i].type = "STOP_MARKET" /\ Woken(i).triggered
                 /\ Woken(i).status = "TRIGGERED"
<1>1. orders[i] \in OrderRecord
  BY InTurn
<1>2. orders[i].triggered \in BOOLEAN
  BY <1>1 DEF OrderRecord
<1>3. \/ Woken(i) = orders[i]
      \/ /\ orders[i].type = "STOP_MARKET" /\ Woken(i).triggered
         /\ Woken(i).status = "TRIGGERED"
  BY <1>1, <1>2 DEF Woken, Transition, OrderRecord
<1> QED BY <1>3, WokenType DEF TermFields

\* Replacing the order in turn.
LEMMA ReplaceKept ==
    ASSUME IndInv, NEW i \in turn.waiting, CanFill(i),
           NEW order, orders' = [orders EXCEPT ![i] = order],
           \A field \in TermFields : order[field] = Woken(i)[field],
           order.filled = orders[i].filled,
           order.triggered = Woken(i).triggered
    PROVE  OrderIds' = OrderIds /\ \A j \in OrderIds : KeptOrder(j)
<1>1. i \in OrderIds /\ OrderIds' = OrderIds /\ Active(orders[i])
  BY InTurn DEF OrderIds, CanFill
<1>2. orders'[i] = order /\ \A j \in OrderIds \ {i} : orders'[j] = orders[j]
  BY <1>1 DEF OrderIds
<1>3. KeptOrder(i)
  BY <1>1, <1>2, WokenKeeps DEF KeptOrder
<1>4. ASSUME NEW j \in OrderIds \ {i} PROVE KeptOrder(j)
  BY <1>1, <1>2, <1>4 DEF KeptOrder
<1> QED BY <1>1, <1>3, <1>4

FillTurnover(i) == FillQuantity(i) * Price(i)
FillCost(i) == Incremental(orders[i], FillQuantity(i), Price(i))

\* What a fill does: the account accepts it, so it is booked, and its whole
\* remainder was paid for or in stock.
LEMMA FillEffect ==
    ASSUME IndInv, NEW i \in turn.waiting, SettleFill(i)
    PROVE  /\ Turn(i) /\ Active(orders[i]) /\ Reachable(orders[i], turn.bar)
           /\ FillQuantity(i) \in Nat \ {0}
           /\ FillQuantity(i) <= Remaining(orders[i])
           /\ Participates => FillQuantity(i) <= turn.capacity
           /\ FillTurnover(i) \in Nat /\ FillCost(i) \in Nat
           /\ orders[i].side = "SELL" =>
                /\ Remaining(orders[i]) <= Held(turn.symbol)
                /\ FillQuantity(i) <= positions[turn.symbol].quantity
           /\ orders[i].side = "BUY" =>
                FillTurnover(i) + FillCost(i) <= account.cash
           /\ orders' = [Move(Siblings(i), "CANCELLED") EXCEPT
                           ![i] = AfterFill(Woken(i), FillQuantity(i),
                                            FillTurnover(i))]
           /\ fills' = fills \cup {[order |-> i, quantity |-> FillQuantity(i),
                                    price |-> Price(i)]}
           /\ account' = Charged(account, turn.symbol, positions[turn.symbol],
                                 orders[i].side, FillQuantity(i),
                                 FillTurnover(i), FillCost(i))
           /\ positions' = [positions EXCEPT ![turn.symbol] =
                              Booked(@, orders[i].side, FillQuantity(i),
                                     FillTurnover(i), FillCost(i))]
           /\ turn' = [turn EXCEPT !.waiting = @ \ {i},
                         !.capacity = IF Participates THEN @ - FillQuantity(i)
                                                      ELSE @]
           /\ UNCHANGED <<mode, session, slot, phase, todo, batch, used, closes,
                          equity, warnings, failure>>
<1>1. /\ FillQuantity(i) > 0 /\ ~Unaffordable(i) /\ ~Oversold(i)
      /\ Turn(i) /\ Active(orders[i]) /\ Reachable(orders[i], turn.bar)
  BY DEF SettleFill, CanFill
<1>2. /\ FillQuantity(i) \in Nat \ {0}
      /\ FillQuantity(i) <= Remaining(orders[i])
      /\ Participates => FillQuantity(i) <= turn.capacity
      /\ FillTurnover(i) \in Nat /\ FillCost(i) \in Nat
      /\ orders[i].side = "SELL" =>
           FillQuantity(i) <= positions[turn.symbol].quantity
      /\ ~Refuses(account, positions[turn.symbol], orders[i].side,
                  FillQuantity(i), FillTurnover(i), FillCost(i))
  BY <1>1, FillAccepted DEF FillTurnover, FillCost
<1>3. orders[i].side = "SELL" => Remaining(orders[i]) <= Held(turn.symbol)
  <2>1. /\ turn.symbol \in Symbols /\ Remaining(orders[i]) \in Nat
        /\ positions \in [Symbols -> PositionRecord]
    BY InTurn DEF IndInv, TypeOK
  <2>2. Held(turn.symbol) \in Nat
    BY <2>1 DEF Held, PositionRecord
  <2> QED BY <1>1, <2>1, <2>2 DEF Oversold
<1>4. orders[i].side = "BUY" => FillTurnover(i) + FillCost(i) <= account.cash
  <2>1. account.cash \in Int
    BY DEF IndInv, TypeOK, AccountRecord
  <2> QED BY <1>2, <2>1 DEF Refuses
<1>5. /\ orders' = [Move(Siblings(i), "CANCELLED") EXCEPT
                      ![i] = AfterFill(Woken(i), FillQuantity(i),
                                       FillTurnover(i))]
      /\ fills' = fills \cup {[order |-> i, quantity |-> FillQuantity(i),
                               price |-> Price(i)]}
      /\ account' = Charged(account, turn.symbol, positions[turn.symbol],
                            orders[i].side, FillQuantity(i), FillTurnover(i),
                            FillCost(i))
      /\ positions' = [positions EXCEPT ![turn.symbol] =
                         Booked(@, orders[i].side, FillQuantity(i),
                                FillTurnover(i), FillCost(i))]
      /\ turn' = [turn EXCEPT !.waiting = @ \ {i},
                    !.capacity = IF Participates THEN @ - FillQuantity(i)
                                                 ELSE @]
      /\ UNCHANGED <<phase, failure>>
  BY <1>2 DEF SettleFill, FillTurnover, FillCost
<1>6. UNCHANGED <<mode, session, slot, todo, batch, used, closes, equity,
                  warnings>>
  BY DEF SettleFill, marks
<1> QED BY <1>1, <1>2, <1>3, <1>4, <1>5, <1>6

\* The orders after a fill: the one in turn has grown, its siblings are
\* cancelled, the others are as they were.
LEMMA FillKept ==
    ASSUME IndInv, NEW i \in turn.waiting, SettleFill(i)
    PROVE  /\ i \in OrderIds /\ OrderIds' = OrderIds
           /\ \A j \in OrderIds : KeptOrder(j)
           /\ orders'[i].filled = orders[i].filled + FillQuantity(i)
           /\ orders'[i].status = IF FillQuantity(i) = Remaining(orders[i])
                                  THEN "FILLED" ELSE "PARTIALLY_FILLED"
           /\ \A j \in OrderIds \ {i} :
                /\ orders'[j].filled = orders[j].filled
                /\ orders'[j].triggered = orders[j].triggered
                /\ IF j \in Siblings(i) /\ Active(orders[j])
                   THEN orders'[j].status = "CANCELLED"
                   ELSE orders'[j] = orders[j]
<1> DEFINE after == AfterFill(Woken(i), FillQuantity(i), FillTurnover(i))
           more == [Woken(i) EXCEPT !.filled = @ + FillQuantity(i),
                                    !.turnover = @ + FillTurnover(i)]
           status == IF FillQuantity(i) = Remaining(Woken(i))
                     THEN "FILLED" ELSE "PARTIALLY_FILLED"
           moved == Move(Siblings(i), "CANCELLED")
<1>1. /\ i \in OrderIds /\ Active(orders[i]) /\ CanFill(i)
      /\ FillQuantity(i) \in Nat \ {0}
      /\ FillTurnover(i) \in Nat
      /\ orders' = [moved EXCEPT ![i] = after]
  BY InTurn, FillEffect DEF CanFill
<1>2. "CANCELLED" \in Status /\ status \in Status
  BY DEF Status, ActiveStatus, TerminalStatus
<1>3. /\ Woken(i) \in OrderRecord
      /\ \A field \in TermFields : Woken(i)[field] = orders[i][field]
      /\ Woken(i).filled = orders[i].filled
      /\ \/ Woken(i) = orders[i]
         \/ orders[i].type = "STOP_MARKET" /\ Woken(i).triggered
  BY WokenKeeps
<1>4. Woken(i).filled + FillQuantity(i) \in Nat
      /\ Woken(i).turnover + FillTurnover(i) \in Nat
  BY <1>1, <1>3 DEF OrderRecord
<1>5. /\ more \in OrderRecord
      /\ \A field \in TermFields : more[field] = Woken(i)[field]
      /\ more.filled = Woken(i).filled + FillQuantity(i)
      /\ more.triggered = Woken(i).triggered
  BY <1>3, <1>4 DEF OrderRecord, TermFields
<1>6. after = Transition(more, status)
  BY DEF AfterFill
<1> HIDE DEF more, after, moved, status
<1>7. /\ \A field \in TermFields : after[field] = orders[i][field]
      /\ after.filled = orders[i].filled + FillQuantity(i)
      /\ after.triggered = Woken(i).triggered
      /\ after.status = status
  BY <1>2, <1>3, <1>5, <1>6, TransitionKeeps DEF status
<1>8. status = IF FillQuantity(i) = Remaining(orders[i])
               THEN "FILLED" ELSE "PARTIALLY_FILLED"
  BY <1>3 DEF status, Remaining, TermFields
<1>9. /\ OrderIds' = OrderIds
      /\ orders'[i] = after /\ \A j \in OrderIds \ {i} : orders'[j] = moved[j]
  <2>1. moved \in Seq(OrderRecord) /\ Len(moved) = Len(orders)
    BY <1>1, <1>2, MoveKeeps DEF moved
  <2> QED BY <1>1, <2>1 DEF OrderIds, IndInv, TypeOK
<1>10. KeptOrder(i)
  BY <1>1, <1>3, <1>7, <1>9 DEF KeptOrder
<1>11. ASSUME NEW j \in OrderIds \ {i}
       PROVE  /\ KeptOrder(j)
              /\ orders'[j].filled = orders[j].filled
              /\ orders'[j].triggered = orders[j].triggered
              /\ IF j \in Siblings(i) /\ Active(orders[j])
                 THEN orders'[j].status = "CANCELLED"
                 ELSE orders'[j] = orders[j]
  <2>1. /\ \A field \in TermFields : moved[j][field] = orders[j][field]
        /\ moved[j].filled = orders[j].filled
        /\ moved[j].triggered = orders[j].triggered
        /\ IF j \in Siblings(i) /\ Active(orders[j])
           THEN moved[j].status = "CANCELLED" ELSE moved[j] = orders[j]
    BY <1>2, MoveKeeps DEF moved
  <2>2. orders'[j] = moved[j]
    BY <1>9
  <2> QED BY <1>9, <2>1, <2>2 DEF KeptOrder
<1> QED BY <1>1, <1>7, <1>8, <1>9, <1>10, <1>11

\* What the forced exit of a symbol asks for.
ExitIntent(s) == [symbol |-> s, side |-> "SELL", quantity |-> Held(s),
                  type |-> "MARKET", price |-> 0, group |-> NoGroup]

\* A forced exit: the symbol's orders are cancelled, and one is added.
LEMMA LiquidateEffect ==
    ASSUME IndInv, NEW s \in Symbols, Liquidate(s)
    PROVE  /\ phase = "barOpen" /\ s \in todo /\ slot = Cutoff /\ Held(s) > 0
           /\ ExitIntent(s) \in IntentType
           /\ todo' = todo \ {s}
           /\ phase' = IF todo' = {} THEN "inside" ELSE "barOpen"
           /\ UNCHANGED <<mode, session, slot, turn, batch, used, fills, account,
                          positions, closes, equity, failure>>
           /\ Len(orders) + 1 \notin OrderIds
           /\ OrderIds' = OrderIds \cup {Len(orders) + 1}
           /\ orders'[Len(orders) + 1]
                = NewOrder(ForcedReference, ExitIntent(s), TRUE)
           /\ \A i \in OrderIds :
                /\ KeptOrder(i)
                /\ orders'[i].filled = orders[i].filled
                /\ orders'[i].triggered = orders[i].triggered
                /\ IF orders[i].symbol = s /\ Active(orders[i])
                   THEN orders'[i].status = "CANCELLED"
                   ELSE orders'[i] = orders[i]
<1> DEFINE moved == Move(OrdersOf(s), "CANCELLED")
<1>1. /\ phase = "barOpen" /\ s \in todo /\ slot = Cutoff /\ Held(s) > 0
      /\ orders' = Append(moved, NewOrder(ForcedReference, ExitIntent(s), TRUE))
      /\ todo' = todo \ {s}
      /\ phase' = IF todo' = {} THEN "inside" ELSE "barOpen"
      /\ UNCHANGED <<mode, session, slot, turn, batch, used, fills, account,
                     positions, closes, equity, failure>>
  BY DEF Liquidate, Opened, ExitIntent, books, marks
<1>2. ExitIntent(s) \in IntentType
  <2>1. Held(s) \in Nat \ {0}
    BY <1>1 DEF IndInv, TypeOK, Held, PositionRecord
  <2> QED BY <2>1 DEF ExitIntent, IntentType, Side, OrderType
<1>3. "CANCELLED" \in Status
  BY DEF Status, TerminalStatus
<1>4. moved \in Seq(OrderRecord) /\ Len(moved) = Len(orders)
  BY <1>3, MoveType DEF IndInv, TypeOK
<1>5. ASSUME NEW i \in OrderIds
      PROVE  /\ \A field \in TermFields : moved[i][field] = orders[i][field]
             /\ moved[i].filled = orders[i].filled
             /\ moved[i].triggered = orders[i].triggered
             /\ IF orders[i].symbol = s /\ Active(orders[i])
                THEN moved[i].status = "CANCELLED"
                ELSE moved[i] = orders[i]
  BY <1>3, MoveKeeps DEF OrdersOf
<1> HIDE DEF moved
<1>6. /\ Len(orders) + 1 \notin OrderIds
      /\ OrderIds' = OrderIds \cup {Len(orders) + 1}
      /\ orders'[Len(orders) + 1]
           = NewOrder(ForcedReference, ExitIntent(s), TRUE)
      /\ \A i \in OrderIds : orders'[i] = moved[i]
  BY <1>1, <1>4, Added
<1> QED BY <1>1, <1>2, <1>5, <1>6 DEF KeptOrder

\* A decision or a request of the strategy adds one order.
Places(reference, intent) ==
    /\ Decide \/ ApplyTrade
    /\ orders' = Append(orders, NewOrder(reference, intent, FALSE))

\* A decision appends one order and touches nothing else of the engine.
LEMMA PlacesEffect ==
    ASSUME IndInv, Decide \/ ApplyTrade
    PROVE  /\ phase \in {"decide", "inside", "apply"}
           /\ UNCHANGED <<mode, session, slot, phase, todo, turn, fills, account,
                          positions, closes, equity, failure>>
           /\ Len(orders) + 1 \notin OrderIds
           /\ OrderIds' = OrderIds \cup {Len(orders) + 1}
           /\ \A i \in OrderIds : orders'[i] = orders[i]
           /\ \E reference \in References, intent \in IntentType :
                /\ Places(reference, intent)
                /\ orders'[Len(orders) + 1] = NewOrder(reference, intent, FALSE)
<1>1. /\ phase \in {"decide", "inside", "apply"}
      /\ UNCHANGED <<mode, session, slot, phase, todo, turn, fills, account,
                     positions, closes, equity, failure>>
  BY DEF Decide, ApplyTrade, clock, books, marks
<1>2. PICK reference \in References, intent \in IntentType :
         orders' = Append(orders, NewOrder(reference, intent, FALSE))
  <2>1. CASE Decide
    BY <2>1, Constants DEF Decide
  <2>2. CASE ApplyTrade
    <3>1. Head(batch) \in RequestRecord /\ Head(batch).kind = "trade"
      BY <2>2 DEF IndInv, TypeOK, ApplyTrade
    <3>2. Head(batch).reference \in References /\ Head(batch).intent \in IntentType
      BY <3>1 DEF RequestRecord
    <3> QED BY <2>2, <3>2 DEF ApplyTrade
  <2> QED BY <2>1, <2>2
<1>3. orders \in Seq(OrderRecord) /\ intent \in IntentType
  BY Constants DEF IndInv, TypeOK
<1>4. /\ Len(orders) + 1 \notin OrderIds
      /\ OrderIds' = OrderIds \cup {Len(orders) + 1}
      /\ orders'[Len(orders) + 1] = NewOrder(reference, intent, FALSE)
      /\ \A i \in OrderIds : orders'[i] = orders[i]
  BY <1>2, <1>3, Added
<1> QED BY <1>1, <1>2, <1>3, <1>4 DEF Places

\* The other steps keep the orders there are and add none.
LEMMA OtherKept ==
    ASSUME IndInv, [AnyNext]_vars,
           ~(Decide \/ ApplyTrade), ~(\E s \in Symbols : Liquidate(s))
    PROVE  OrderIds' = OrderIds /\ \A i \in OrderIds : KeptOrder(i)
<1>1. CASE UNCHANGED orders
  BY <1>1, SameKept DEF OrderIds
<1>2. ASSUME NEW i \in turn.waiting, SettleDry(i)
      PROVE  OrderIds' = OrderIds /\ \A j \in OrderIds : KeptOrder(j)
  <2>1. CanFill(i) /\ orders' = [orders EXCEPT ![i] = Woken(i)]
    BY <1>2 DEF SettleDry
  <2> QED BY <2>1, WokenKeeps, ReplaceKept
<1>3. ASSUME NEW i \in turn.waiting, SettleReject(i)
      PROVE  OrderIds' = OrderIds /\ \A j \in OrderIds : KeptOrder(j)
  <2> DEFINE order == Transition(Woken(i), "REJECTED")
  <2>1. CanFill(i) /\ orders' = [orders EXCEPT ![i] = order]
    BY <1>3 DEF SettleReject
  <2>2. "REJECTED" \in Status
    BY DEF Status, TerminalStatus
  <2>3. /\ \A field \in TermFields : order[field] = Woken(i)[field]
        /\ order.filled = orders[i].filled
        /\ order.triggered = Woken(i).triggered
    BY <2>2, WokenKeeps, TransitionKeeps
  <2> HIDE DEF order
  <2> QED BY <2>1, <2>3, ReplaceKept
<1>4. ASSUME NEW i \in turn.waiting, SettleFill(i)
      PROVE  OrderIds' = OrderIds /\ \A j \in OrderIds : KeptOrder(j)
  BY <1>4, FillKept
<1>5. CASE ApplyCancel
  <2>1. "CANCELLED" \in Status
    BY DEF Status, TerminalStatus
  <2>2. PICK ids : orders' = Move(ids, "CANCELLED")
    BY <1>5 DEF ApplyCancel
  <2> QED BY <2>1, <2>2, MoveKept, MoveOrders DEF IndInv, TypeOK
<1>6. CASE SessionClose
  <2>1. "EXPIRED" \in Status
    BY DEF Status, TerminalStatus
  <2>2. orders' = Move(OrderIds, "EXPIRED")
    BY <1>6 DEF SessionClose, Expired
  <2> QED BY <2>1, <2>2, MoveKept, MoveOrders DEF IndInv, TypeOK
<1>7. CASE \/ StartOpenings \/ \E s \in Symbols : BarOpen(s) \/ BeginBar(s)
           \/ EndSlot \/ \E i \in turn.waiting : SettleSkip(i)
           \/ EndBar \/ CallStrategy \/ AnyEvaluate \/ EndApply \/ UNCHANGED vars
  BY <1>1, <1>7 DEF StartOpenings, BarOpen, BeginBar, EndSlot, SettleSkip,
                    EndBar, CallStrategy, AnyEvaluate, EndApply, vars
<1> QED BY <1>2, <1>3, <1>4, <1>5, <1>6, <1>7
           DEF AnyNext, AnyStep, Loop, SettleOne, Ended

\* No step loses an order, changes its terms, or changes a finished one.
LEMMA StepKeeps ==
    ASSUME IndInv, [AnyNext]_vars
    PROVE  \A i \in OrderIds : KeptOrder(i)
<1>1. CASE Decide \/ ApplyTrade
  BY <1>1, PlacesEffect DEF KeptOrder
<1>2. CASE \E s \in Symbols : Liquidate(s)
  BY <1>2, LiquidateEffect
<1> QED BY <1>1, <1>2, OtherKept

LEMMA AnyFinishedStay == AnySpec => TerminalFrozen
<1>1. IndInv /\ [AnyNext]_vars
        => [\A i \in OrderIds :
              /\ i \in DOMAIN orders'
              /\ ~Active(orders[i]) => orders'[i] = orders[i]]_vars
  BY StepKeeps DEF KeptOrder, OrderIds
<1> QED BY <1>1, Inductive, PTL DEF AnySpec, TerminalFrozen

\* An order that is filled, cancelled, rejected or expired never changes
\* again, and no order is ever lost: neither the settling loop, nor a
\* cancellation by name, nor the close of a session reaches back to it.
THEOREM FinishedOrdersStay == Spec => TerminalFrozen
  BY AnyFinishedStay, SpecIsAny, PTL

(***************************************************************************)
(* Days and times.                                                         *)
(***************************************************************************)

\* A later candle opens later.
LEMMA LaterOpening ==
    ASSUME NEW j \in Int, NEW k \in Int, j <= k
    PROVE  OpeningTime(j) \in Int /\ OpeningTime(j) <= OpeningTime(k)
  BY DEF OpeningTime

\* It is never earlier than the opening of the slot.
LEMMA NowLate ==
    ASSUME slot \in 1..Slots
    PROVE  Now \in Nat /\ OpeningTime(slot) \in Nat /\ OpeningTime(slot) <= Now
<1>1. slot \in Nat \ {0}
  BY Constants
<1> QED BY <1>1 DEF Now, OpeningTime

\* The clock moves on within the session, but for the session's close.
LEMMA StepClock ==
    ASSUME IndInv, [AnyNext]_vars
    PROVE  \/ session' = session /\ slot' \in 1..Slots /\ slot <= slot'
           \/ SessionClose
<1> SUFFICES ASSUME ~SessionClose
             PROVE  session' = session /\ slot' \in 1..Slots /\ slot <= slot'
  OBVIOUS
<1>1. slot \in 1..Slots /\ Slots \in Nat
  BY Constants DEF IndInv, TypeOK
<1>2. CASE UNCHANGED <<session, slot>>
  BY <1>1, <1>2
<1>3. CASE EndBar \/ EndApply
  BY <1>1, <1>3 DEF EndBar, EndApply, Leave
<1>4. UNCHANGED <<session, slot>> \/ EndBar \/ EndApply
  BY DEF AnyNext, AnyStep, Loop, SettleOne, Ended, Decide, StartOpenings, BarOpen,
         Liquidate, EndSlot, BeginBar, SettleSkip, SettleDry, SettleReject,
         SettleFill, CallStrategy, AnyEvaluate, ApplyTrade, ApplyCancel, clock,
         vars
<1> QED BY <1>2, <1>3, <1>4

\* The terms of a new order.
LEMMA NewOrderTerms ==
    ASSUME IndInv, NEW reference \in References \cup {ForcedReference},
           NEW intent \in IntentType, NEW forced \in BOOLEAN
    PROVE  LET order == NewOrder(reference, intent, forced)
           IN  /\ order \in OrderRecord
               /\ order.reference = reference /\ order.symbol = intent.symbol
               /\ order.side = intent.side /\ order.quantity = intent.quantity
               /\ order.type = intent.type /\ order.group = intent.group
               /\ order.day = session /\ order.created = Now
               /\ order.forced = forced
               /\ order.eligible = IF forced THEN OpeningFrom(Now)
                                             ELSE OpeningAfter(Now)
               /\ ~order.triggered /\ order.filled = 0
               /\ ~forced /\ Now >= OpeningTime(Cutoff) => ~Active(order)
               /\ forced /\ order.quantity <= Held(order.symbol) => Active(order)
<1>1. session \in Nat \ {0} /\ slot \in 1..Slots /\ intent.symbol \in Symbols
  BY Constants DEF IndInv, TypeOK, IntentType
<1>2. NewOrder(reference, intent, forced) \in OrderRecord
  BY <1>1, NewOrderType
<1>3. Held(intent.symbol) \in Nat /\ intent.quantity \in Nat
  BY <1>1 DEF IndInv, TypeOK, Held, PositionRecord, IntentType
<1> HIDE DEF Now
<1> QED BY <1>2, <1>3 DEF NewOrder, Active, ActiveStatus

\* An order that a strategy places is created now, for today.
LEMMA PlacedTimed ==
    ASSUME IndInv, NEW reference \in References, NEW intent \in IntentType
    PROVE  TimedOrder(NewOrder(reference, intent, FALSE), session, slot)
<1> DEFINE order == NewOrder(reference, intent, FALSE)
<1>1. session \in Nat
  BY Constants DEF IndInv, TypeOK
<1>2. /\ order.reference = reference /\ order.day = session
      /\ order.created = Now /\ ~order.forced
      /\ order.eligible = OpeningAfter(Now)
      /\ ~order.triggered /\ order.filled = 0
  BY NewOrderTerms
<1>4. order.quantity \in Nat \ {0}
  <2>1. order \in OrderRecord
    BY NewOrderTerms
  <2> QED BY <2>1 DEF OrderRecord
<1> HIDE DEF order, Now
<1>3. TimedOrder(order, session, slot)
  BY <1>1, <1>2, <1>4 DEF TimedOrder
<1> QED BY <1>3 DEF order

\* A forced exit is made at the cutoff opening, for the candle it opens.
LEMMA ForcedTimed ==
    ASSUME IndInv, NEW s \in Symbols, Liquidate(s)
    PROVE  TimedOrder(NewOrder(ForcedReference, ExitIntent(s), TRUE), session,
                      slot)
<1> DEFINE order == NewOrder(ForcedReference, ExitIntent(s), TRUE)
<1>1. session \in Nat /\ Cutoff \in Nat \ {0}
  BY Constants, CutoffType DEF IndInv, TypeOK
<1>2. Now = OpeningTime(Cutoff)
  BY LiquidateEffect DEF Now
<1>3. OpeningFrom(OpeningTime(Cutoff)) = Cutoff
  BY <1>1 DEF OpeningFrom, OpeningTime
<1>4. /\ order.reference = ForcedReference /\ order.day = session
      /\ order.created = Now /\ order.forced /\ order.group = NoGroup
      /\ order.eligible = OpeningFrom(Now)
      /\ ~order.triggered /\ order.filled = 0
  <2>1. ExitIntent(s) \in IntentType /\ ExitIntent(s).group = NoGroup
    BY LiquidateEffect DEF ExitIntent
  <2>2. order.forced = TRUE /\ order.eligible = OpeningFrom(Now)
    BY <2>1, NewOrderTerms
  <2>3. order.reference = ForcedReference /\ order.day = session
    BY <2>1, NewOrderTerms
  <2>4. order.created = Now /\ ~order.triggered /\ order.filled = 0
    BY <2>1, NewOrderTerms
  <2>5. order.group = NoGroup
    <3>1. order.group = ExitIntent(s).group
      BY DEF NewOrder
    <3> QED BY <2>1, <3>1
  <2> QED BY <2>2, <2>3, <2>4, <2>5
<1>6. order.quantity \in Nat \ {0}
  <2>1. order \in OrderRecord
    BY LiquidateEffect, NewOrderTerms
  <2> QED BY <2>1 DEF OrderRecord
<1> HIDE DEF order, Now
<1>5. TimedOrder(order, session, slot)
  BY <1>1, <1>2, <1>3, <1>4, <1>6 DEF TimedOrder
<1> QED BY <1>5 DEF order

\* A fill is made by an order of an earlier candle, or by the forced exit.
LEMMA EligibleBegun ==
    ASSUME IndInv, NEW order \in OrderRecord, TimedOrder(order, session, slot),
           order.eligible <= slot
    PROVE  /\ ~order.forced => order.created < OpeningTime(slot)
           /\ order.forced => order.created <= OpeningTime(slot)
<1>1. slot \in Nat /\ Cutoff \in Nat /\ order.created \in Nat
  BY Constants, CutoffType DEF IndInv, TypeOK, OrderRecord
<1>2. ~order.forced => OpeningAfter(order.created) <= slot
  BY DEF TimedOrder
<1>3. order.forced => order.created = OpeningTime(Cutoff) /\ Cutoff <= slot
  BY DEF TimedOrder
<1> QED BY <1>1, <1>2, <1>3 DEF OpeningAfter, OpeningTime

\* An order that a step keeps stays timed.
LEMMA KeptTimed ==
    ASSUME IndInv, IndInv', [AnyNext]_vars, InCandle,
           NEW i \in OrderIds, TimedOrder(orders[i], session, slot)
    PROVE  TimedOrder(orders'[i], session', slot')
<1> DEFINE old == orders[i]
           new == orders'[i]
<1>1. /\ KeptOrder(i) /\ old \in OrderRecord /\ new \in OrderRecord
      /\ session \in Nat /\ session' \in Nat /\ slot \in Nat /\ slot' \in Nat
      /\ TimedOrder(old, session, slot)
  <2>1. KeptOrder(i) /\ i \in OrderIds'
    BY StepKeeps DEF KeptOrder
  <2>2. orders \in Seq(OrderRecord) /\ orders' \in Seq(OrderRecord)
    BY DEF IndInv, TypeOK
  <2>3. old \in OrderRecord /\ new \in OrderRecord
    BY <2>1, <2>2 DEF OrderIds
  <2> QED BY <2>1, <2>3, Constants DEF IndInv, TypeOK
<1>2. /\ new.day = old.day /\ new.created = old.created
      /\ new.forced = old.forced /\ new.eligible = old.eligible
      /\ new.reference = old.reference /\ new.type = old.type
      /\ new.group = old.group
  BY <1>1 DEF KeptOrder, TermFields
<1>3. new.triggered => new.type = "STOP_MARKET"
  BY <1>1, <1>2 DEF KeptOrder, TimedOrder
<1>8. Active(new) => new.filled < new.quantity
  <2>1. CASE new.filled = old.filled
    BY <1>1, <2>1 DEF KeptOrder, TermFields, TimedOrder
  <2>2. CASE i \in turn.waiting /\ SettleFill(i)
    <3>1. /\ new.quantity = old.quantity
          /\ new.filled = old.filled + FillQuantity(i)
          /\ Active(new) => FillQuantity(i) # Remaining(old)
      BY <1>1, <2>2, FillKept DEF KeptOrder, TermFields, Active, ActiveStatus
    <3>2. /\ FillQuantity(i) \in Nat /\ FillQuantity(i) <= Remaining(old)
          /\ old.quantity \in Nat /\ old.filled \in Nat
      BY <2>2, FillEffect, OrderFacts
    <3> HIDE DEF old, new
    <3> QED BY <3>1, <3>2 DEF Remaining
  <2> QED BY <1>1, <2>1, <2>2 DEF KeptOrder
<1>4. /\ old.day \in Nat /\ old.created \in Nat
      /\ OpeningTime(slot) \in Int /\ OpeningTime(slot') \in Int
  BY <1>1 DEF OrderRecord, OpeningTime
<1>5. ~new.forced /\ new.filled > 0 => Begun(old, session, slot)
  <2>1. CASE new.filled = old.filled
    BY <1>2, <2>1 DEF TimedOrder
  <2>2. CASE i \in turn.waiting /\ SettleFill(i)
    <3>1. Active(old) /\ old.eligible <= slot
      BY <2>2, FillEffect DEF InCandle
    <3> QED BY <1>1, <1>2, <3>1, EligibleBegun DEF TimedOrder, Begun
  <2> QED BY <1>1, <2>1, <2>2 DEF KeptOrder
<1>6. CASE session' = session /\ slot' \in 1..Slots /\ slot <= slot'
  <2>1. OpeningTime(slot) <= OpeningTime(slot')
    BY <1>1, <1>6, LaterOpening
  <2>2. Begun(old, session, slot) => Begun(new, session', slot')
    <3> HIDE DEF old, new
    <3> QED BY <1>2, <1>4, <1>6, <2>1 DEF Begun
  <2>3. Active(new) => Active(old)
    BY <1>1 DEF KeptOrder
  <2> HIDE DEF old, new
  <2>4. TimedOrder(new, session', slot')
    BY <1>1, <1>2, <1>3, <1>4, <1>5, <1>6, <1>8, <2>2, <2>3 DEF TimedOrder
  <2> QED BY <2>4 DEF new
<1>7. CASE SessionClose
  <2>1. session <= session' /\ (session' = session => slot' = slot)
    BY <1>1, <1>7 DEF SessionClose, Fail
  <2>2. ~Active(new)
    <3>1. "EXPIRED" \in Status
      BY DEF Status, TerminalStatus
    <3>2. orders' = Move(OrderIds, "EXPIRED")
      BY <1>7 DEF SessionClose, Expired
    <3> QED BY <3>1, <3>2, MoveKeeps DEF Active, ActiveStatus
  <2>3. Begun(old, session, slot) => Begun(new, session', slot')
    <3> HIDE DEF old, new
    <3> QED BY <1>1, <1>2, <1>4, <2>1 DEF Begun
  <2> HIDE DEF old, new
  <2>4. TimedOrder(new, session', slot')
    BY <1>1, <1>2, <1>3, <1>4, <1>5, <2>1, <2>2, <2>3 DEF TimedOrder
  <2> QED BY <2>4 DEF new
<1> QED BY <1>6, <1>7, StepClock

\* Orders stay in time.
LEMMA StepTimed ==
    IndInv /\ IndInv' /\ [AnyNext]_vars /\ Timed /\ InCandle => Timed'
<1> SUFFICES ASSUME IndInv, IndInv', [AnyNext]_vars, Timed, InCandle
             PROVE  Timed'
  OBVIOUS
<1>1. ASSUME NEW i \in OrderIds PROVE TimedOrder(orders'[i], session', slot')
  BY <1>1, KeptTimed DEF Timed
<1>2. CASE Decide \/ ApplyTrade
  <2>1. PICK reference \in References, intent \in IntentType :
           orders'[Len(orders) + 1] = NewOrder(reference, intent, FALSE)
    BY <1>2, PlacesEffect
  <2>2. UNCHANGED <<session, slot>> /\ OrderIds' = OrderIds \cup {Len(orders) + 1}
    BY <1>2, PlacesEffect
  <2>3. TimedOrder(orders'[Len(orders) + 1], session, slot)
    BY <2>1, PlacedTimed
  <2>4. ASSUME NEW i \in OrderIds', i = Len(orders) + 1
        PROVE  TimedOrder(orders'[i], session', slot')
    BY <2>2, <2>3, <2>4
  <2> QED BY <1>1, <2>2, <2>4 DEF Timed
<1>3. ASSUME NEW s \in Symbols, Liquidate(s) PROVE Timed'
  <2>1. /\ UNCHANGED <<session, slot>>
        /\ OrderIds' = OrderIds \cup {Len(orders) + 1}
        /\ orders'[Len(orders) + 1]
             = NewOrder(ForcedReference, ExitIntent(s), TRUE)
    BY <1>3, LiquidateEffect
  <2>2. TimedOrder(orders'[Len(orders) + 1], session, slot)
    BY <1>3, <2>1, ForcedTimed
  <2>3. ASSUME NEW i \in OrderIds', i = Len(orders) + 1
        PROVE  TimedOrder(orders'[i], session', slot')
    BY <2>1, <2>2, <2>3
  <2> QED BY <1>1, <2>1, <2>3 DEF Timed
<1>4. CASE ~(Decide \/ ApplyTrade) /\ ~(\E s \in Symbols : Liquidate(s))
  BY <1>1, <1>4, OtherKept DEF Timed
<1> QED BY <1>2, <1>3, <1>4

(***************************************************************************)
(* The candle being settled.                                               *)
(***************************************************************************)

\* A step within the candle, or outside any, that settles no order.
LEMMA QuietCandle ==
    ASSUME IndInv, [AnyNext]_vars, InCandle, UNCHANGED <<turn, fills, slot>>,
           phase' \notin {"settle", "strategy", "apply", "failed"} => fills = {},
           phase' # "settle" => turn.waiting = {}
    PROVE  InCandle'
<1>1. turn.waiting \subseteq OrderIds /\ \A f \in fills : f.order \in OrderIds
  BY DEF IndInv, TypeOK
<1>2. ASSUME NEW i \in OrderIds
      PROVE  /\ orders'[i].symbol = orders[i].symbol
             /\ orders'[i].eligible = orders[i].eligible
             /\ orders'[i].forced = orders[i].forced
  BY <1>2, StepKeeps DEF KeptOrder, TermFields
<1>3. /\ \A i \in turn.waiting :
           /\ orders'[i].symbol = turn.symbol
           /\ orders'[i].eligible <= slot
           /\ orders'[i].forced \/ slot < Cutoff
      /\ \A f \in fills : /\ orders'[f.order].symbol = turn.symbol
                          /\ orders'[f.order].eligible <= slot
                          /\ f.order \notin turn.waiting
  BY <1>1, <1>2 DEF InCandle
<1> QED BY <1>3 DEF InCandle

\* The settling loop visits one order, and may add a fill of it.
LEMMA VisitCandle ==
    ASSUME IndInv, [AnyNext]_vars, InCandle, NEW i \in turn.waiting,
           UNCHANGED <<phase, slot>>,
           turn'.symbol = turn.symbol, turn'.waiting = turn.waiting \ {i},
           \A f \in fills' : f \in fills \/ f.order = i
    PROVE  InCandle'
<1>1. turn.waiting \subseteq OrderIds /\ \A f \in fills : f.order \in OrderIds
  BY DEF IndInv, TypeOK
<1>2. ASSUME NEW j \in OrderIds
      PROVE  /\ orders'[j].symbol = orders[j].symbol
             /\ orders'[j].eligible = orders[j].eligible
             /\ orders'[j].forced = orders[j].forced
  BY <1>2, StepKeeps DEF KeptOrder, TermFields
<1>3. phase = "settle"
  BY DEF InCandle
<1>4. /\ \A j \in turn.waiting :
           /\ orders'[j].symbol = turn.symbol
           /\ orders'[j].eligible <= slot
           /\ orders'[j].forced \/ slot < Cutoff
      /\ \A f \in fills' : /\ orders'[f.order].symbol = turn.symbol
                           /\ orders'[f.order].eligible <= slot
                           /\ f.order \notin turn.waiting \ {i}
  BY <1>1, <1>2 DEF InCandle
<1> QED BY <1>3, <1>4 DEF InCandle

\* A turn stays with its candle.
LEMMA StepCandle ==
    IndInv /\ IndInv' /\ [AnyNext]_vars /\ InCandle => InCandle'
<1> SUFFICES ASSUME IndInv, IndInv', [AnyNext]_vars, InCandle PROVE InCandle'
  OBVIOUS
<1>1. CASE Decide \/ ApplyTrade
  BY <1>1, PlacesEffect, QuietCandle DEF InCandle
<1>2. CASE StartOpenings \/ EndSlot \/ \E s \in Symbols : BarOpen(s)
  BY <1>2, QuietCandle DEF InCandle, StartOpenings, EndSlot, BarOpen, Opened
<1>3. CASE \E s \in Symbols : Liquidate(s)
  BY <1>3, LiquidateEffect, QuietCandle DEF InCandle
<1>4. CASE CallStrategy \/ AnyEvaluate \/ ApplyCancel
  BY <1>4, QuietCandle
     DEF InCandle, CallStrategy, AnyEvaluate, ApplyCancel, Deliver, Raise, Fail,
         clock
<1>5. CASE SessionClose
  <2>1. turn'.waiting = {} /\ fills' = {}
    BY <1>5 DEF InCandle, SessionClose
  <2>2. phase' # "settle"
    BY <1>5 DEF SessionClose, Fail
  <2> QED BY <2>1, <2>2 DEF InCandle
<1>6. ASSUME NEW s \in Symbols, BeginBar(s) PROVE InCandle'
  <2>1. PICK bar \in Bars :
           /\ turn'.symbol = s /\ turn'.waiting \subseteq Eligible(s)
           /\ fills' = {} /\ phase' = "settle" /\ UNCHANGED <<slot, orders>>
    BY <1>6 DEF BeginBar
  <2>2. \A i \in turn'.waiting :
           /\ orders'[i].symbol = turn'.symbol
           /\ orders'[i].eligible <= slot'
           /\ orders'[i].forced \/ slot' < Cutoff
    BY <2>1 DEF Eligible, OrdersOf
  <2> QED BY <2>1, <2>2 DEF InCandle
<1>7. ASSUME NEW i \in turn.waiting,
             SettleSkip(i) \/ SettleDry(i) \/ SettleReject(i)
      PROVE  InCandle'
  <2>1. UNCHANGED <<phase, slot, fills>> /\ turn' = [turn EXCEPT !.waiting = @ \ {i}]
    BY <1>7 DEF SettleSkip, SettleDry, SettleReject, Visited, clock
  <2>2. turn'.symbol = turn.symbol /\ turn'.waiting = turn.waiting \ {i}
    BY <2>1 DEF IndInv, TypeOK, TurnRecord
  <2> QED BY <2>1, <2>2, VisitCandle
<1>8. ASSUME NEW i \in turn.waiting, SettleFill(i) PROVE InCandle'
  <2>1. /\ UNCHANGED <<phase, slot>>
        /\ fills' = fills \cup {[order |-> i, quantity |-> FillQuantity(i),
                                 price |-> Price(i)]}
        /\ turn' = [turn EXCEPT !.waiting = @ \ {i},
                      !.capacity = IF Participates THEN @ - FillQuantity(i)
                                                   ELSE @]
    BY <1>8, FillEffect
  <2>2. turn'.symbol = turn.symbol /\ turn'.waiting = turn.waiting \ {i}
    BY <2>1 DEF IndInv, TypeOK, TurnRecord
  <2>3. \A f \in fills' : f \in fills \/ f.order = i
    BY <2>1
  <2> QED BY <2>1, <2>2, <2>3, VisitCandle
<1>9. CASE EndBar \/ EndApply
  <2>1. fills' = {} /\ turn'.waiting = {} /\ phase' # "settle"
    BY <1>9, NoTurnType DEF EndBar, EndApply, Leave
  <2> QED BY <2>1 DEF InCandle
<1>10. CASE UNCHANGED vars
  BY <1>10, QuietCandle DEF InCandle, vars
<1> QED BY <1>1, <1>2, <1>3, <1>4, <1>5, <1>6, <1>7, <1>8, <1>9, <1>10
           DEF AnyNext, AnyStep, Loop, SettleOne, Ended

\* Both hold throughout.
LEMMA CandleInvariant == AnySpec => [](IndInv /\ Timed /\ InCandle)
<1>1. Init => IndInv /\ Timed /\ InCandle
  BY InitType, NoTurnType DEF Init, Timed, InCandle, OrderIds
<1>2. IndInv /\ IndInv' /\ [AnyNext]_vars /\ Timed /\ InCandle
        => Timed' /\ InCandle'
  BY StepTimed, StepCandle
<1> QED BY <1>1, <1>2, Inductive, PTL DEF AnySpec

LEMMA AnyLiveOneDay == AnySpec => []DayOrders
<1>1. Timed => DayOrders
  BY DEF Timed, TimedOrder, DayOrders
<1> QED BY CandleInvariant, <1>1, PTL

\* An order lives in the session it was made in: the close of the session
\* expires it, also when it is partly filled, and nothing revives it.
THEOREM OrdersLiveOneDay == Spec => []DayOrders
  BY AnyLiveOneDay, SpecIsAny, PTL

LEMMA AnyNoHindsight == AnySpec => []NoLookahead
<1>1. IndInv /\ Timed /\ InCandle => NoLookahead
  <2> SUFFICES ASSUME IndInv, Timed, InCandle, NEW f \in fills
               PROVE  \/ orders[f.order].created < OpeningTime(slot)
                      \/ /\ orders[f.order].forced
                         /\ orders[f.order].created = OpeningTime(slot)
    BY DEF NoLookahead
  <2> DEFINE order == orders[f.order]
  <2>1. /\ order \in OrderRecord /\ TimedOrder(order, session, slot)
        /\ order.eligible <= slot
    BY DEF IndInv, TypeOK, OrderIds, Timed, InCandle
  <2>2. /\ ~order.forced => order.created < OpeningTime(slot)
        /\ order.forced => order.created <= OpeningTime(slot)
    BY <2>1, EligibleBegun
  <2>3. order.created \in Nat /\ OpeningTime(slot) \in Nat
    BY <2>1, NowLate DEF OrderRecord, IndInv, TypeOK
  <2> HIDE DEF order
  <2>4. \/ order.created < OpeningTime(slot)
        \/ order.forced /\ order.created = OpeningTime(slot)
    BY <2>2, <2>3
  <2> QED BY <2>4 DEF order
<1> QED BY CandleInvariant, <1>1, PTL

\* No order fills in a candle that had opened when the order was made,
\* whatever the script or the strategy, which knows the candle, asks for.
THEOREM NoFillFromHindsight == Spec => []NoLookahead
  BY AnyNoHindsight, SpecIsAny, PTL

(***************************************************************************)
(* Orders of one OCO group.                                                *)
(***************************************************************************)

\* A new order has no rival that has already filled: what could be its rival
\* was made at this very instant, and nothing made now has filled.
LEMMA NewHasNoSpentRival ==
    ASSUME IndInv, Timed, NEW i \in OrderIds, orders[i].filled > 0,
           orders[i].group # NoGroup, orders[i].day = session,
           orders[i].created = Now
    PROVE  FALSE
<1> DEFINE order == orders[i]
<1>1. /\ order \in OrderRecord /\ TimedOrder(order, session, slot)
      /\ session \in Nat
  BY Constants DEF IndInv, TypeOK, OrderIds, Timed
<1>2. ~order.forced
  BY <1>1 DEF TimedOrder
<1>3. order.created < OpeningTime(slot)
  BY <1>1, <1>2 DEF TimedOrder, Begun
<1>4. Now \in Nat /\ OpeningTime(slot) \in Nat /\ OpeningTime(slot) <= Now
  BY NowLate DEF IndInv, TypeOK
<1> HIDE DEF Now
<1> QED BY <1>3, <1>4

\* When an exit has executed, its rivals stay spent.
LEMMA StepRivals ==
    IndInv /\ IndInv' /\ [AnyNext]_vars /\ Timed /\ InCandle /\ RivalsSpent
      => RivalsSpent'
<1> SUFFICES ASSUME IndInv, IndInv', [AnyNext]_vars, Timed, InCandle, RivalsSpent,
                    NEW i \in OrderIds', NEW j \in OrderIds',
                    Rivals(i, j)', orders'[i].filled > 0
             PROVE  ~Active(orders'[j]) /\ orders'[j].filled = 0
  BY DEF RivalsSpent
<1>1. CASE i \in OrderIds /\ j \in OrderIds
  <2>1. /\ KeptOrder(i) /\ KeptOrder(j)
        /\ orders[i].filled \in Nat /\ orders[j].filled \in Nat
    BY <1>1, StepKeeps, OrderFacts
  <2>2. Rivals(i, j) /\ Rivals(j, i)
    BY <1>1, <2>1 DEF Rivals, KeptOrder, TermFields
  <2>3. CASE orders[i].filled > 0
    <3>1. ~Active(orders[j]) /\ orders[j].filled = 0
      BY <1>1, <2>2, <2>3 DEF RivalsSpent
    <3> QED BY <2>1, <3>1 DEF KeptOrder
  <2>4. CASE orders[i].filled = 0
    <3>1. i \in turn.waiting /\ SettleFill(i)
      BY <2>1, <2>4 DEF KeptOrder
    <3>2. Active(orders[i]) /\ orders[i].symbol = turn.symbol
      BY <3>1, FillEffect DEF InCandle
    <3>3. orders[j].filled = 0
      BY <1>1, <2>1, <2>2, <3>2 DEF RivalsSpent
    <3>4. j \in Siblings(i) /\ j # i
      BY <1>1, <2>2, <3>2 DEF Rivals, Siblings, OrdersOf
    <3>5. /\ orders'[j].filled = orders[j].filled
          /\ IF Active(orders[j]) THEN orders'[j].status = "CANCELLED"
                                  ELSE orders'[j] = orders[j]
      BY <1>1, <3>1, <3>4, FillKept
    <3> QED BY <3>3, <3>5 DEF Active, ActiveStatus
  <2> QED BY <2>1, <2>3, <2>4
<1>2. CASE ~(i \in OrderIds /\ j \in OrderIds)
  <2> DEFINE n == Len(orders) + 1
  <2>1. CASE Decide \/ ApplyTrade
    <3>1. PICK reference \in References, intent \in IntentType :
             orders'[n] = NewOrder(reference, intent, FALSE)
      BY <2>1, PlacesEffect
    <3>2. /\ OrderIds' = OrderIds \cup {n} /\ n \notin OrderIds
          /\ \A k \in OrderIds : orders'[k] = orders[k]
      BY <2>1, PlacesEffect
    <3>3. /\ orders'[n].filled = 0 /\ orders'[n].day = session
          /\ orders'[n].created = Now
      <4>1. intent \in IntentType /\ FALSE \in BOOLEAN
        BY <3>1
      <4>2. /\ NewOrder(reference, intent, FALSE).filled = 0
            /\ NewOrder(reference, intent, FALSE).day = session
            /\ NewOrder(reference, intent, FALSE).created = Now
        BY <4>1, NewOrderTerms
      <4> QED BY <3>1, <4>2
    <3> HIDE DEF n, Now
    <3>4. i \in OrderIds /\ j = n
      BY <1>2, <3>2, <3>3
    <3>5. /\ orders[i].filled > 0 /\ orders[i].group # NoGroup
          /\ orders[i].day = session /\ orders[i].created = Now
      BY <3>2, <3>3, <3>4 DEF Rivals
    <3> QED BY <3>4, <3>5, NewHasNoSpentRival DEF Now
  <2>2. ASSUME NEW s \in Symbols, Liquidate(s) PROVE FALSE
    <3>1. /\ OrderIds' = OrderIds \cup {n}
          /\ orders'[n] = NewOrder(ForcedReference, ExitIntent(s), TRUE)
      BY <2>2, LiquidateEffect
    <3>2. orders'[n].group = NoGroup
      BY <2>2, <3>1, ForcedTimed, NewOrderTerms, LiquidateEffect DEF TimedOrder
    <3>3. i = n \/ j = n
      BY <1>2, <3>1
    <3> QED BY <3>2, <3>3 DEF Rivals
  <2>3. CASE ~(Decide \/ ApplyTrade) /\ ~(\E s \in Symbols : Liquidate(s))
    BY <1>2, <2>3, OtherKept
  <2> QED BY <2>1, <2>2, <2>3
<1> QED BY <1>1, <1>2

\* The rivals of an exit that has executed are spent throughout.
LEMMA RivalsInvariant == AnySpec => []RivalsSpent
<1>1. Init => RivalsSpent
  BY DEF Init, RivalsSpent, OrderIds
<1>2. IndInv /\ IndInv' /\ [AnyNext]_vars /\ Timed /\ InCandle /\ RivalsSpent
        => RivalsSpent'
  BY StepRivals
<1> QED BY <1>1, <1>2, CandleInvariant, PTL DEF AnySpec

LEMMA AnyOneExit == AnySpec => []OcoExclusive
<1>1. IndInv /\ RivalsSpent => OcoExclusive
  <2> SUFFICES ASSUME IndInv, RivalsSpent, NEW i \in OrderIds,
                      NEW j \in OrderIds, Rivals(i, j)
               PROVE  orders[i].filled = 0 \/ orders[j].filled = 0
    BY DEF OcoExclusive, Rivals
  <2>1. orders[i].filled \in Nat
    BY OrderFacts
  <2> QED BY <2>1 DEF RivalsSpent
<1> QED BY <1>1, RivalsInvariant, CandleInvariant, PTL

\* Of the exits placed together in one OCO group at most one ever executes a
\* share, over all candles and sessions, whether its fill is whole or partial.
THEOREM OneExitExecutes == Spec => []OcoExclusive
  BY AnyOneExit, SpecIsAny, PTL

(***************************************************************************)
(* The forced exit.                                                        *)
(***************************************************************************)

\* Only a fill changes what is held, and only of its own symbol.
LEMMA StepHeld ==
    ASSUME IndInv, [AnyNext]_vars
    PROVE  \/ UNCHANGED <<account, positions>>
           \/ \E i \in turn.waiting : SettleFill(i)
  BY DEF AnyNext, AnyStep, Loop, SettleOne, Ended, Decide, StartOpenings, BarOpen,
         Liquidate, EndSlot, BeginBar, SettleSkip, SettleDry, SettleReject,
         EndBar, CallStrategy, AnyEvaluate, ApplyTrade, ApplyCancel, EndApply,
         SessionClose, books, vars

\* What a fill does to the position and to the orders of its turn.
LEMMA FillHeld ==
    ASSUME IndInv, NEW i \in turn.waiting, SettleFill(i)
    PROVE  /\ turn.symbol \in Symbols /\ Held(turn.symbol) \in Nat
           /\ turn'.symbol = turn.symbol /\ turn'.bar = turn.bar
           /\ turn'.waiting = turn.waiting \ {i}
           /\ positions'[turn.symbol].quantity
                = IF orders[i].side = "BUY"
                  THEN Held(turn.symbol) + FillQuantity(i)
                  ELSE Held(turn.symbol) - FillQuantity(i)
           /\ \A s \in Symbols \ {turn.symbol} : positions'[s] = positions[s]
<1> DEFINE s == turn.symbol
           old == positions[s]
           after == Filled(old, orders[i].side, FillQuantity(i),
                           FillTurnover(i), FillCost(i))
           new == Booked(old, orders[i].side, FillQuantity(i),
                         FillTurnover(i), FillCost(i))
<1>1. s \in Symbols /\ positions \in [Symbols -> PositionRecord]
  BY InTurn DEF IndInv, TypeOK
<1>2. old \in PositionRecord /\ orders[i].side \in {"BUY", "SELL"}
  BY <1>1, InTurn DEF OrderRecord, Side
<1>3. positions' = [positions EXCEPT ![s] = new]
  BY FillEffect
<1>4. after.quantity = IF orders[i].side = "BUY"
                       THEN old.quantity + FillQuantity(i)
                       ELSE old.quantity - FillQuantity(i)
  BY <1>2 DEF Filled, PositionRecord
<1>5. new.quantity = after.quantity
  BY DEF Booked, NoPosition
<1>6. positions'[s] = new /\ \A t \in Symbols \ {s} : positions'[t] = positions[t]
  BY <1>1, <1>3
<1>7. old.quantity \in Nat
  BY <1>2 DEF PositionRecord
<1>8. /\ turn'.symbol = s /\ turn'.bar = turn.bar
      /\ turn'.waiting = turn.waiting \ {i}
  BY FillEffect DEF IndInv, TypeOK, TurnRecord
<1> HIDE DEF new, after
<1> QED BY <1>1, <1>4, <1>5, <1>6, <1>7, <1>8 DEF Held

\* The cutoff of a symbol is passed at its opening, and only there.
LEMMA PastStep ==
    ASSUME IndInv, [AnyNext]_vars, NEW s \in Symbols,
           phase' \notin {"done", "failed"}, PastCutoff(s)'
    PROVE  /\ phase \notin {"done", "failed"}
           /\ PastCutoff(s) \/ BarOpen(s) \/ Liquidate(s)
           /\ ~SessionClose
<1>1. slot \in 1..Slots /\ Slots \in Nat \ {0} /\ Cutoff \in 1..Slots
  BY Constants, CutoffType DEF IndInv, TypeOK
<1>2. CASE SessionClose
  <2>1. slot' = 1 /\ phase' = "decide"
    BY <1>2 DEF SessionClose, Fail
  <2> QED BY <1>1, <2>1 DEF PastCutoff
<1>3. CASE EndBar \/ EndApply
  <2>1. phase \in {"settle", "apply"} /\ (slot' = slot \/ slot' = slot + 1)
    BY <1>3 DEF EndBar, EndApply, Leave
  <2>2. ~SessionClose
    BY <2>1 DEF SessionClose
  <2>3. slot' = slot + 1 => phase' = "decide"
    BY <1>1, <1>3 DEF EndBar, EndApply, Leave
  <2>4. slot >= Cutoff
    BY <1>1, <2>1, <2>3 DEF PastCutoff
  <2> QED BY <1>1, <2>1, <2>2, <2>4 DEF PastCutoff
<1>4. CASE ~SessionClose /\ ~EndBar /\ ~EndApply
  <2>1. slot' = slot
    BY <1>4 DEF AnyNext, AnyStep, Loop, SettleOne, Ended, Decide, StartOpenings,
       BarOpen, Liquidate, EndSlot, BeginBar, SettleSkip, SettleDry,
       SettleReject, SettleFill, CallStrategy, AnyEvaluate, ApplyTrade,
       ApplyCancel, clock, vars
  <2>2. phase \notin {"done", "failed"}
    BY DEF AnyNext, AnyStep, Loop, SettleOne, Ended, Decide, StartOpenings,
       BarOpen, Liquidate, Opened, EndSlot, BeginBar, SettleSkip, SettleDry,
       SettleReject, SettleFill, CallStrategy, AnyEvaluate, ApplyTrade,
       ApplyCancel, SessionClose, EndBar, EndApply, Turn, vars
  <2>3. CASE slot > Cutoff
    BY <1>4, <2>2, <2>3 DEF PastCutoff
  <2>4. CASE slot = Cutoff
    <3>1. \/ phase' \notin {"decide", "barOpen"}
          \/ phase' = "barOpen" /\ s \notin todo'
      BY <1>1, <2>1, <2>4 DEF PastCutoff
    <3>2. CASE StartOpenings \/ Decide
      BY <1>4, <2>2, <2>4, <3>1, <3>2
         DEF StartOpenings, Decide, clock, PastCutoff
    <3>3. ASSUME NEW t \in Symbols, BarOpen(t) \/ Liquidate(t)
          PROVE  PastCutoff(s) \/ BarOpen(s) \/ Liquidate(s)
      BY <3>1, <3>3, <2>4 DEF PastCutoff, BarOpen, Liquidate, Opened
    <3>4. CASE phase \notin {"decide", "barOpen"}
      BY <1>4, <2>2, <2>4, <3>4 DEF PastCutoff
    <3>5. CASE UNCHANGED vars
      BY <1>4, <2>2, <2>4, <3>1, <3>5 DEF vars, PastCutoff
    <3> QED BY <1>4, <2>2, <3>2, <3>3, <3>4, <3>5
            DEF AnyNext, AnyStep, Loop, SettleOne, Ended, EndSlot, BeginBar,
                SettleSkip, SettleDry, SettleReject, SettleFill, Turn,
                CallStrategy, AnyEvaluate, ApplyTrade, ApplyCancel
  <2> QED BY <1>1, <2>1, <2>3, <2>4 DEF PastCutoff
<1> QED BY <1>2, <1>3, <1>4

\* The forced order of s has still to sell all that is held, alone.
Covered(s) ==
    \E i \in OrdersOf(s) :
        /\ orders[i].forced /\ Active(orders[i])
        /\ Remaining(orders[i]) = Held(s)
        /\ \A j \in OrdersOf(s) \ {i} : ~Active(orders[j])

\* The forced exit takes up all that is held, and leaves no other order alive.
LEMMA LiquidateCovers ==
    ASSUME IndInv, NEW s \in Symbols, Liquidate(s)
    PROVE  Covered(s)'
<1> DEFINE n == Len(orders) + 1
<1>1. /\ OrderIds' = OrderIds \cup {n} /\ UNCHANGED positions
      /\ orders'[n] = NewOrder(ForcedReference, ExitIntent(s), TRUE)
      /\ ExitIntent(s) \in IntentType /\ Held(s) \in Nat
  <2>1. Held(s) \in Nat
    BY DEF IndInv, TypeOK, Held, PositionRecord
  <2> QED BY <2>1, LiquidateEffect
<1>2. /\ orders'[n].symbol = s /\ orders'[n].forced
      /\ orders'[n].quantity = Held(s) /\ orders'[n].filled = 0
  BY <1>1 DEF NewOrder, ExitIntent
<1>3. Active(orders'[n])
  BY <1>1 DEF NewOrder, ExitIntent, Active, ActiveStatus
<1>4. Remaining(orders'[n]) = Held(s)'
  <2>1. Held(s)' = Held(s)
    BY <1>1 DEF Held
  <2>2. orders'[n].quantity - orders'[n].filled = Held(s)
    <3>1. Held(s) \in Nat
      BY <1>1
    <3> HIDE DEF n
    <3> QED BY <1>2, <3>1
  <2> QED BY <2>1, <2>2 DEF Remaining
<1>5. ASSUME NEW j \in OrderIds, orders'[j].symbol = s PROVE ~Active(orders'[j])
  <2>1. orders'[j].symbol = orders[j].symbol
    BY LiquidateEffect DEF KeptOrder, TermFields
  <2>2. IF Active(orders[j]) THEN orders'[j].status = "CANCELLED"
                             ELSE orders'[j] = orders[j]
    BY <1>5, <2>1, LiquidateEffect
  <2> QED BY <2>2 DEF Active, ActiveStatus
<1> HIDE DEF n
<1> QED BY <1>1, <1>2, <1>3, <1>4, <1>5 DEF Covered, OrdersOf

\* What keeps a covered symbol covered: the forced order stays as it is, and
\* no other order of the symbol comes to life.
LEMMA StaysCovered ==
    ASSUME IndInv, [AnyNext]_vars, NEW s \in Symbols, Covered(s),
           positions'[s] = positions[s],
           \A i \in OrdersOf(s) :
               orders[i].forced /\ Active(orders[i])
                 /\ Remaining(orders[i]) = Held(s)
               => Active(orders'[i]) /\ orders'[i].filled = orders[i].filled,
           \A i \in OrderIds' \ OrderIds :
               orders'[i].symbol = s => ~Active(orders'[i])
    PROVE  Covered(s)'
<1>1. PICK i \in OrdersOf(s) :
         /\ orders[i].forced /\ Active(orders[i])
         /\ Remaining(orders[i]) = Held(s)
         /\ \A j \in OrdersOf(s) \ {i} : ~Active(orders[j])
  BY DEF Covered
<1>2. \A j \in OrderIds : KeptOrder(j)
  BY StepKeeps
<1>3. i \in OrdersOf(s)'
  BY <1>1, <1>2 DEF OrdersOf, KeptOrder, TermFields
<1>4. /\ orders'[i].forced /\ Active(orders'[i])
      /\ Remaining(orders'[i]) = Held(s)'
  BY <1>1, <1>2 DEF OrdersOf, KeptOrder, TermFields, Remaining, Held
<1>5. ASSUME NEW j \in OrdersOf(s)' \ {i} PROVE ~Active(orders'[j])
  <2>1. CASE j \in OrderIds
    BY <1>1, <1>2, <1>5, <2>1 DEF OrdersOf, KeptOrder, TermFields
  <2>2. CASE j \notin OrderIds
    BY <1>5, <2>2 DEF OrdersOf
  <2> QED BY <2>1, <2>2
<1> QED BY <1>3, <1>4, <1>5 DEF Covered

\* The fills behind the cutoff: only the forced order fills, and it sells.
LEMMA FillCovers ==
    ASSUME IndInv, [AnyNext]_vars, InCandle, NEW i \in turn.waiting, SettleFill(i),
           NEW s \in Symbols, slot >= Cutoff,
           Held(s) > 0 => Covered(s), positions'[s].quantity > 0
    PROVE  Covered(s)'
<1>1. slot \in Nat /\ Cutoff \in Nat
  BY Constants, CutoffType DEF IndInv, TypeOK
<1>2. orders[i].forced /\ orders[i].symbol = turn.symbol
  BY <1>1 DEF InCandle
<1>3. /\ i \in OrderIds /\ OrderIds' = OrderIds
      /\ Active(orders[i]) /\ orders[i].side = "SELL"
      /\ Remaining(orders[i]) \in Nat
  BY <1>2, FillKept, FillEffect, InTurn
<1>4. /\ FillQuantity(i) \in Nat \ {0}
      /\ FillQuantity(i) <= Remaining(orders[i])
      /\ Remaining(orders[i]) <= Held(turn.symbol)
  BY <1>3, FillEffect
<1>5. /\ Held(turn.symbol) \in Nat /\ turn.symbol \in Symbols
      /\ positions'[turn.symbol].quantity = Held(turn.symbol) - FillQuantity(i)
      /\ \A t \in Symbols \ {turn.symbol} : positions'[t] = positions[t]
  BY <1>3, FillHeld
<1>6. CASE s = turn.symbol
  <2>1. Held(s) > 0
    BY <1>3, <1>4, <1>5, <1>6
  <2>2. PICK k \in OrdersOf(s) :
           /\ orders[k].forced /\ Active(orders[k])
           /\ Remaining(orders[k]) = Held(s)
           /\ \A j \in OrdersOf(s) \ {k} : ~Active(orders[j])
    BY <2>1 DEF Covered
  <2>3. i = k
    BY <1>2, <1>3, <1>6, <2>2 DEF OrdersOf
  <2>4. FillQuantity(i) # Remaining(orders[i])
    BY <1>4, <1>5, <1>6, <2>2, <2>3
  <2>5. Active(orders'[i])
    BY <2>4, FillKept DEF Active, ActiveStatus
  <2>6. Remaining(orders'[i]) = positions'[s].quantity
    <3>1. /\ orders'[i].quantity = orders[i].quantity
          /\ orders'[i].filled = orders[i].filled + FillQuantity(i)
      BY <1>3, FillKept DEF KeptOrder, TermFields
    <3>2. orders[i].quantity \in Nat /\ orders[i].filled \in Nat
      BY <1>3, OrderFacts
    <3>3. orders[i].quantity - orders[i].filled = Held(s)
      BY <2>2, <2>3 DEF Remaining
    <3> QED BY <1>4, <1>5, <1>6, <3>1, <3>2, <3>3 DEF Remaining
  <2>7. /\ i \in OrdersOf(s)' /\ orders'[i].forced
        /\ \A j \in OrdersOf(s)' \ {i} : ~Active(orders'[j])
    <3>1. \A j \in OrderIds : KeptOrder(j)
      BY FillKept
    <3> QED BY <1>2, <1>3, <1>6, <2>2, <2>3, <3>1
            DEF OrdersOf, KeptOrder, TermFields
  <2> QED BY <2>5, <2>6, <2>7 DEF Covered, Held
<1>7. CASE s # turn.symbol
  <2>1. positions'[s] = positions[s] /\ Covered(s)
    BY <1>5, <1>7 DEF Held
  <2>2. ASSUME NEW k \in OrdersOf(s), Active(orders[k])
        PROVE  Active(orders'[k]) /\ orders'[k].filled = orders[k].filled
    <3>1. k \in OrderIds \ {i} /\ k \notin Siblings(i)
      BY <1>2, <1>7 DEF OrdersOf, Siblings
    <3> QED BY <2>2, <3>1, FillKept
  <2> QED BY <1>3, <2>1, <2>2, StaysCovered
<1> QED BY <1>6, <1>7

\* A cancellation goes by name: it reaches a forced order only if a request
\* could bear the forced order's name.
LEMMA CancelSpares ==
    ASSUME ForcedReference \notin References, IndInv, Timed, ApplyCancel,
           NEW i \in OrderIds, orders[i].forced
    PROVE  orders'[i] = orders[i]
<1>1. Head(batch) \in RequestRecord /\ Head(batch).kind = "cancel"
  BY DEF IndInv, TypeOK, ApplyCancel
<1>2. Head(batch).targets \subseteq References
  BY <1>1 DEF RequestRecord
<1>3. orders[i].reference = ForcedReference
  BY DEF Timed, TimedOrder
<1> DEFINE named == {j \in OrdersOf(turn.symbol) :
                        orders[j].reference \in Head(batch).targets}
<1>4. orders' = Move(named, "CANCELLED") /\ i \notin named
  BY <1>2, <1>3 DEF ApplyCancel
<1> HIDE DEF named
<1>5. "CANCELLED" \in Status
  BY DEF Status, TerminalStatus
<1> QED BY <1>2, <1>3, <1>4, <1>5, MoveKeeps

\* The steps that fill nothing leave a covered symbol covered.
LEMMA QuietCovers ==
    ASSUME ForcedReference \notin References, IndInv, [AnyNext]_vars, Timed,
           InCandle, NEW s \in Symbols, Covered(s), slot >= Cutoff,
           UNCHANGED positions, ~Liquidate(s), ~SessionClose
    PROVE  Covered(s)'
<1>1. /\ slot \in 1..Slots /\ slot \in Nat /\ Cutoff \in Nat
  <2>1. slot \in 1..Slots
    BY DEF IndInv, TypeOK
  <2> QED BY <2>1, Constants, CutoffType
<1>2. CASE Decide \/ ApplyTrade
  <2>1. ASSUME NEW i \in OrderIds' \ OrderIds PROVE ~Active(orders'[i])
    <3>1. i = Len(orders) + 1
      BY <1>2, <2>1, PlacesEffect
    <3>2. PICK reference \in References, intent \in IntentType :
             orders'[i] = NewOrder(reference, intent, FALSE)
      BY <1>2, <3>1, PlacesEffect
    <3>3. Now >= OpeningTime(Cutoff)
      <4>1. Now \in Nat /\ OpeningTime(slot) <= Now
        BY <1>1, NowLate
      <4>2. OpeningTime(Cutoff) <= OpeningTime(slot)
        BY <1>1, LaterOpening
      <4>3. OpeningTime(Cutoff) \in Int /\ OpeningTime(slot) \in Int
        BY <1>1, LaterOpening
      <4> HIDE DEF Now
      <4> QED BY <4>1, <4>2, <4>3
    <3>4. intent \in IntentType /\ FALSE \in BOOLEAN
      BY <3>2
    <3>5. ~Active(NewOrder(reference, intent, FALSE))
      BY <3>3, <3>4, NewOrderTerms
    <3> QED BY <3>2, <3>5
  <2>2. \A i \in OrderIds : orders'[i] = orders[i]
    BY <1>2, PlacesEffect
  <2> QED BY <2>1, <2>2, StaysCovered DEF OrdersOf
<1>3. ASSUME NEW t \in Symbols, Liquidate(t) PROVE Covered(s)'
  <2>1. t # s
    BY <1>3
  <2>2. /\ OrderIds' = OrderIds \cup {Len(orders) + 1}
        /\ orders'[Len(orders) + 1]
             = NewOrder(ForcedReference, ExitIntent(t), TRUE)
    BY <1>3, LiquidateEffect
  <2>3. orders'[Len(orders) + 1].symbol = t
    BY <2>2 DEF NewOrder, ExitIntent
  <2>4. \A i \in OrdersOf(s) : orders'[i] = orders[i]
    BY <1>3, <2>1, LiquidateEffect DEF OrdersOf
  <2> QED BY <2>1, <2>2, <2>3, <2>4, StaysCovered
<1>4. ASSUME NEW k \in turn.waiting, SettleDry(k) PROVE Covered(s)'
  <2>1. CanFill(k) /\ orders' = [orders EXCEPT ![k] = Woken(k)]
    BY <1>4 DEF SettleDry
  <2>2. k \in OrderIds /\ OrderIds' = OrderIds
    BY InTurn, <2>1 DEF OrderIds
  <2>3. Active(Woken(k)) /\ Woken(k).filled = orders[k].filled
    BY <2>1, WokenKeeps DEF CanFill, Active, ActiveStatus
  <2>4. \A i \in OrderIds :
          Active(orders[i])
            => Active(orders'[i]) /\ orders'[i].filled = orders[i].filled
    BY <2>1, <2>2, <2>3 DEF OrderIds, IndInv, TypeOK
  <2> QED BY <2>2, <2>4, StaysCovered DEF OrdersOf
<1>5. ASSUME NEW k \in turn.waiting, SettleReject(k) PROVE Covered(s)'
  <2>1. /\ Unaffordable(k) \/ Oversold(k)
        /\ orders' = [orders EXCEPT ![k] = Transition(Woken(k), "REJECTED")]
    BY <1>5 DEF SettleReject
  <2>2. /\ k \in OrderIds /\ OrderIds' = OrderIds
        /\ \A i \in OrderIds \ {k} : orders'[i] = orders[i]
    BY InTurn, <2>1 DEF OrderIds, IndInv, TypeOK
  <2>3. orders[k].forced /\ orders[k].symbol = turn.symbol
    BY <1>1 DEF InCandle
  <2>4. /\ Remaining(orders[k]) > Held(turn.symbol)
        /\ Remaining(orders[k]) \in Nat /\ Held(turn.symbol) \in Nat
    <3>1. orders[k].side = "SELL" /\ Remaining(orders[k]) \in Nat
      BY <2>3, InTurn
    <3>2. Held(turn.symbol) \in Nat
      BY InTurn DEF IndInv, TypeOK, Held, PositionRecord
    <3> QED BY <2>1, <3>1, <3>2 DEF Unaffordable, Oversold
  <2>5. ASSUME NEW i \in OrdersOf(s), Remaining(orders[i]) = Held(s)
        PROVE  i # k
    BY <2>3, <2>4, <2>5 DEF OrdersOf
  <2> QED BY <2>2, <2>5, StaysCovered DEF OrdersOf
<1>6. CASE ApplyCancel
  <2>1. \A i \in OrdersOf(s) : orders[i].forced => orders'[i] = orders[i]
    BY <1>6, CancelSpares DEF OrdersOf
  <2>2. OrderIds' = OrderIds
    <3>1. "CANCELLED" \in Status
      BY DEF Status, TerminalStatus
    <3>2. PICK ids : orders' = Move(ids, "CANCELLED")
      BY <1>6 DEF ApplyCancel
    <3> QED BY <3>1, <3>2, MoveOrders DEF IndInv, TypeOK
  <2> QED BY <2>1, <2>2, StaysCovered
<1>7. CASE UNCHANGED orders
  BY <1>7, StaysCovered DEF OrdersOf, OrderIds
<1>8. ASSUME NEW i \in turn.waiting, SettleFill(i) PROVE Covered(s)'
  <2>1. /\ FillQuantity(i) \in Nat \ {0} /\ Held(turn.symbol) \in Nat
        /\ positions'[turn.symbol].quantity # Held(turn.symbol)
    <3>1. FillQuantity(i) \in Nat \ {0} /\ Held(turn.symbol) \in Nat
      BY <1>8, FillEffect, FillHeld
    <3>2. \/ positions'[turn.symbol].quantity
               = Held(turn.symbol) + FillQuantity(i)
          \/ positions'[turn.symbol].quantity
               = Held(turn.symbol) - FillQuantity(i)
      BY <1>8, FillHeld
    <3> QED BY <3>1, <3>2
  <2> QED BY <2>1 DEF Held
<1> QED BY <1>2, <1>3, <1>4, <1>5, <1>6, <1>7, <1>8
        DEF AnyNext, AnyStep, Loop, SettleOne, Ended, StartOpenings, BarOpen, EndSlot,
            BeginBar, SettleSkip, EndBar, CallStrategy, AnyEvaluate, EndApply, vars

\* Past the cutoff whatever is held stays covered by a forced exit.
LEMMA StepCovers ==
    ASSUME ForcedReference \notin References, IndInv, IndInv', [AnyNext]_vars,
           Timed, InCandle, ForcedExitCovers
    PROVE  ForcedExitCovers'
<1> SUFFICES ASSUME NEW s \in Symbols, phase' \notin {"done", "failed"},
                    PastCutoff(s)', positions'[s].quantity > 0
             PROVE  Covered(s)'
  BY DEF ForcedExitCovers, Covered, Held
<1>1. /\ phase \notin {"done", "failed"} /\ ~SessionClose
      /\ PastCutoff(s) \/ BarOpen(s) \/ Liquidate(s)
  BY PastStep
<1>2. slot \in Nat /\ Cutoff \in Nat
  BY Constants, CutoffType DEF IndInv, TypeOK
<1>3. CASE Liquidate(s)
  BY <1>3, LiquidateCovers
<1>4. CASE PastCutoff(s) /\ ~Liquidate(s)
  <2>1. slot >= Cutoff /\ (Held(s) > 0 => Covered(s))
    BY <1>1, <1>2, <1>4 DEF PastCutoff, ForcedExitCovers, Covered
  <2>2. CASE \E i \in turn.waiting : SettleFill(i)
    BY <2>1, <2>2, FillCovers
  <2>3. CASE UNCHANGED positions
    <3>1. Covered(s)
      BY <2>1, <2>3 DEF Held
    <3> QED BY <1>1, <1>4, <2>1, <2>3, <3>1, QuietCovers
  <2> QED BY <2>2, <2>3, StepHeld
<1>5. CASE BarOpen(s) /\ ~PastCutoff(s)
  <2>1. slot # Cutoff
    <3>1. UNCHANGED positions
      BY <1>5 DEF BarOpen, books
    <3> QED BY <1>5, <3>1 DEF BarOpen, Held
  <2>2. phase = "barOpen" /\ UNCHANGED slot
    BY <1>5 DEF BarOpen, Opened
  <2>3. slot > Cutoff
    BY <2>1, <2>2 DEF PastCutoff
  <2> QED BY <1>5, <2>3 DEF PastCutoff
<1> QED BY <1>1, <1>3, <1>4, <1>5

LEMMA AnyForcedExit ==
    ASSUME ForcedReference \notin References
    PROVE  AnySpec => []ForcedExitCovers
<1>1. Init => ForcedExitCovers
  BY DEF Init, ForcedExitCovers, Held, NoPosition
<1>2. IndInv /\ IndInv' /\ [AnyNext]_vars /\ Timed /\ InCandle /\ ForcedExitCovers
        => ForcedExitCovers'
  BY StepCovers
<1> QED BY <1>1, <1>2, CandleInvariant, PTL DEF AnySpec

\* From the cutoff on, what is held is exactly what the one forced order has
\* still to sell, and no other order of the symbol is alive.  It holds as long
\* as no request bears the forced order's own name: the run forced_name shows
\* what happens otherwise.
THEOREM ForcedExitHolds ==
    ASSUME ForcedReference \notin References
    PROVE  Spec => []ForcedExitCovers
  BY AnyForcedExit, SpecIsAny, PTL

\* A cutoff that is passed stays passed until the session closes.
LEMMA PastStays ==
    ASSUME IndInv, [AnyNext]_vars, NEW s \in Symbols, PastCutoff(s), ~SessionClose,
           phase \notin {"done", "failed"}
    PROVE  PastCutoff(s)'
<1>1. slot \in 1..Slots /\ Slots \in Nat \ {0} /\ Cutoff \in 1..Slots
  BY Constants, CutoffType DEF IndInv, TypeOK
<1>2. slot \in Nat /\ Cutoff \in Nat
  BY <1>1
<1>3. CASE EndBar \/ EndApply
  <2>1. phase' \notin {"barOpen"} /\ slot' \in {slot, slot + 1}
    BY <1>3 DEF EndBar, EndApply, Leave
  <2>2. slot' = slot => phase' # "decide"
    BY <1>2, <1>3 DEF EndBar, EndApply, Leave
  <2> QED BY <1>2, <2>1, <2>2 DEF PastCutoff
<1>4. CASE UNCHANGED <<slot, phase, todo>>
  BY <1>4 DEF PastCutoff
<1>5. CASE slot > Cutoff /\ slot' = slot
  BY <1>5 DEF PastCutoff
<1>6. CASE slot' = slot /\ phase' \notin {"decide", "barOpen"}
  BY <1>2, <1>6 DEF PastCutoff
<1>7. CASE \E t \in Symbols : BarOpen(t) \/ Liquidate(t)
  BY <1>2, <1>7 DEF PastCutoff, BarOpen, Liquidate, Opened
<1>8. CASE StartOpenings
  BY <1>2, <1>8 DEF PastCutoff, StartOpenings
<1> QED BY <1>3, <1>4, <1>5, <1>6, <1>7, <1>8
        DEF AnyNext, AnyStep, Loop, SettleOne, Ended, Decide, EndSlot, BeginBar,
            SettleSkip, SettleDry, SettleReject, SettleFill, Turn, CallStrategy,
            AnyEvaluate, Deliver, Raise, Fail, ApplyTrade, ApplyCancel, clock, vars

\* The close expires every order.
LEMMA CloseExpires ==
    ASSUME IndInv, SessionClose
    PROVE  /\ OrderIds' = OrderIds
           /\ \A i \in OrderIds : /\ ~Active(orders'[i])
                                  /\ \/ orders'[i] = orders[i]
                                     \/ orders'[i].status = "EXPIRED"
<1>1. "EXPIRED" \in Status
  BY DEF Status, TerminalStatus
<1>2. orders' = Move(OrderIds, "EXPIRED")
  BY DEF SessionClose, Expired
<1>3. OrderIds' = OrderIds
  BY <1>1, <1>2, MoveOrders DEF IndInv, TypeOK
<1>4. ASSUME NEW i \in OrderIds
      PROVE  IF Active(orders[i]) THEN orders'[i].status = "EXPIRED"
                                  ELSE orders'[i] = orders[i]
  BY <1>1, <1>2, MoveKeeps
<1> QED BY <1>3, <1>4 DEF Active, ActiveStatus

\* Live forced orders stay past the cutoff.
LEMMA StepForcedLate ==
    IndInv /\ IndInv' /\ [AnyNext]_vars /\ ForcedLate => ForcedLate'
<1> SUFFICES ASSUME IndInv, IndInv', [AnyNext]_vars, ForcedLate,
                    phase' \notin {"done", "failed"}, NEW i \in OrderIds',
                    orders'[i].forced, Active(orders'[i])
             PROVE  PastCutoff(orders[i].symbol)'
  BY DEF ForcedLate
<1>1. CASE i \in OrderIds
  <2>1. KeptOrder(i) /\ orders[i].symbol \in Symbols
    BY <1>1, StepKeeps, OrderFacts
  <2>2. /\ orders[i].forced /\ Active(orders[i])
        /\ orders'[i].symbol = orders[i].symbol
    BY <2>1 DEF KeptOrder, TermFields
  <2>3. ~SessionClose
    BY <1>1, CloseExpires
  <2>4. phase \notin {"done", "failed"}
    BY <2>3 DEF AnyNext, AnyStep, Loop, SettleOne, Ended, Decide, StartOpenings,
       BarOpen, Liquidate, Opened, EndSlot, BeginBar, SettleSkip, SettleDry,
       SettleReject, SettleFill, CallStrategy, AnyEvaluate, ApplyTrade,
       ApplyCancel, EndBar, EndApply, Turn, vars
  <2>5. PastCutoff(orders[i].symbol)
    BY <1>1, <2>2, <2>4 DEF ForcedLate
  <2>6. \A s \in Symbols : PastCutoff(s) => PastCutoff(s)'
    BY <2>3, <2>4, PastStays
  <2> DEFINE s == orders[i].symbol
  <2> QED BY <2>1, <2>2, <2>5, <2>6 DEF PastCutoff
<1>2. CASE Decide \/ ApplyTrade
  <2>1. i \notin OrderIds => FALSE
    <3> SUFFICES ASSUME i \notin OrderIds PROVE FALSE
      OBVIOUS
    <3>1. i = Len(orders) + 1
      BY <1>2, PlacesEffect
    <3>2. PICK reference \in References, intent \in IntentType :
             orders'[i] = NewOrder(reference, intent, FALSE)
      BY <1>2, <3>1, PlacesEffect
    <3> QED BY <3>2 DEF NewOrder
  <2> QED BY <1>1, <2>1
<1>3. ASSUME NEW t \in Symbols, Liquidate(t), i \notin OrderIds
      PROVE  PastCutoff(orders[i].symbol)'
  <2>1. /\ i = Len(orders) + 1
        /\ orders'[i] = NewOrder(ForcedReference, ExitIntent(t), TRUE)
        /\ slot' = Cutoff
        /\ phase' = IF todo' = {} THEN "inside" ELSE "barOpen"
        /\ t \notin todo'
    BY <1>3, LiquidateEffect
  <2>2. orders'[i].symbol = t
    BY <2>1 DEF NewOrder, ExitIntent
  <2> QED BY <2>1, <2>2 DEF PastCutoff
<1> QED BY <1>1, <1>2, <1>3, OtherKept

\* No step cancels a forced order.
LEMMA StepForcedNeverCancelled ==
    ASSUME ForcedReference \notin References, IndInv, IndInv', [AnyNext]_vars,
           Timed, ForcedLate, ForcedNeverCancelled
    PROVE  ForcedNeverCancelled'
<1> SUFFICES ASSUME NEW i \in OrderIds', orders'[i].forced,
                    orders'[i].status = "CANCELLED"
             PROVE  FALSE
  BY DEF ForcedNeverCancelled
<1>1. CASE i \in OrderIds /\ orders'[i] = orders[i]
  BY <1>1 DEF ForcedNeverCancelled
<1>2. i \in OrderIds => orders[i].forced
  BY StepKeeps DEF KeptOrder, TermFields
<1>3. CASE Decide \/ ApplyTrade
  <2>1. i = Len(orders) + 1
    BY <1>1, <1>3, PlacesEffect
  <2>2. PICK reference \in References, intent \in IntentType :
           orders'[i] = NewOrder(reference, intent, FALSE)
    BY <1>3, <2>1, PlacesEffect
  <2> QED BY <2>2 DEF NewOrder
<1>4. ASSUME NEW s \in Symbols, Liquidate(s) PROVE FALSE
  <2>1. CASE i \in OrderIds
    <3>1. orders[i].symbol = s /\ Active(orders[i])
      BY <1>1, <1>4, <2>1, LiquidateEffect
    <3>2. phase = "barOpen" /\ slot = Cutoff /\ s \in todo
      BY <1>4, LiquidateEffect
    <3>3. PastCutoff(s)
      BY <1>2, <2>1, <3>1, <3>2 DEF ForcedLate
    <3>4. Cutoff \in Nat
      BY CutoffType, Constants
    <3> QED BY <3>2, <3>3, <3>4 DEF PastCutoff
  <2>2. CASE i \notin OrderIds
    <3>1. orders'[i] = NewOrder(ForcedReference, ExitIntent(s), TRUE)
      BY <1>4, <2>2, LiquidateEffect
    <3> QED BY <3>1 DEF NewOrder
  <2> QED BY <2>1, <2>2
<1>5. ASSUME NEW k \in turn.waiting, SettleDry(k) \/ SettleReject(k) PROVE FALSE
  <2>1. k \in OrderIds /\ orders \in Seq(OrderRecord)
    BY InTurn DEF IndInv, TypeOK
  <2>2. orders'[k].status # "CANCELLED"
    <3>1. CASE SettleDry(k)
      <4>1. Active(orders[k]) /\ orders'[k] = Woken(k)
        BY <2>1, <3>1 DEF SettleDry, CanFill, OrderIds
      <4> QED BY <4>1, WokenKeeps DEF Active, ActiveStatus
    <3>2. CASE SettleReject(k)
      <4>1. orders'[k] = Transition(Woken(k), "REJECTED")
        BY <2>1, <3>2 DEF SettleReject, OrderIds
      <4>2. "REJECTED" \in Status
        BY DEF Status, TerminalStatus
      <4> QED BY <4>1, <4>2, WokenKeeps, TransitionKeeps
    <3> QED BY <1>5, <3>1, <3>2
  <2>3. OrderIds' = OrderIds /\ \A j \in OrderIds \ {k} : orders'[j] = orders[j]
    BY <1>5, <2>1 DEF SettleDry, SettleReject, OrderIds
  <2> QED BY <1>1, <2>2, <2>3
<1>6. ASSUME NEW k \in turn.waiting, SettleFill(k) PROVE FALSE
  <2>1. i \in OrderIds /\ i # k
    BY <1>6, FillKept
  <2>2. i \in Siblings(k)
    BY <1>1, <1>6, <2>1, FillKept
  <2>3. orders[i].group # NoGroup
    BY <2>2 DEF Siblings
  <2> QED BY <1>2, <2>1, <2>3 DEF Timed, TimedOrder
<1>7. CASE ApplyCancel
  <2>1. i \in OrderIds
    BY <1>7, OtherKept DEF Decide, ApplyTrade, ApplyCancel, Liquidate, Opened
  <2> QED BY <1>1, <1>2, <1>7, <2>1, CancelSpares
<1>8. CASE SessionClose
  BY <1>1, <1>8, CloseExpires
<1>9. CASE UNCHANGED orders
  BY <1>1, <1>9 DEF OrderIds
<1> QED BY <1>3, <1>4, <1>5, <1>6, <1>7, <1>8, <1>9
        DEF AnyNext, AnyStep, Loop, SettleOne, Ended, StartOpenings, BarOpen, EndSlot,
            BeginBar, SettleSkip, EndBar, CallStrategy, AnyEvaluate, EndApply, vars

\* Live forced orders are past the cutoff throughout.
LEMMA ForcedLateInvariant == AnySpec => []ForcedLate
<1>1. Init => ForcedLate
  BY DEF Init, ForcedLate, OrderIds
<1>2. IndInv /\ IndInv' /\ [AnyNext]_vars /\ ForcedLate => ForcedLate'
  BY StepForcedLate
<1> QED BY <1>1, <1>2, Inductive, PTL DEF AnySpec

LEMMA AnyForcedStands ==
    ASSUME ForcedReference \notin References
    PROVE  AnySpec => []ForcedNeverCancelled
<1>1. Init => ForcedNeverCancelled
  BY DEF Init, ForcedNeverCancelled, OrderIds
<1>2. IndInv /\ IndInv' /\ [AnyNext]_vars /\ Timed /\ ForcedLate
        /\ ForcedNeverCancelled
        => ForcedNeverCancelled'
  BY StepForcedNeverCancelled
<1> QED BY <1>1, <1>2, CandleInvariant, ForcedLateInvariant, PTL DEF AnySpec

\* The strategy documentation says that a forced order is never cancelled.  It
\* is true as long as no request bears the forced order's own name, which the
\* program does not forbid: the run forced_name shows the cancellation.
THEOREM ForcedOrderStands ==
    ASSUME ForcedReference \notin References
    PROVE  Spec => []ForcedNeverCancelled
  BY AnyForcedStands, SpecIsAny, PTL

(***************************************************************************)
(* Stops and targets of one candle.                                        *)
(***************************************************************************)

\* A step brings no order into the candle's reach that was not in it.
LEMMA ReachStays ==
    ASSUME IndInv, [AnyNext]_vars, NEW i \in OrderIds,
           Reachable(orders'[i], turn.bar)
    PROVE  Reachable(orders[i], turn.bar)
<1>1. KeptOrder(i)
  BY StepKeeps
<1>2. CASE i \in turn.waiting /\ CanFill(i)
  BY <1>2 DEF CanFill
<1>3. CASE orders'[i].triggered = orders[i].triggered
  <2>1. /\ orders'[i].type = orders[i].type /\ orders'[i].side = orders[i].side
        /\ orders'[i].price = orders[i].price
    BY <1>1 DEF KeptOrder, TermFields
  <2>2. BasePrice(orders'[i], turn.bar) = BasePrice(orders[i], turn.bar)
    BY <1>3, <2>1 DEF BasePrice
  <2> QED BY <2>2 DEF Reachable
<1> QED BY <1>1, <1>2, <1>3 DEF KeptOrder

\* While a candle is settled, and the strategy answers it, no stop joins those
\* that are alive and in its reach: a new order is for a later candle.
LEMMA StopsShrink ==
    ASSUME IndInv, [AnyNext]_vars, slot' = slot, turn'.symbol = turn.symbol,
           turn'.bar = turn.bar, ~(\E s \in Symbols : Liquidate(s))
    PROVE  LiveStops' \subseteq LiveStops
<1> SUFFICES ASSUME NEW i \in LiveStops' PROVE i \in LiveStops
  OBVIOUS
<1>1. /\ i \in OrderIds' /\ orders'[i].symbol = turn.symbol
      /\ Active(orders'[i]) /\ orders'[i].eligible <= slot
      /\ orders'[i].forced \/ slot < Cutoff
      /\ IsStop(orders'[i]) /\ Reachable(orders'[i], turn.bar)
  BY DEF LiveStops, Stops, Eligible, OrdersOf, IsStop
<1>2. CASE i \in OrderIds
  <2>1. KeptOrder(i) /\ Reachable(orders[i], turn.bar)
    BY <1>1, <1>2, StepKeeps, ReachStays
  <2> QED BY <1>1, <1>2, <2>1
          DEF KeptOrder, TermFields, LiveStops, Stops, Eligible, OrdersOf, IsStop
<1>3. CASE i \notin OrderIds
  <2>1. Decide \/ ApplyTrade
    BY <1>1, <1>3, OtherKept
  <2>2. PICK reference \in References, intent \in IntentType :
           orders'[i] = NewOrder(reference, intent, FALSE)
    BY <1>1, <1>3, <2>1, PlacesEffect
  <2>3. orders'[i].eligible = OpeningAfter(Now)
    BY <2>2 DEF NewOrder
  <2>4. /\ slot \in Nat \ {0} /\ Now \in Nat /\ OpeningTime(slot) <= Now
    BY NowLate, Constants DEF IndInv, TypeOK
  <2>5. OpeningAfter(Now) > slot
    <3> HIDE DEF Now
    <3> QED BY <2>4 DEF OpeningAfter, OpeningTime
  <2>6. OpeningAfter(Now) \in Int
    <3> HIDE DEF Now
    <3> QED BY <2>4 DEF OpeningAfter
  <2> QED BY <1>1, <2>3, <2>4, <2>5, <2>6
<1> QED BY <1>2, <1>3

\* What has been filled keeps being a stop's or a target's fill.
LEMMA SameFills ==
    ASSUME IndInv, [AnyNext]_vars, UNCHANGED fills
    PROVE  /\ StopFilled' <=> StopFilled
           /\ TargetFilled' <=> TargetFilled
<1>1. \A f \in fills : f.order \in OrderIds
  BY DEF IndInv, TypeOK
<1>2. \A i \in OrderIds : /\ orders'[i].side = orders[i].side
                          /\ orders'[i].type = orders[i].type
  BY StepKeeps DEF KeptOrder, TermFields
<1> QED BY <1>1, <1>2 DEF StopFilled, TargetFilled, IsStop, IsTarget

\* What a fill adds to the stops and targets filled in the turn.
LEMMA AddedFill ==
    ASSUME IndInv, [AnyNext]_vars, NEW i \in turn.waiting, SettleFill(i)
    PROVE  /\ StopFilled' <=> StopFilled \/ IsStop(orders[i])
           /\ TargetFilled' <=> TargetFilled \/ IsTarget(orders[i])
<1>1. i \in OrderIds /\ \A f \in fills : f.order \in OrderIds
  BY InTurn DEF IndInv, TypeOK
<1>2. \A j \in OrderIds : /\ orders'[j].side = orders[j].side
                          /\ orders'[j].type = orders[j].type
  BY StepKeeps DEF KeptOrder, TermFields
<1> DEFINE fill == [order |-> i, quantity |-> FillQuantity(i),
                    price |-> Price(i)]
<1>3. fills' = fills \cup {fill}
  BY FillEffect
<1>f. fill.order = i
  OBVIOUS
<1> HIDE DEF fill
<1>4. /\ fills \subseteq fills'
      /\ \E f \in fills' : f.order = i
      /\ \A f \in fills' : f \in fills \/ f.order = i
  BY <1>3, <1>f
<1>5. \A j \in OrderIds : /\ IsStop(orders'[j]) <=> IsStop(orders[j])
                          /\ IsTarget(orders'[j]) <=> IsTarget(orders[j])
  BY <1>2 DEF IsStop, IsTarget
<1> QED BY <1>1, <1>4, <1>5 DEF StopFilled, TargetFilled

\* The order whose turn it is, when it may fill, is one of the candle's; if a
\* live stop still waits, it is itself a stop in reach.
LEMMA TurnOrder ==
    ASSUME IndInv, InCandle, NEW i \in turn.waiting, Turn(i)
    PROVE  /\ CanFill(i) /\ IsStop(orders[i]) => i \in LiveStops
           /\ LiveStops # {} /\ LiveStops \subseteq turn.waiting => StopFirst(i)
<1>1. i \in OrderIds
  BY InTurn
<1>2. CanFill(i) /\ IsStop(orders[i]) => i \in LiveStops
  BY <1>1 DEF InCandle, CanFill, LiveStops, Stops, Eligible, OrdersOf
<1>3. ASSUME NEW k \in LiveStops, k \in turn.waiting PROVE StopFirst(i)
  <2>1. StopFirst(k)
    BY DEF LiveStops, Stops, StopFirst
  <2> QED BY <1>3, <2>1 DEF Turn, Precedes
<1> QED BY <1>2, <1>3

\* An order in turn that may fill has shares left; so nothing can be filled
\* only where a participation rate leaves no volume.
LEMMA DryCandle ==
    ASSUME IndInv, Timed, NEW i \in turn.waiting, CanFill(i)
    PROVE  /\ Remaining(orders[i]) \in Nat \ {0}
           /\ FillQuantity(i) = 0 => Participates /\ turn.capacity = 0
           /\ FillQuantity(i) > 0 => ~(Participates /\ turn.capacity = 0)
<1>1. /\ i \in OrderIds /\ Active(orders[i])
      /\ orders[i].filled \in Nat /\ orders[i].quantity \in Nat
      /\ turn.capacity \in Nat
  BY InTurn, OrderFacts DEF CanFill
<1>2. orders[i].filled < orders[i].quantity
  BY <1>1 DEF Timed, TimedOrder
<1>3. Remaining(orders[i]) \in Nat \ {0}
  BY <1>1, <1>2 DEF Remaining
<1> QED BY <1>1, <1>3 DEF FillQuantity, Lower

\* The stops that are alive and in reach, and the targets that may still be
\* paid, as one order is visited.
LEMMA VisitTargets ==
    ASSUME IndInv, [AnyNext]_vars, Timed, InCandle, TargetsWait,
           NEW i \in turn.waiting, phase = "settle", UNCHANGED <<slot, fills>>,
           SettleSkip(i) \/ SettleDry(i) \/ SettleReject(i)
    PROVE  TargetsWait'
<1>1. /\ turn'.symbol = turn.symbol /\ turn'.bar = turn.bar
      /\ turn'.capacity = turn.capacity
      /\ turn'.waiting = turn.waiting \ {i} /\ UNCHANGED positions /\ Turn(i)
  BY DEF SettleSkip, SettleDry, SettleReject, Visited, IndInv, TypeOK, TurnRecord,
         books
<1>2. LiveStops' \subseteq LiveStops
  <2>1. ~(\E s \in Symbols : Liquidate(s))
    BY DEF Liquidate, Opened
  <2> QED BY <1>1, <2>1, StopsShrink
<1>3. i \in OrderIds /\ turn.waiting \subseteq OrderIds
  BY InTurn DEF IndInv, TypeOK
<1> SUFFICES ASSUME NEW t \in turn.waiting \ {i},
                    IsTarget(orders'[t]), Reachable(orders'[t], turn.bar),
                    Active(orders'[t])
             PROVE  \/ LiveStops' = {} /\ ~StopFilled'
                    \/ /\ LiveStops' \subseteq turn'.waiting /\ ~StopFilled'
                       /\ Held(turn.symbol)' = 0
                    \/ Participates /\ turn'.capacity = 0
  BY <1>1 DEF TargetsWait
<1>4. /\ IsTarget(orders[t]) /\ Reachable(orders[t], turn.bar)
      /\ Active(orders[t])
  <2>1. t \in OrderIds /\ KeptOrder(t)
    BY <1>3, StepKeeps
  <2> QED BY <2>1, ReachStays DEF KeptOrder, TermFields, IsTarget
<1>5. CASE LiveStops = {} /\ ~StopFilled
  BY <1>2, <1>5, SameFills
<1>6. CASE Participates /\ turn.capacity = 0
  BY <1>1, <1>6
<1>7. CASE /\ LiveStops \subseteq turn.waiting /\ ~StopFilled
           /\ Held(turn.symbol) = 0 /\ LiveStops # {}
           /\ ~(Participates /\ turn.capacity = 0)
  <2>1. StopFirst(i)
    BY <1>1, <1>7, TurnOrder
  <2>2. i \notin LiveStops'
    <3>1. CASE SettleSkip(i)
      <4>1. ~Active(orders[i])
        BY <2>1, <3>1 DEF SettleSkip, CanFill, StopFirst
      <4>2. i \notin LiveStops
        BY <4>1 DEF LiveStops, Stops, Eligible
      <4> QED BY <1>2, <4>2
    <3>2. CASE SettleDry(i)
      BY <1>7, <3>2, DryCandle DEF SettleDry
    <3>3. CASE SettleReject(i)
      <4>1. orders'[i] = Transition(Woken(i), "REJECTED")
        BY <1>3, <3>3 DEF SettleReject, IndInv, TypeOK, OrderIds
      <4>2. "REJECTED" \in Status
        BY DEF Status, TerminalStatus
      <4>3. ~Active(orders'[i])
        BY <4>1, <4>2, WokenKeeps, TransitionKeeps DEF Active, ActiveStatus
      <4> QED BY <4>3 DEF LiveStops, Stops, Eligible
    <3> QED BY <3>1, <3>2, <3>3
  <2>3. LiveStops' \subseteq turn'.waiting
    BY <1>1, <1>2, <1>7, <2>2
  <2>4. Held(turn.symbol)' = 0
    BY <1>1, <1>7 DEF Held
  <2> QED BY <1>7, <2>3, <2>4, SameFills
<1> QED BY <1>4, <1>5, <1>6, <1>7 DEF TargetsWait

\* A fill while targets wait: it is no stop's.
LEMMA FillTargets ==
    ASSUME IndInv, [AnyNext]_vars, Timed, InCandle, TargetsWait, StopsPrevail,
           NEW i \in turn.waiting, SettleFill(i)
    PROVE  TargetsWait' /\ StopsPrevail'
<1>1. /\ Turn(i) /\ CanFill(i) /\ phase = "settle" /\ FillQuantity(i) > 0
      /\ UNCHANGED <<slot, phase>>
  BY FillEffect DEF SettleFill, Turn
<1>2. /\ turn'.symbol = turn.symbol /\ turn'.bar = turn.bar
      /\ turn'.waiting = turn.waiting \ {i}
  BY FillHeld
<1>3. LiveStops' \subseteq LiveStops
  <2>1. ~(\E s \in Symbols : Liquidate(s))
    BY <1>1 DEF Liquidate, Opened
  <2> QED BY <1>1, <1>2, <2>1, StopsShrink
<1>4. i \in OrderIds /\ turn.waiting \subseteq OrderIds
  BY InTurn DEF IndInv, TypeOK
\* A target in reach that still waits, i itself perhaps, sees no live stop.
<1>5. ASSUME NEW t \in turn.waiting, IsTarget(orders[t]),
             Reachable(orders[t], turn.bar), Active(orders[t])
      PROVE  LiveStops = {} /\ ~StopFilled
  <2>1. ~(Participates /\ turn.capacity = 0)
    BY <1>1, DryCandle
  <2>2. CASE /\ LiveStops \subseteq turn.waiting /\ ~StopFilled
             /\ Held(turn.symbol) = 0 /\ LiveStops # {}
    <3>1. StopFirst(i)
      BY <1>1, <2>2, TurnOrder
    <3>2. orders[i].side = "SELL"
      BY <3>1 DEF StopFirst, IsStop
    <3>3. Remaining(orders[i]) <= 0
      BY <2>2, <3>2, FillEffect
    <3>4. Remaining(orders[i]) \in Nat \ {0}
      BY <1>1, DryCandle
    <3> QED BY <3>3, <3>4
  <2> QED BY <1>1, <1>5, <2>1, <2>2 DEF TargetsWait
<1>6. LiveStops = {} => ~IsStop(orders[i])
  BY <1>1, TurnOrder
<1>7. TargetsWait'
  <2> SUFFICES ASSUME NEW t \in turn.waiting \ {i}, IsTarget(orders'[t]),
                      Reachable(orders'[t], turn.bar), Active(orders'[t])
               PROVE  LiveStops' = {} /\ ~StopFilled'
    BY <1>2 DEF TargetsWait
  <2>1. t \in OrderIds /\ KeptOrder(t)
    BY <1>4, StepKeeps
  <2>2. /\ IsTarget(orders[t]) /\ Reachable(orders[t], turn.bar)
        /\ Active(orders[t])
    BY <2>1, ReachStays DEF KeptOrder, TermFields, IsTarget
  <2> QED BY <1>3, <1>5, <1>6, <2>2, AddedFill
<1>8. StopsPrevail'
  <2> SUFFICES ASSUME TargetFilled' PROVE LiveStops' = {} /\ ~StopFilled'
    BY DEF StopsPrevail
  <2>1. LiveStops = {} /\ ~StopFilled
    <3>1. CASE TargetFilled
      BY <3>1 DEF StopsPrevail
    <3>2. CASE IsTarget(orders[i])
      BY <1>1, <1>5, <3>2 DEF CanFill
    <3> QED BY <3>1, <3>2, AddedFill
  <2> QED BY <1>3, <1>6, <2>1, AddedFill
<1> QED BY <1>7, <1>8

\* The candle that begins: if stops and targets are both in its reach and
\* something is held, the targets do not wait at all.
LEMMA BeginTargets ==
    ASSUME IndInv, NEW s \in Symbols, BeginBar(s)
    PROVE  TargetsWait' /\ StopsPrevail'
<1>1. PICK bar \in Bars :
         /\ turn' = [symbol |-> s, bar |-> bar, capacity |-> Capacity(bar),
                     waiting |-> IF Ambiguous(s, bar)
                                 THEN Eligible(s) \ Targets(s, bar)
                                 ELSE Eligible(s)]
         /\ fills' = {} /\ UNCHANGED <<orders, slot, positions>>
  BY DEF BeginBar, books
<1>2. /\ turn'.symbol = s /\ turn'.bar = bar
      /\ turn'.waiting = IF Ambiguous(s, bar) THEN Eligible(s) \ Targets(s, bar)
                                              ELSE Eligible(s)
  BY <1>1
<1>3. ~StopFilled' /\ ~TargetFilled'
  BY <1>1 DEF StopFilled, TargetFilled
<1>4. LiveStops' = Stops(s, bar) /\ Held(s)' = Held(s)
  BY <1>1, <1>2 DEF LiveStops, Stops, Eligible, OrdersOf, OrderIds, Held
<1>5. ASSUME NEW t \in turn'.waiting, IsTarget(orders[t]),
             Reachable(orders[t], bar)
      PROVE  \/ LiveStops' = {}
             \/ LiveStops' \subseteq turn'.waiting /\ Held(s)' = 0
  <2>1. t \in Eligible(s)
    BY <1>2
  <2>2. t \in Targets(s, bar)
    BY <1>5, <2>1 DEF Targets
  <2>3. ~Ambiguous(s, bar) /\ turn'.waiting = Eligible(s)
    BY <1>2, <2>2
  <2>4. Stops(s, bar) = {} \/ ~(Held(s) > 0)
    BY <2>2, <2>3 DEF Ambiguous
  <2>5. Held(s) \in Nat
    BY DEF IndInv, TypeOK, Held, PositionRecord
  <2>6. Stops(s, bar) \subseteq Eligible(s)
    BY DEF Stops
  <2> QED BY <1>4, <2>3, <2>4, <2>5, <2>6
<1>6. TargetsWait'
  <2> SUFFICES ASSUME NEW t \in turn'.waiting, IsTarget(orders'[t]),
                      Reachable(orders'[t], turn'.bar)
               PROVE  \/ LiveStops' = {} /\ ~StopFilled'
                      \/ /\ LiveStops' \subseteq turn'.waiting /\ ~StopFilled'
                         /\ Held(turn.symbol)' = 0
    BY DEF TargetsWait
  <2>1. IsTarget(orders[t]) /\ Reachable(orders[t], bar)
    BY <1>1, <1>2 DEF IsTarget
  <2>2. Held(turn.symbol)' = Held(s)'
    BY <1>2 DEF Held
  <2> QED BY <1>3, <1>5, <2>1, <2>2
<1> QED BY <1>3, <1>6 DEF StopsPrevail

\* Targets keep waiting behind the stops of their turn.
LEMMA StepTargets ==
    IndInv /\ IndInv' /\ [AnyNext]_vars /\ Timed /\ InCandle /\ TargetsWait
      /\ StopsPrevail
      => TargetsWait' /\ StopsPrevail'
<1> SUFFICES ASSUME IndInv, IndInv', [AnyNext]_vars, Timed, InCandle, TargetsWait,
                    StopsPrevail
             PROVE  TargetsWait' /\ StopsPrevail'
  OBVIOUS
<1>1. ASSUME NEW s \in Symbols, BeginBar(s) PROVE TargetsWait' /\ StopsPrevail'
  BY <1>1, BeginTargets
<1>2. ASSUME NEW i \in turn.waiting, SettleFill(i)
      PROVE  TargetsWait' /\ StopsPrevail'
  BY <1>2, FillTargets
<1>3. CASE fills = {} /\ UNCHANGED fills /\ phase' # "settle"
  BY <1>3 DEF TargetsWait, StopsPrevail, TargetFilled
<1>4. CASE EndBar \/ EndApply
  <2>1. fills' = {} /\ phase' # "settle"
    BY <1>4 DEF EndBar, EndApply, Leave
  <2> QED BY <2>1 DEF TargetsWait, StopsPrevail, TargetFilled
<1>5. ASSUME UNCHANGED <<slot, fills>>, turn'.symbol = turn.symbol,
             turn'.bar = turn.bar, ~(\E s \in Symbols : Liquidate(s))
      PROVE  StopsPrevail'
  BY <1>5, StopsShrink, SameFills DEF StopsPrevail
<1>6. ASSUME NEW i \in turn.waiting,
             SettleSkip(i) \/ SettleDry(i) \/ SettleReject(i)
      PROVE  TargetsWait' /\ StopsPrevail'
  <2>1. /\ UNCHANGED <<slot, fills>> /\ phase = "settle"
        /\ turn'.symbol = turn.symbol /\ turn'.bar = turn.bar
    BY <1>6 DEF SettleSkip, SettleDry, SettleReject, Visited, Turn, clock,
                IndInv, TypeOK, TurnRecord
  <2>2. ~(\E s \in Symbols : Liquidate(s))
    BY <2>1 DEF Liquidate, Opened
  <2> QED BY <1>5, <1>6, <2>1, <2>2, VisitTargets
<1>7. CASE CallStrategy \/ AnyEvaluate \/ ApplyTrade \/ ApplyCancel
  <2>1. UNCHANGED <<slot, fills, turn>> /\ phase' # "settle"
    BY <1>7 DEF CallStrategy, AnyEvaluate, Deliver, Raise, Fail, ApplyTrade, ApplyCancel,
                clock
  <2>2. ~(\E s \in Symbols : Liquidate(s))
    BY <1>7 DEF CallStrategy, AnyEvaluate, ApplyTrade, ApplyCancel, Liquidate,
                Opened
  <2> QED BY <1>5, <2>1, <2>2 DEF TargetsWait
<1>8. CASE UNCHANGED vars
  BY <1>8 DEF vars, TargetsWait, StopsPrevail, LiveStops, Stops, Eligible,
              OrdersOf, OrderIds, StopFilled, TargetFilled, Held
<1>9. CASE \/ Decide \/ StartOpenings \/ EndSlot \/ SessionClose
           \/ \E s \in Symbols : BarOpen(s) \/ Liquidate(s)
  <2>1. phase \in {"decide", "inside", "barOpen", "close"} /\ UNCHANGED fills
    BY <1>9, LiquidateEffect
       DEF Decide, StartOpenings, EndSlot, SessionClose, BarOpen, Opened, clock
  <2>2. phase' # "settle"
    BY <1>9, LiquidateEffect
       DEF Decide, StartOpenings, EndSlot, SessionClose, BarOpen, Opened, clock,
           Fail
  <2> QED BY <1>3, <2>1, <2>2 DEF InCandle
<1> QED BY <1>1, <1>2, <1>4, <1>6, <1>7, <1>8, <1>9
        DEF AnyNext, AnyStep, Loop, SettleOne, Ended

LEMMA AnyStopsFirst == AnySpec => []StopBeatsTarget
<1>1. Init => TargetsWait /\ StopsPrevail
  BY DEF Init, TargetsWait, StopsPrevail, TargetFilled
<1>2. IndInv /\ IndInv' /\ [AnyNext]_vars /\ Timed /\ InCandle /\ TargetsWait
        /\ StopsPrevail
        => TargetsWait' /\ StopsPrevail'
  BY StepTargets
<1>3. StopsPrevail => StopBeatsTarget
  <2> SUFFICES ASSUME StopsPrevail, NEW f \in fills, IsTarget(orders[f.order]),
                      NEW j \in OrdersOf(turn.symbol), IsStop(orders[j])
               PROVE  /\ \A g \in fills : g.order # j
                      /\ ~(/\ j \in Eligible(turn.symbol)
                           /\ Reachable(orders[j], turn.bar))
    BY DEF StopBeatsTarget
  <2>1. LiveStops = {} /\ ~StopFilled
    BY DEF StopsPrevail, TargetFilled
  <2> QED BY <2>1 DEF LiveStops, Stops, StopFilled
<1> QED BY <1>1, <1>2, <1>3, CandleInvariant, PTL DEF AnySpec

\* A candle never pays a profit target while it also reaches a live stop, also
\* where nothing was held when it began, or where volume ran out: of two paths
\* the candle may have taken, the unfavourable one is assumed.
THEOREM StopsComeFirst == Spec => []StopBeatsTarget
  BY AnyStopsFirst, SpecIsAny, PTL

=============================================================================
