-------------------------- MODULE SimulationProofs -------------------------
(***************************************************************************)
(* Theorems about the event loop, for all symbols, candles, intents,       *)
(* charges and numbers of sessions and slots.                              *)
(***************************************************************************)
EXTENDS Simulation, TLAPS

(***************************************************************************)
(* Charges are never negative and never fall as an order executes more.    *)
(* The engine's affordability test relies on this: it is made for the      *)
(* whole remainder of an order, and a fill of a part of it costs no more.  *)
(***************************************************************************)

\* Integer division by the same positive number keeps the order.
LEMMA DivMonotone ==
    ASSUME NEW a \in Nat, NEW b \in Nat, NEW d \in Nat \ {0}, a <= b
    PROVE  /\ a \div d \in Nat
           /\ a \div d <= b \div d
  OBVIOUS

\* Scaling by the same factor keeps the order.
LEMMA TimesMonotone ==
    ASSUME NEW a \in Nat, NEW b \in Nat, NEW r \in Nat, a <= b
    PROVE  /\ a * r \in Nat /\ r * a \in Nat
           /\ a * r <= b * r /\ r * a <= r * b
  OBVIOUS

\* The profile's fields, for the steps that need only their types.
LEMMA ProfileTypes ==
    /\ RateScale \in Nat \ {0} /\ Paisa \in Nat \ {0}
    /\ \A name \in RateName : Profile.rate[name] \in Nat
    /\ Profile.cap \in Nat /\ Profile.minimum \in Nat
    /\ Profile.squareOff \in Nat
  BY CostAssumption

\* Rounding to the paisa keeps the order.
LEMMA MoneyMonotone ==
    ASSUME NEW a \in Nat, NEW b \in Nat, a <= b
    PROVE  /\ Money(a) \in Nat
           /\ Money(a) <= Money(b)
<1> DEFINE unit == RateScale * Paisa
<1>1. unit \in Nat \ {0}
  BY ProfileTypes
<1>2. 2 * unit \in Nat \ {0}
  BY <1>1
<1>3. /\ 2 * a + unit \in Nat /\ 2 * b + unit \in Nat
      /\ 2 * a + unit <= 2 * b + unit
  BY <1>1
<1> DEFINE low  == (2 * a + unit) \div (2 * unit)
           high == (2 * b + unit) \div (2 * unit)
<1>4. low \in Nat /\ high \in Nat /\ low <= high
  <2> HIDE DEF unit
  <2> QED BY <1>2, <1>3, DivMonotone
<1>5. Paisa * low \in Nat /\ Paisa * low <= Paisa * high
  <2> HIDE DEF low, high
  <2> QED BY <1>4, ProfileTypes, TimesMonotone
<1>6. Money(a) = Paisa * low /\ Money(b) = Paisa * high
  BY DEF Money
<1> QED BY <1>5, <1>6

\* Every component grows with what it is charged on.
LEMMA LeviedMonotone ==
    ASSUME NEW a \in Nat, NEW b \in Nat, a <= b, NEW name \in RateName
    PROVE  /\ Levied(name, a) \in Nat
           /\ Levied(name, a) <= Levied(name, b)
<1> DEFINE rate == Profile.rate[name]
<1>1. rate \in Nat
  BY ProfileTypes
<1>2. a * rate \in Nat /\ b * rate \in Nat /\ a * rate <= b * rate
  <2> HIDE DEF rate
  <2> QED BY <1>1, TimesMonotone
<1> QED BY <1>2, MoneyMonotone DEF Levied

\* Brokerage, between its cap and its minimum, does not fall with the turnover.
LEMMA BrokerageMonotone ==
    ASSUME NEW a \in Nat, NEW b \in Nat, a <= b
    PROVE  /\ Brokerage(a) \in Nat
           /\ Brokerage(a) <= Brokerage(b)
<1> DEFINE rate  == Profile.rate["brokerage"]
           floor == Profile.rate["minimumCap"]
           cap   == RateScale * Profile.cap
           least == RateScale * Profile.minimum
           due(t) == Higher(Lower(cap, t * rate), Lower(least, t * floor))
<1>1. rate \in Nat /\ floor \in Nat
  BY ProfileTypes DEF RateName
<1>2. cap \in Nat /\ least \in Nat
  BY ProfileTypes
<1>3. /\ a * rate \in Nat /\ b * rate \in Nat /\ a * rate <= b * rate
      /\ a * floor \in Nat /\ b * floor \in Nat /\ a * floor <= b * floor
  <2> HIDE DEF rate, floor
  <2> QED BY <1>1, TimesMonotone
<1>4. due(a) \in Nat /\ due(b) \in Nat /\ due(a) <= due(b)
  <2> HIDE DEF rate, floor, cap, least
  <2> QED BY <1>2, <1>3 DEF Higher, Lower
<1>5. Brokerage(a) = Money(due(a)) /\ Brokerage(b) = Money(due(b))
  BY DEF Brokerage
<1> HIDE DEF due
<1> QED BY <1>4, <1>5, MoneyMonotone

\* The remaining charge does not fall with the turnover.
LEMMA OtherMonotone ==
    ASSUME NEW a \in Nat, NEW b \in Nat, a <= b, NEW forced \in BOOLEAN
    PROVE  /\ OtherCharge(a, forced) \in Nat
           /\ OtherCharge(a, forced) <= OtherCharge(b, forced)
<1> DEFINE rate  == Profile.rate["other"]
           extra == IF forced THEN RateScale * Profile.squareOff ELSE 0
<1>1. rate \in Nat /\ extra \in Nat
  BY ProfileTypes DEF RateName
<1>2. a * rate \in Nat /\ b * rate \in Nat /\ a * rate <= b * rate
  <2> HIDE DEF rate
  <2> QED BY <1>1, TimesMonotone
<1>3. /\ a * rate + extra \in Nat /\ b * rate + extra \in Nat
      /\ a * rate + extra <= b * rate + extra
  <2> HIDE DEF rate, extra
  <2> QED BY <1>1, <1>2
<1>4. /\ OtherCharge(a, forced) = Money(a * rate + extra)
      /\ OtherCharge(b, forced) = Money(b * rate + extra)
  BY DEF OtherCharge
<1> QED BY <1>3, <1>4, MoneyMonotone

\* Nor does what a tax is taken of.
LEMMA TaxedMonotone ==
    ASSUME NEW a \in Nat, NEW b \in Nat, a <= b, NEW name
    PROVE  /\ Taxed(name, a) \in Nat
           /\ Taxed(name, a) <= Taxed(name, b)
  BY DEF Taxed

\* What ReferenceCostModel.cumulative charges an order is a natural number
\* and does not fall when the order executes more: with it, the charge of a
\* partial fill is never negative and never above that of the whole remainder.
THEOREM CumulativeMonotone ==
    ASSUME NEW a \in Nat, NEW b \in Nat, a <= b,
           NEW side \in Side, NEW forced \in BOOLEAN
    PROVE  /\ Cumulative(side, a, forced) \in Nat
           /\ Cumulative(side, a, forced) <= Cumulative(side, b, forced)
<1> DEFINE duty(t) == IF side = "SELL" THEN Levied("stt", t)
                                       ELSE Levied("stamp", t)
           taxable(t) == Taxed("brokerage", Brokerage(t))
                           + Taxed("exchange", Levied("exchange", t))
                           + Taxed("sebi", Levied("sebi", t))
                           + Taxed("ipft", Levied("ipft", t))
                           + Taxed("other", OtherCharge(t, forced))
           parts(t) == Brokerage(t) + Levied("exchange", t) + Levied("sebi", t)
                         + Levied("ipft", t) + OtherCharge(t, forced) + duty(t)
<1>1. ASSUME NEW t \in Nat, NEW u \in Nat, t <= u
      PROVE  /\ parts(t) \in Nat /\ parts(t) <= parts(u)
             /\ Levied("gst", taxable(t)) \in Nat
             /\ Levied("gst", taxable(t)) <= Levied("gst", taxable(u))
  <2>1. /\ Brokerage(t) \in Nat /\ Brokerage(u) \in Nat
        /\ Brokerage(t) <= Brokerage(u)
    BY <1>1, BrokerageMonotone
  <2>2. /\ OtherCharge(t, forced) \in Nat /\ OtherCharge(u, forced) \in Nat
        /\ OtherCharge(t, forced) <= OtherCharge(u, forced)
    BY <1>1, OtherMonotone
  <2>3. \A name \in RateName :
           /\ Levied(name, t) \in Nat /\ Levied(name, u) \in Nat
           /\ Levied(name, t) <= Levied(name, u)
    BY <1>1, LeviedMonotone
  <2>4. duty(t) \in Nat /\ duty(u) \in Nat /\ duty(t) <= duty(u)
    BY <2>3 DEF RateName
  <2>5. parts(t) \in Nat /\ parts(t) <= parts(u)
    <3> HIDE DEF duty
    <3> QED BY <2>1, <2>2, <2>3, <2>4 DEF RateName
  <2>6. taxable(t) \in Nat /\ taxable(u) \in Nat /\ taxable(t) <= taxable(u)
    <3>1. ASSUME NEW name, NEW x \in Nat, NEW y \in Nat, x <= y
          PROVE  /\ Taxed(name, x) \in Nat /\ Taxed(name, y) \in Nat
                 /\ Taxed(name, x) <= Taxed(name, y)
      BY <3>1, TaxedMonotone
    <3>2. /\ Taxed("brokerage", Brokerage(t)) \in Nat
          /\ Taxed("brokerage", Brokerage(u)) \in Nat
          /\ Taxed("brokerage", Brokerage(t)) <= Taxed("brokerage", Brokerage(u))
      BY <2>1, <3>1
    <3>3. \A name \in {"exchange", "sebi", "ipft"} :
             /\ Taxed(name, Levied(name, t)) \in Nat
             /\ Taxed(name, Levied(name, u)) \in Nat
             /\ Taxed(name, Levied(name, t)) <= Taxed(name, Levied(name, u))
      BY <2>3, <3>1 DEF RateName
    <3>4. /\ Taxed("other", OtherCharge(t, forced)) \in Nat
          /\ Taxed("other", OtherCharge(u, forced)) \in Nat
          /\ Taxed("other", OtherCharge(t, forced))
               <= Taxed("other", OtherCharge(u, forced))
      BY <2>2, <3>1
    <3> QED BY <3>2, <3>3, <3>4
  <2>7. /\ Levied("gst", taxable(t)) \in Nat
        /\ Levied("gst", taxable(t)) <= Levied("gst", taxable(u))
    <3> HIDE DEF taxable
    <3> QED BY <2>6, LeviedMonotone DEF RateName
  <2> QED BY <2>5, <2>7
<1>2. ASSUME NEW t \in Nat
      PROVE  Cumulative(side, t, forced)
               = IF t = 0 THEN 0 ELSE parts(t) + Levied("gst", taxable(t))
  BY DEF Cumulative
<1> HIDE DEF parts, taxable
<1>3. ASSUME NEW t \in Nat PROVE Cumulative(side, t, forced) \in Nat
  BY <1>1, <1>2
<1>4. CASE a = 0
  BY <1>2, <1>3, <1>4
<1>5. CASE a # 0
  <2>1. b # 0
    BY <1>5
  <2> QED BY <1>1, <1>2, <1>3, <1>5, <2>1
<1> QED BY <1>4, <1>5

(***************************************************************************)
(* The constants.                                                          *)
(***************************************************************************)

\* The parts of the assumptions that the steps below cite.
LEMMA Constants ==
    /\ Symbols # {}
    /\ Sessions \in Nat \ {0} /\ Slots \in Nat \ {0}
    /\ ExitLead \in Nat /\ StartCash \in Nat \ {0}
    /\ RequestLimit \in Nat /\ MaxRequests \in Nat
    /\ Participates \in BOOLEAN /\ RateNum \in Nat /\ RateDen \in Nat \ {0}
    /\ SlipDen \in Nat \ {0} /\ SlipNum \in Nat /\ SlipNum < SlipDen
    /\ \A bar \in Bars : bar \in BarType
    /\ \A intent \in Intents : intent \in IntentType
  BY SimulationAssumption, SlippageAssumption, InputAssumption

\* A function on an initial segment of the positive numbers is a sequence.
LEMMA SegmentSeq ==
    ASSUME NEW S, NEW n \in Nat, NEW f \in [1..n -> S]
    PROVE  f \in Seq(S) /\ Len(f) = n
  OBVIOUS

\* The cutoff is one of the session's openings: the one the clock's
\* arithmetic yields, if it is among them, is the first that is late enough.
LEMMA CutoffType == Cutoff \in 1..Slots
<1> DEFINE wanted == 2 * Slots - ExitLead
           late == {k \in 1..Slots : OpeningTime(k) >= wanted}
           first == IF wanted <= 0 THEN 1 ELSE OpeningFrom(wanted)
<1>1. CASE late = {}
  BY <1>1, Constants DEF Cutoff
<1>2. CASE late # {}
  <2>1. wanted \in Int /\ Slots \in Nat \ {0}
    BY Constants
  <2>2. PICK j \in 1..Slots : OpeningTime(j) >= wanted
    BY <1>2
  <2>3. first \in 1..Slots
    <3> HIDE DEF wanted
    <3> QED BY <2>1, <2>2 DEF OpeningTime, OpeningFrom
  <2>4. first \in late /\ \A k \in late : first <= k
    <3>1. OpeningTime(first) >= wanted
      <4> HIDE DEF wanted
      <4> QED BY <2>1 DEF OpeningTime, OpeningFrom
    <3>2. ASSUME NEW k \in 1..Slots, OpeningTime(k) >= wanted
          PROVE  first <= k
      <4> HIDE DEF wanted
      <4> QED BY <2>1, <3>2 DEF OpeningTime, OpeningFrom
    <3> QED BY <2>3, <3>1, <3>2
  <2> QED BY <1>2, <2>4 DEF Cutoff
<1> QED BY <1>1, <1>2

(***************************************************************************)
(* Orders and their prices.                                                *)
(***************************************************************************)

\* A transition changes the status and the trigger mark, nothing else.
LEMMA TransitionType ==
    ASSUME NEW order \in OrderRecord, NEW status \in Status
    PROVE  /\ Transition(order, status) \in OrderRecord
           /\ Transition(order, status).status = status
           /\ \A field \in {"reference", "symbol", "side", "quantity", "type",
                            "price", "group", "day", "created", "forced",
                            "eligible", "filled", "turnover"} :
                 Transition(order, status)[field] = order[field]
<1>1. (order.triggered \/ status = "TRIGGERED") \in BOOLEAN
  OBVIOUS
<1> QED BY <1>1 DEF Transition, OrderRecord

\* The facts about orders that typing alone does not give.
OrdersOK ==
    \A i \in OrderIds : /\ orders[i].filled <= orders[i].quantity
                        /\ orders[i].forced => orders[i].side = "SELL"

\* Moving a set of orders changes no quantity and makes or loses no order.
LEMMA MoveType ==
    ASSUME orders \in Seq(OrderRecord), NEW ids, NEW status \in Status
    PROVE  /\ Move(ids, status) \in Seq(OrderRecord)
           /\ Len(Move(ids, status)) = Len(orders)
           /\ \A i \in OrderIds :
                Move(ids, status)[i]
                  = IF i \in ids /\ Active(orders[i])
                    THEN Transition(orders[i], status) ELSE orders[i]
<1>1. OrderIds = 1..Len(orders) /\ Len(orders) \in Nat
  BY DEF OrderIds
<1>2. \A i \in OrderIds : orders[i] \in OrderRecord
  BY <1>1
<1>3. Move(ids, status) \in [1..Len(orders) -> OrderRecord]
  BY <1>1, <1>2, TransitionType DEF Move
<1>4. \A i \in OrderIds :
         Move(ids, status)[i] = IF i \in ids /\ Active(orders[i])
                                THEN Transition(orders[i], status) ELSE orders[i]
  BY DEF Move
<1> HIDE DEF OrderIds
<1> QED BY <1>1, <1>3, <1>4, SegmentSeq

\* The clock's readings and the openings computed from them are natural.
LEMMA NowType ==
    ASSUME slot \in 1..Slots
    PROVE  /\ Now \in Nat
           /\ OpeningAfter(Now) \in Nat /\ OpeningFrom(Now) \in Nat
<1>1. Now \in Nat
  BY Constants DEF Now, OpeningTime
<1> HIDE DEF Now
<1> QED BY <1>1 DEF OpeningAfter, OpeningFrom

\* A new order is well formed, and unfilled.
LEMMA NewOrderType ==
    ASSUME slot \in 1..Slots, session \in Nat \ {0},
           NEW reference \in References \cup {ForcedReference},
           NEW intent \in IntentType, NEW forced \in BOOLEAN
    PROVE  /\ NewOrder(reference, intent, forced) \in OrderRecord
           /\ NewOrder(reference, intent, forced).filled = 0
           /\ NewOrder(reference, intent, forced).side = intent.side
           /\ NewOrder(reference, intent, forced).forced = forced
<1>1. Now \in Nat /\ OpeningAfter(Now) \in Nat /\ OpeningFrom(Now) \in Nat
  BY NowType
<1> HIDE DEF Now
<1> QED BY <1>1 DEF NewOrder, OrderRecord, IntentType, Status, ActiveStatus,
                    TerminalStatus

\* Base and executed prices are natural numbers.
LEMMA PriceType ==
    ASSUME NEW order \in OrderRecord, NEW bar \in BarType
    PROVE  /\ BasePrice(order, bar) \in Nat
           /\ ExecutionPrice(order, BasePrice(order, bar)) \in Nat
<1> DEFINE base == BasePrice(order, bar)
<1>1. base \in Nat
  <2>1. /\ bar.open \in Nat /\ bar.low \in Nat /\ bar.high \in Nat
        /\ order.price \in Nat
    BY DEF BarType, OrderRecord
  <2>2. order.type \in OrderType
    BY DEF OrderRecord
  <2> QED BY <2>1, <2>2 DEF BasePrice, OrderType, NoPrice, Lower, Higher
<1> HIDE DEF base
<1>2. SlipDen + SlipNum \in Nat /\ SlipDen - SlipNum \in Nat
  BY Constants
<1>3. Slipped(base, order.side) \in Nat
  BY <1>1, <1>2, TimesMonotone DEF Slipped
<1>4. order.price * SlipDen \in Nat
  BY Constants DEF OrderRecord
<1>5. order.side \in {"BUY", "SELL"} /\ order.type \in OrderType
  BY DEF OrderRecord, Side
<1> HIDE DEF Slipped
<1>6. ExecutionPrice(order, base) \in Nat
  BY <1>3, <1>4, <1>5 DEF ExecutionPrice, Lower, Higher
<1> QED BY <1>1, <1>6 DEF base

(***************************************************************************)
(* Fills and their bookings.                                               *)
(***************************************************************************)

\* A fill is charged a natural number, and no more than a larger one.
LEMMA IncrementalMonotone ==
    ASSUME NEW order \in OrderRecord, NEW q \in Nat, NEW r \in Nat, q <= r,
           NEW price \in Nat
    PROVE  /\ Incremental(order, q, price) \in Nat
           /\ Incremental(order, q, price) <= Incremental(order, r, price)
           /\ q * price \in Nat /\ q * price <= r * price
<1> DEFINE before == order.turnover
           charge(t) == Cumulative(order.side, t, order.forced)
<1>1. before \in Nat /\ order.side \in Side /\ order.forced \in BOOLEAN
  BY DEF OrderRecord
<1>2. q * price \in Nat /\ r * price \in Nat /\ q * price <= r * price
  BY TimesMonotone
<1>3. ASSUME NEW t \in Nat, NEW u \in Nat, t <= u
      PROVE  charge(t) \in Nat /\ charge(u) \in Nat /\ charge(t) <= charge(u)
  BY <1>1, <1>3, CumulativeMonotone
<1>4. /\ before + q * price \in Nat /\ before + r * price \in Nat
      /\ before <= before + q * price
      /\ before + q * price <= before + r * price
  <2> HIDE DEF before
  <2> QED BY <1>1, <1>2
<1>5. /\ Incremental(order, q, price) = charge(before + q * price) - charge(before)
      /\ Incremental(order, r, price) = charge(before + r * price) - charge(before)
  BY DEF Incremental
<1> HIDE DEF charge, before
<1>6. /\ charge(before) \in Nat
      /\ charge(before) <= charge(before + q * price)
      /\ charge(before + q * price) \in Nat
      /\ charge(before + r * price) \in Nat
      /\ charge(before + q * price) <= charge(before + r * price)
  BY <1>1, <1>3, <1>4
<1> QED BY <1>2, <1>5, <1>6

\* A sale out of a position releases no more than its basis.
LEMMA ReleasedType ==
    ASSUME NEW position \in PositionRecord, NEW quantity \in Nat \ {0},
           quantity <= position.quantity
    PROVE  /\ ReleasedBasis(position, quantity) \in Nat
           /\ ReleasedBasis(position, quantity) <= position.basis
<1> DEFINE basis == position.basis
           whole == position.quantity
<1>1. basis \in Nat /\ whole \in Nat \ {0}
  BY DEF PositionRecord
<1>2. /\ (basis * quantity) \div whole \in Nat
      /\ (basis * quantity) \div whole <= (basis * whole) \div whole
  <2>1. /\ basis * quantity \in Nat /\ basis * whole \in Nat
        /\ basis * quantity <= basis * whole
    <3> HIDE DEF basis, whole
    <3> QED BY <1>1, TimesMonotone DEF whole
  <2> HIDE DEF basis, whole
  <2> QED BY <1>1, <2>1, DivMonotone
<1>3. (basis * whole) \div whole = basis
  <2> HIDE DEF basis, whole
  <2> QED BY <1>1
<1> QED BY <1>1, <1>2, <1>3 DEF ReleasedBasis

\* Booking a fill that inventory covers leaves a position and an account.
LEMMA BookingType ==
    ASSUME NEW held \in PositionRecord, NEW book \in AccountRecord,
           NEW s \in Symbols, NEW side \in Side, NEW quantity \in Nat \ {0},
           NEW turnover \in Nat, NEW cost \in Nat,
           side = "SELL" => quantity <= held.quantity
    PROVE  /\ Filled(held, side, quantity, turnover, cost) \in PositionRecord
           /\ Booked(held, side, quantity, turnover, cost) \in PositionRecord
           /\ Charged(book, s, held, side, quantity, turnover, cost)
                \in AccountRecord
<1> DEFINE after == Filled(held, side, quantity, turnover, cost)
<1>1. after \in PositionRecord
  <2>1. CASE side = "BUY"
    <3>1. /\ held.quantity + quantity \in Nat /\ held.basis + turnover \in Nat
          /\ held.bought + quantity \in Nat /\ held.buyValue + turnover \in Nat
          /\ held.costs + cost \in Nat
      BY DEF PositionRecord
    <3>2. after = [held EXCEPT !.quantity = @ + quantity, !.basis = @ + turnover,
                               !.bought = @ + quantity,
                               !.buyValue = @ + turnover, !.costs = @ + cost]
      BY <2>1 DEF Filled
    <3> QED BY <3>1, <3>2 DEF PositionRecord
  <2>2. CASE side = "SELL"
    <3> DEFINE released == ReleasedBasis(held, quantity)
    <3>1. released \in Nat /\ released <= held.basis
      BY <2>2, ReleasedType
    <3>2. after = [held EXCEPT !.quantity = @ - quantity, !.basis = @ - released,
                               !.sellValue = @ + turnover,
                               !.realized = @ + (turnover - released),
                               !.costs = @ + cost]
      BY <2>2 DEF Filled
    <3> HIDE DEF released
    <3>3. /\ held.quantity - quantity \in Nat /\ held.basis - released \in Nat
          /\ held.sellValue + turnover \in Nat
          /\ held.realized + (turnover - released) \in Int
          /\ held.costs + cost \in Nat
      BY <2>2, <3>1 DEF PositionRecord
    <3> QED BY <3>2, <3>3 DEF PositionRecord
  <2> QED BY <2>1, <2>2 DEF Side
<1>2. NoPosition \in PositionRecord
  BY DEF NoPosition, PositionRecord
<1>3. Trade(s, after) \in TradeRecord
  BY <1>1 DEF Trade, TradeRecord, PositionRecord
<1> DEFINE trades == IF after.quantity = 0
                     THEN Append(book.trades, Trade(s, after)) ELSE book.trades
<1>4. trades \in Seq(TradeRecord)
  BY <1>3 DEF AccountRecord
<1>5. Charged(book, s, held, side, quantity, turnover, cost) \in AccountRecord
  <2>1. CASE side = "BUY"
    <3>1. Charged(book, s, held, side, quantity, turnover, cost)
            = [book EXCEPT !.cash = @ - (turnover + cost),
                           !.spent = @ + turnover, !.fees = @ + cost,
                           !.trades = trades]
      BY <2>1 DEF Charged
    <3>2. /\ book.cash - (turnover + cost) \in Int
          /\ book.spent + turnover \in Nat /\ book.fees + cost \in Nat
      BY DEF AccountRecord
    <3> HIDE DEF trades
    <3> QED BY <1>4, <3>1, <3>2 DEF AccountRecord
  <2>2. CASE side = "SELL"
    <3> DEFINE released == ReleasedBasis(held, quantity)
    <3>1. released \in Nat
      BY <2>2, ReleasedType
    <3>2. Charged(book, s, held, side, quantity, turnover, cost)
            = [book EXCEPT !.cash = @ + (turnover - cost),
                           !.received = @ + turnover, !.fees = @ + cost,
                           !.realized = @ + (turnover - released),
                           !.trades = trades]
      BY <2>2 DEF Charged
    <3> HIDE DEF trades, released
    <3>3. /\ book.cash + (turnover - cost) \in Int
          /\ book.received + turnover \in Nat /\ book.fees + cost \in Nat
          /\ book.realized + (turnover - released) \in Int
      BY <3>1 DEF AccountRecord
    <3> QED BY <1>4, <3>2, <3>3 DEF AccountRecord
  <2> QED BY <2>1, <2>2 DEF Side
<1> QED BY <1>1, <1>2, <1>5 DEF Booked

(***************************************************************************)
(* Types, step by step.  IndInv is inductive: the engine's guards need the *)
(* order facts, and no more.                                               *)
(***************************************************************************)

IndInv == TypeOK /\ OrdersOK

(***************************************************************************)
(* The loop with any strategy whatever: its answers are bounded neither in *)
(* number nor to a set of intents.  What is shown of AnySpec holds of the  *)
(* loop as it is model-checked, and of every strategy that is written out. *)
(***************************************************************************)

AnyEvaluate ==
    /\ phase = "strategy"
    /\ \/ \E output \in Seq(RequestRecord) : Deliver(output)
       \/ \E error \in StrategyErrors : Raise(error)
    /\ UNCHANGED <<mode, session, slot, todo, turn, orders, fills, books, marks,
                   warnings>>

AnyStep == Loop \/ AnyEvaluate
AnyNext == AnyStep \/ Ended
AnySpec == Init /\ [][AnyNext]_vars

\* The engine starts without a turn.
LEMMA NoTurnType == NoTurn \in TurnRecord /\ NoTurn.waiting = {}
  BY Constants DEF NoTurn, TurnRecord, BarType

\* Adding a well-formed order, or replacing orders one for one, keeps what the
\* invariant says of orders, and the ids that other variables hold.
LEMMA AppendOrder ==
    ASSUME orders \in Seq(OrderRecord), OrdersOK, NEW order \in OrderRecord,
           order.filled = 0, order.forced => order.side = "SELL",
           orders' = Append(orders, order)
    PROVE  /\ orders' \in Seq(OrderRecord) /\ OrdersOK'
           /\ OrderIds \subseteq OrderIds'
<1>1. order.quantity \in Nat
  BY DEF OrderRecord
<1> QED BY <1>1 DEF OrdersOK, OrderIds

LEMMA MoveOrders ==
    ASSUME orders \in Seq(OrderRecord), OrdersOK, NEW ids,
           NEW status \in Status, orders' = Move(ids, status)
    PROVE  /\ orders' \in Seq(OrderRecord) /\ OrdersOK'
           /\ OrderIds' = OrderIds
<1>1. \A i \in OrderIds : orders[i] \in OrderRecord
  BY DEF OrderIds
<1>2. OrderIds' = OrderIds /\ orders' \in Seq(OrderRecord)
  BY MoveType DEF OrderIds
<1>3. ASSUME NEW i \in OrderIds
      PROVE  /\ orders'[i].filled = orders[i].filled
             /\ orders'[i].quantity = orders[i].quantity
             /\ orders'[i].forced = orders[i].forced
             /\ orders'[i].side = orders[i].side
  BY <1>1, <1>3, MoveType, TransitionType
<1> QED BY <1>2, <1>3 DEF OrdersOK

LEMMA ReplaceOrder ==
    ASSUME orders \in Seq(OrderRecord), OrdersOK, NEW i \in OrderIds,
           NEW order \in OrderRecord, order.filled <= order.quantity,
           order.forced => order.side = "SELL",
           orders' = [orders EXCEPT ![i] = order]
    PROVE  /\ orders' \in Seq(OrderRecord) /\ OrdersOK'
           /\ OrderIds' = OrderIds
  BY DEF OrdersOK, OrderIds

\* The engine starts with the right types.
LEMMA InitType == Init => IndInv
<1> SUFFICES ASSUME Init PROVE IndInv
  OBVIOUS
<1> USE DEF Init
<1>1. account \in AccountRecord
  BY Constants DEF NewAccount, AccountRecord
<1>2. positions \in [Symbols -> PositionRecord]
  BY DEF NoPosition, PositionRecord
<1>3. equity \in [cash : Int, value : [Symbols -> Nat]]
  BY Constants DEF Mark, NewAccount, NoPosition
<1>4. turn \in TurnRecord /\ turn.waiting \subseteq OrderIds
  BY NoTurnType
<1>5. session \in 1..Sessions /\ slot \in 1..Slots
  BY Constants
<1> QED BY <1>1, <1>2, <1>3, <1>4, <1>5, Constants
        DEF IndInv, TypeOK, OrdersOK, OrderIds, Phase

LEMMA DecideType == IndInv /\ Decide => IndInv'
<1> SUFFICES ASSUME IndInv, Decide PROVE IndInv'
  OBVIOUS
<1>1. PICK intent \in Intents, reference \in References \ used :
         /\ orders' = Append(orders, NewOrder(reference, intent, FALSE))
         /\ used' = used \cup {reference}
  BY DEF Decide
<1>2. intent \in IntentType /\ session \in Nat \ {0} /\ slot \in 1..Slots
  BY Constants DEF IndInv, TypeOK
<1>3. /\ orders' \in Seq(OrderRecord) /\ OrdersOK'
      /\ OrderIds \subseteq OrderIds'
  BY <1>1, <1>2, NewOrderType, AppendOrder DEF IndInv, TypeOK
<1> QED BY <1>1, <1>3 DEF IndInv, TypeOK, Decide, clock, books, marks

LEMMA StartOpeningsType == IndInv /\ StartOpenings => IndInv'
  BY DEF IndInv, TypeOK, OrdersOK, OrderIds, StartOpenings, books, marks, Phase

LEMMA BarOpenType == ASSUME NEW s \in Symbols, IndInv, BarOpen(s) PROVE IndInv'
  BY DEF IndInv, TypeOK, OrdersOK, OrderIds, BarOpen, Opened, books, marks, Phase

LEMMA LiquidateType ==
    ASSUME NEW s \in Symbols, IndInv, Liquidate(s) PROVE IndInv'
<1> DEFINE exit == [symbol |-> s, side |-> "SELL", quantity |-> Held(s),
                    type |-> "MARKET", price |-> 0, group |-> NoGroup]
           order == NewOrder(ForcedReference, exit, TRUE)
           moved == Move(OrdersOf(s), "CANCELLED")
<1>1. orders' = Append(moved, order)
  BY DEF Liquidate
<1>2. Held(s) \in Nat \ {0}
  BY DEF IndInv, TypeOK, Held, PositionRecord, Liquidate
<1>3. exit \in IntentType /\ exit.side = "SELL"
  BY <1>2 DEF IntentType, Side, OrderType
<1>4. /\ order \in OrderRecord /\ order.filled = 0
      /\ order.forced => order.side = "SELL"
  <2>1. session \in Nat \ {0} /\ slot \in 1..Slots
    BY Constants DEF IndInv, TypeOK
  <2> HIDE DEF exit
  <2> QED BY <1>3, <2>1, NewOrderType
<1>5. "CANCELLED" \in Status
  BY DEF Status, TerminalStatus
<1>6. moved \in Seq(OrderRecord) /\ Len(moved) = Len(orders)
  BY <1>5, MoveType DEF IndInv, TypeOK
<1>7. ASSUME NEW i \in OrderIds
      PROVE  /\ moved[i].filled <= moved[i].quantity
             /\ moved[i].forced => moved[i].side = "SELL"
  <2>1. orders[i] \in OrderRecord /\ orders \in Seq(OrderRecord)
    BY DEF IndInv, TypeOK, OrderIds
  <2>2. /\ moved[i].filled = orders[i].filled
        /\ moved[i].quantity = orders[i].quantity
        /\ moved[i].forced = orders[i].forced
        /\ moved[i].side = orders[i].side
    BY <1>5, <1>7, <2>1, MoveType, TransitionType
  <2> QED BY <2>2 DEF IndInv, OrdersOK
<1> HIDE DEF order, moved
<1>8. orders' \in Seq(OrderRecord) /\ OrderIds \subseteq OrderIds'
  BY <1>1, <1>4, <1>6 DEF OrderIds, IndInv, TypeOK
<1>9. OrdersOK'
  <2>1. order.quantity \in Nat
    BY <1>4 DEF OrderRecord
  <2> QED BY <1>1, <1>4, <1>6, <1>7, <2>1 DEF OrdersOK, OrderIds, IndInv, TypeOK
<1> QED BY <1>8, <1>9 DEF IndInv, TypeOK, Liquidate, Opened, books, marks, Phase

LEMMA EndSlotType == IndInv /\ EndSlot => IndInv'
  BY DEF IndInv, TypeOK, OrdersOK, OrderIds, EndSlot, books, marks, Phase

LEMMA BeginBarType ==
    ASSUME NEW s \in Symbols, IndInv, BeginBar(s) PROVE IndInv'
<1>1. PICK bar \in Bars :
         /\ turn' = [symbol |-> s, bar |-> bar, capacity |-> Capacity(bar),
                     waiting |-> IF Ambiguous(s, bar)
                                 THEN Eligible(s) \ Targets(s, bar)
                                 ELSE Eligible(s)]
         /\ warnings' = IF Ambiguous(s, bar)
                        THEN warnings \cup {"INTRABAR_AMBIGUITY"} ELSE warnings
  BY DEF BeginBar
<1>2. bar \in BarType
  BY Constants
<1>3. Capacity(bar) \in Nat
  <2>1. bar.volume \in Nat
    BY <1>2 DEF BarType
  <2>2. bar.volume * RateNum \in Nat
    BY <2>1, Constants, TimesMonotone
  <2> QED BY <2>2, Constants, DivMonotone DEF Capacity
<1>4. Eligible(s) \subseteq OrderIds /\ OrderIds \subseteq Nat \ {0}
  BY DEF Eligible, OrdersOf, OrderIds, IndInv, TypeOK
<1>5. turn' \in TurnRecord /\ turn'.waiting \subseteq OrderIds
  BY <1>1, <1>2, <1>3, <1>4 DEF TurnRecord
<1> QED BY <1>1, <1>5 DEF IndInv, TypeOK, OrdersOK, OrderIds, BeginBar, books,
                          marks, Phase

\* What the steps of the settling loop start from: the order in turn.
LEMMA InTurn ==
    ASSUME NEW i \in turn.waiting, IndInv
    PROVE  /\ i \in OrderIds /\ orders[i] \in OrderRecord
           /\ Price(i) \in Nat
           /\ Remaining(orders[i]) \in Nat
           /\ orders[i].forced => orders[i].side = "SELL"
           /\ turn.symbol \in Symbols /\ turn.capacity \in Nat
<1>1. i \in OrderIds /\ turn \in TurnRecord
  BY DEF IndInv, TypeOK
<1>2. orders[i] \in OrderRecord
  BY <1>1 DEF IndInv, TypeOK, OrderIds
<1>3. turn.bar \in BarType /\ turn.symbol \in Symbols /\ turn.capacity \in Nat
  BY <1>1 DEF TurnRecord
<1>4. Price(i) \in Nat
  BY <1>2, <1>3, PriceType DEF Price
<1>5. /\ orders[i].filled <= orders[i].quantity
      /\ orders[i].forced => orders[i].side = "SELL"
  BY <1>1 DEF IndInv, OrdersOK
<1>6. Remaining(orders[i]) \in Nat
  BY <1>2, <1>5 DEF Remaining, OrderRecord
<1> QED BY <1>1, <1>2, <1>3, <1>4, <1>5, <1>6

\* Waking a stop, or any later transition of it, keeps its order facts.
LEMMA WokenType ==
    ASSUME NEW i \in turn.waiting, IndInv
    PROVE  /\ Woken(i) \in OrderRecord
           /\ \A field \in {"symbol", "side", "quantity", "type", "price",
                            "group", "day", "created", "forced", "eligible",
                            "reference", "filled", "turnover"} :
                 Woken(i)[field] = orders[i][field]
<1>1. orders[i] \in OrderRecord /\ "TRIGGERED" \in Status
  BY InTurn DEF Status, ActiveStatus
<1> QED BY <1>1, TransitionType DEF Woken

\* The turn goes on without the order.
LEMMA VisitedType ==
    ASSUME NEW i \in turn.waiting, IndInv, Visited(i), OrderIds' = OrderIds
    PROVE  turn' \in TurnRecord /\ turn'.waiting \subseteq OrderIds'
  BY DEF IndInv, TypeOK, TurnRecord, Visited

LEMMA SettleSkipType ==
    ASSUME NEW i \in turn.waiting, IndInv, SettleSkip(i) PROVE IndInv'
<1>1. UNCHANGED orders /\ OrderIds' = OrderIds
  BY DEF SettleSkip, OrderIds
<1>2. turn' \in TurnRecord /\ turn'.waiting \subseteq OrderIds'
  BY <1>1, VisitedType DEF SettleSkip
<1> QED BY <1>1, <1>2 DEF IndInv, TypeOK, OrdersOK, OrderIds, SettleSkip, clock,
                          books, marks, Phase

LEMMA SettleDryType ==
    ASSUME NEW i \in turn.waiting, IndInv, SettleDry(i) PROVE IndInv'
<1>1. /\ orders' \in Seq(OrderRecord) /\ OrdersOK'
      /\ OrderIds' = OrderIds
  <2>1. i \in OrderIds /\ orders[i].filled <= orders[i].quantity
    BY InTurn DEF IndInv, OrdersOK
  <2>2. /\ Woken(i).filled <= Woken(i).quantity
        /\ Woken(i).forced => Woken(i).side = "SELL"
    BY <2>1, WokenType, InTurn
  <2> QED BY <2>1, <2>2, WokenType, ReplaceOrder DEF IndInv, TypeOK, SettleDry
<1>2. turn' \in TurnRecord /\ turn'.waiting \subseteq OrderIds'
  BY <1>1, VisitedType DEF SettleDry
<1> QED BY <1>1, <1>2 DEF IndInv, TypeOK, SettleDry, clock, books, marks

LEMMA SettleRejectType ==
    ASSUME NEW i \in turn.waiting, IndInv, SettleReject(i) PROVE IndInv'
<1> DEFINE order == Transition(Woken(i), "REJECTED")
<1>1. /\ orders' \in Seq(OrderRecord) /\ OrdersOK'
      /\ OrderIds' = OrderIds
  <2>1. i \in OrderIds /\ orders[i].filled <= orders[i].quantity
    BY InTurn DEF IndInv, OrdersOK
  <2>2. "REJECTED" \in Status
    BY DEF Status, TerminalStatus
  <2>3. /\ order \in OrderRecord /\ order.filled = orders[i].filled
        /\ order.quantity = orders[i].quantity
        /\ order.forced = orders[i].forced /\ order.side = orders[i].side
    BY <2>2, WokenType, TransitionType
  <2>4. /\ order.filled <= order.quantity
        /\ order.forced => order.side = "SELL"
    BY <2>1, <2>3, InTurn
  <2>5. orders' = [orders EXCEPT ![i] = order]
    BY DEF SettleReject
  <2> HIDE DEF order
  <2> QED BY <2>1, <2>3, <2>4, <2>5, ReplaceOrder DEF IndInv, TypeOK
<1>2. turn' \in TurnRecord /\ turn'.waiting \subseteq OrderIds'
  BY <1>1, VisitedType DEF SettleReject
<1> QED BY <1>1, <1>2 DEF IndInv, TypeOK, SettleReject, clock, books, marks

\* The engine tests a fill for the whole remainder of its order, and the
\* remainder costs no less than the part: the account accepts the fill.
LEMMA FillAccepted ==
    ASSUME NEW i \in turn.waiting, IndInv,
           FillQuantity(i) > 0, ~Unaffordable(i), ~Oversold(i)
    PROVE  LET s        == turn.symbol
               quantity == FillQuantity(i)
               turnover == quantity * Price(i)
               cost     == Incremental(orders[i], quantity, Price(i))
           IN  /\ quantity \in Nat \ {0} /\ quantity <= Remaining(orders[i])
               /\ Participates => quantity <= turn.capacity
               /\ turnover \in Nat /\ cost \in Nat
               /\ orders[i].side = "SELL" => quantity <= positions[s].quantity
               /\ ~Refuses(account, positions[s], orders[i].side, quantity,
                           turnover, cost)
<1> DEFINE q == FillQuantity(i)
           r == Remaining(orders[i])
           p == Price(i)
           whole == Incremental(orders[i], r, p)
           part == Incremental(orders[i], q, p)
<1>1. /\ orders[i] \in OrderRecord /\ p \in Nat /\ r \in Nat
      /\ turn.symbol \in Symbols /\ turn.capacity \in Nat
  BY InTurn
<1>2. q \in Nat \ {0} /\ q <= r /\ (Participates => q <= turn.capacity)
  BY <1>1 DEF FillQuantity, Lower
<1>3. /\ part \in Nat /\ part <= whole
      /\ q * p \in Nat /\ q * p <= r * p
  <2> HIDE DEF q, r, p
  <2> QED BY <1>1, <1>2, IncrementalMonotone
<1>4. /\ account.cash \in Int /\ positions[turn.symbol].quantity \in Nat
      /\ orders[i].side \in {"BUY", "SELL"}
  BY <1>1 DEF IndInv, TypeOK, AccountRecord, PositionRecord, OrderRecord, Side
<1>5. whole \in Int /\ r * p \in Int
  <2> HIDE DEF q, r, p
  <2> QED BY <1>1, IncrementalMonotone
<1>6. orders[i].side = "BUY" => r * p + whole <= account.cash
  <2>1. orders[i].side = "BUY" => ~(r * p + whole > account.cash)
    BY DEF Unaffordable
  <2> HIDE DEF r, p, whole
  <2> QED BY <1>4, <1>5, <2>1
<1>7. orders[i].side = "SELL" => r <= positions[turn.symbol].quantity
  BY <1>1, <1>4 DEF Oversold, Held
<1> HIDE DEF q, r, p, whole, part
<1>8. /\ orders[i].side = "BUY" => ~(q * p + part > account.cash)
      /\ orders[i].side = "SELL" => q <= positions[turn.symbol].quantity
  BY <1>1, <1>2, <1>3, <1>4, <1>5, <1>6, <1>7
<1>9. ~Refuses(account, positions[turn.symbol], orders[i].side, q, q * p, part)
  BY <1>1, <1>2, <1>3, <1>4, <1>8 DEF Refuses
<1> QED BY <1>1, <1>2, <1>3, <1>8, <1>9 DEF q, r, p, part

\* What a fill does to its order: it stays well formed and is not overfilled.
LEMMA AfterFillType ==
    ASSUME NEW order \in OrderRecord, NEW quantity \in Nat \ {0},
           NEW turnover \in Nat, order.filled <= order.quantity,
           quantity <= Remaining(order)
    PROVE  LET after == AfterFill(order, quantity, turnover)
           IN  /\ after \in OrderRecord /\ after.filled <= after.quantity
               /\ after.forced = order.forced /\ after.side = order.side
               /\ after.filled = order.filled + quantity
               /\ after.symbol = order.symbol /\ after.quantity = order.quantity
               /\ after.status = IF quantity = Remaining(order) THEN "FILLED"
                                 ELSE "PARTIALLY_FILLED"
<1> DEFINE more == [order EXCEPT !.filled = @ + quantity,
                                 !.turnover = @ + turnover]
           status == IF quantity = Remaining(order) THEN "FILLED"
                                                    ELSE "PARTIALLY_FILLED"
<1>1. /\ order.filled + quantity \in Nat
      /\ order.filled + quantity <= order.quantity
      /\ order.turnover + turnover \in Nat
  BY DEF OrderRecord, Remaining
<1>2. more \in OrderRecord
  BY <1>1 DEF OrderRecord
<1>3. /\ more.filled = order.filled + quantity /\ more.quantity = order.quantity
      /\ more.forced = order.forced /\ more.side = order.side
      /\ more.symbol = order.symbol
  BY DEF OrderRecord
<1>4. status \in Status
  BY DEF Status, ActiveStatus, TerminalStatus
<1> HIDE DEF more, status
<1>5. /\ Transition(more, status) \in OrderRecord
      /\ Transition(more, status).status = status
      /\ Transition(more, status).filled = more.filled
      /\ Transition(more, status).quantity = more.quantity
      /\ Transition(more, status).forced = more.forced
      /\ Transition(more, status).side = more.side
      /\ Transition(more, status).symbol = more.symbol
  BY <1>2, <1>4, TransitionType
<1>6. AfterFill(order, quantity, turnover) = Transition(more, status)
  BY DEF AfterFill, more, status
<1> QED BY <1>1, <1>3, <1>5, <1>6 DEF status

LEMMA SettleFillType ==
    ASSUME NEW i \in turn.waiting, IndInv, SettleFill(i)
    PROVE  IndInv' /\ UNCHANGED failure
<1> DEFINE s        == turn.symbol
           side     == orders[i].side
           quantity == FillQuantity(i)
           turnover == quantity * Price(i)
           cost     == Incremental(orders[i], quantity, Price(i))
           moved    == Move(Siblings(i), "CANCELLED")
           after    == AfterFill(Woken(i), quantity, turnover)
<1>1. FillQuantity(i) > 0 /\ ~Unaffordable(i) /\ ~Oversold(i)
  BY DEF SettleFill
<1>2. /\ quantity \in Nat \ {0} /\ quantity <= Remaining(orders[i])
      /\ Participates => quantity <= turn.capacity
      /\ turnover \in Nat /\ cost \in Nat
      /\ side = "SELL" => quantity <= positions[s].quantity
      /\ ~Refuses(account, positions[s], side, quantity, turnover, cost)
  BY <1>1, FillAccepted
<1>3. /\ i \in OrderIds /\ orders[i] \in OrderRecord /\ Price(i) \in Nat
      /\ s \in Symbols /\ turn.capacity \in Nat
      /\ orders[i].forced => side = "SELL"
      /\ side \in Side
  BY InTurn DEF OrderRecord
<1>4. /\ orders' = [moved EXCEPT ![i] = after]
      /\ fills' = fills \cup {[order |-> i, quantity |-> quantity,
                               price |-> Price(i)]}
      /\ account' = Charged(account, s, positions[s], side, quantity, turnover,
                            cost)
      /\ positions' = [positions EXCEPT ![s] =
                         Booked(@, side, quantity, turnover, cost)]
      /\ turn' = [turn EXCEPT !.waiting = @ \ {i},
                    !.capacity = IF Participates THEN @ - quantity ELSE @]
      /\ UNCHANGED <<phase, failure>>
      /\ UNCHANGED <<mode, session, slot, todo, batch, used, marks, warnings>>
  BY <1>2 DEF SettleFill
<1>5. /\ Woken(i) \in OrderRecord /\ Woken(i).filled = orders[i].filled
      /\ Woken(i).quantity = orders[i].quantity
      /\ Woken(i).forced = orders[i].forced /\ Woken(i).side = side
  BY WokenType
<1>6. /\ after \in OrderRecord /\ after.filled <= after.quantity
      /\ after.forced => after.side = "SELL"
  <2>1. Woken(i).filled <= Woken(i).quantity /\ quantity <= Remaining(Woken(i))
    BY <1>2, <1>3, <1>5 DEF IndInv, OrdersOK, Remaining
  <2> HIDE DEF quantity, turnover
  <2> QED BY <1>2, <1>3, <1>5, <2>1, AfterFillType
<1>7. "CANCELLED" \in Status
  BY DEF Status, TerminalStatus
<1>8. moved \in Seq(OrderRecord) /\ Len(moved) = Len(orders)
  BY <1>7, MoveType DEF IndInv, TypeOK
<1>9. ASSUME NEW j \in OrderIds
      PROVE  /\ moved[j].filled <= moved[j].quantity
             /\ moved[j].forced => moved[j].side = "SELL"
  <2>1. orders[j] \in OrderRecord /\ orders \in Seq(OrderRecord)
    BY DEF IndInv, TypeOK, OrderIds
  <2>2. /\ moved[j].filled = orders[j].filled
        /\ moved[j].quantity = orders[j].quantity
        /\ moved[j].forced = orders[j].forced
        /\ moved[j].side = orders[j].side
    BY <1>7, <1>9, <2>1, MoveType, TransitionType
  <2> QED BY <2>2 DEF IndInv, OrdersOK
<1>10. orders' \in Seq(OrderRecord) /\ OrderIds' = OrderIds /\ OrdersOK'
  <2> HIDE DEF moved, after
  <2>1. orders' \in Seq(OrderRecord) /\ OrderIds' = OrderIds
    BY <1>3, <1>4, <1>6, <1>8 DEF OrderIds, IndInv, TypeOK
  <2> QED BY <1>3, <1>4, <1>6, <1>8, <1>9, <2>1 DEF OrdersOK, OrderIds, IndInv,
                                                    TypeOK
<1>11. account' \in AccountRecord /\ positions' \in [Symbols -> PositionRecord]
  <2>1. account \in AccountRecord /\ positions \in [Symbols -> PositionRecord]
    BY DEF IndInv, TypeOK
  <2>2. positions[s] \in PositionRecord
    BY <1>3, <2>1
  <2> HIDE DEF s, side, quantity, turnover, cost
  <2>3. /\ Booked(positions[s], side, quantity, turnover, cost) \in PositionRecord
        /\ Charged(account, s, positions[s], side, quantity, turnover, cost)
             \in AccountRecord
    BY <1>2, <1>3, <2>1, <2>2, BookingType
  <2> QED BY <1>4, <2>1, <2>3
<1>12. turn' \in TurnRecord /\ turn'.waiting \subseteq OrderIds
  <2>1. turn \in TurnRecord /\ turn.waiting \subseteq OrderIds
    BY DEF IndInv, TypeOK
  <2>2. (IF Participates THEN turn.capacity - quantity ELSE turn.capacity) \in Nat
    BY <1>2, <1>3
  <2> HIDE DEF quantity
  <2> QED BY <1>4, <2>1, <2>2 DEF TurnRecord
<1>13. \A f \in fills' : /\ f.order \in OrderIds
                         /\ f.quantity \in Nat \ {0} /\ f.price \in Nat
  <2> HIDE DEF quantity
  <2> QED BY <1>2, <1>3, <1>4 DEF IndInv, TypeOK
<1> HIDE DEF s, side, quantity, turnover, cost, moved, after
<1> QED BY <1>4, <1>10, <1>11, <1>12, <1>13 DEF IndInv, TypeOK, marks

\* The loop leaves a candle.
LEMMA LeaveType ==
    ASSUME NEW s \in Symbols, IndInv, Leave(s)
    PROVE  /\ todo' \subseteq Symbols /\ phase' \in Phase
           /\ slot' \in 1..Slots
           /\ turn' \in TurnRecord /\ turn'.waiting = {} /\ fills' = {}
<1>1. slot \in 1..Slots /\ Slots \in Nat /\ todo \subseteq Symbols
  BY Constants DEF IndInv, TypeOK
<1>2. todo' \subseteq Symbols /\ phase' \in Phase
  BY <1>1 DEF Leave, Phase
<1>3. slot' \in 1..Slots
  BY <1>1 DEF Leave
<1>4. turn' = NoTurn /\ fills' = {}
  BY DEF Leave
<1> QED BY <1>2, <1>3, <1>4, NoTurnType

\* An equity point values every position at a natural number.
LEMMA MarkType ==
    ASSUME NEW book \in AccountRecord, NEW held \in [Symbols -> PositionRecord],
           NEW marked \in [Symbols -> Nat]
    PROVE  Mark(book, held, marked) \in [cash : Int, value : [Symbols -> Nat]]
<1>1. ASSUME NEW s \in Symbols
      PROVE  held[s].quantity * (marked[s] * SlipDen) \in Nat
  <2>1. /\ held[s].quantity \in Nat /\ marked[s] \in Nat
        /\ SlipDen \in Nat
    BY <1>1, Constants DEF PositionRecord
  <2>2. marked[s] * SlipDen \in Nat
    BY <2>1
  <2> QED BY <2>1, <2>2
<1>2. book.cash \in Int
  BY DEF AccountRecord
<1> QED BY <1>1, <1>2 DEF Mark

\* The closes and the equity point after a candle.
LEMMA RemarkType ==
    ASSUME NEW s \in Symbols, IndInv, turn.symbol = s, Remark(s)
    PROVE  /\ closes' \in [Symbols -> Nat]
           /\ equity' \in [cash : Int, value : [Symbols -> Nat]]
<1>1. turn.bar.close \in Nat
  BY DEF IndInv, TypeOK, TurnRecord, BarType
<1>2. closes' \in [Symbols -> Nat]
  BY <1>1 DEF Remark, IndInv, TypeOK
<1>3. equity' = Mark(account, positions, closes')
  BY DEF Remark
<1> QED BY <1>2, <1>3, MarkType DEF IndInv, TypeOK

LEMMA EndBarType == IndInv /\ EndBar => IndInv'
<1> SUFFICES ASSUME IndInv, EndBar PROVE IndInv'
  OBVIOUS
<1>1. turn.symbol \in Symbols /\ UNCHANGED orders /\ OrderIds' = OrderIds
  BY DEF IndInv, TypeOK, TurnRecord, EndBar, OrderIds
<1>2. /\ todo' \subseteq Symbols /\ phase' \in Phase /\ slot' \in 1..Slots
      /\ turn' \in TurnRecord /\ turn'.waiting = {} /\ fills' = {}
  BY <1>1, LeaveType DEF EndBar
<1>3. /\ closes' \in [Symbols -> Nat]
      /\ equity' \in [cash : Int, value : [Symbols -> Nat]]
  BY <1>1, RemarkType DEF EndBar
<1> QED BY <1>1, <1>2, <1>3 DEF IndInv, TypeOK, OrdersOK, EndBar, books

LEMMA CallStrategyType == IndInv /\ CallStrategy => IndInv'
<1> SUFFICES ASSUME IndInv, CallStrategy PROVE IndInv'
  OBVIOUS
<1>1. turn.symbol \in Symbols /\ UNCHANGED orders /\ OrderIds' = OrderIds
  BY DEF IndInv, TypeOK, TurnRecord, CallStrategy, OrderIds
<1>2. /\ closes' \in [Symbols -> Nat]
      /\ equity' \in [cash : Int, value : [Symbols -> Nat]]
  BY <1>1, RemarkType DEF CallStrategy
<1>3. phase' \in Phase
  BY DEF CallStrategy, Phase
<1> QED BY <1>1, <1>2, <1>3 DEF IndInv, TypeOK, OrdersOK, CallStrategy, books

LEMMA EvaluateType ==
    IndInv /\ AnyEvaluate /\ AccountingNeverRefuses
      => IndInv' /\ AccountingNeverRefuses'
<1> SUFFICES ASSUME IndInv, AnyEvaluate, AccountingNeverRefuses
             PROVE  IndInv' /\ AccountingNeverRefuses'
  OBVIOUS
<1> DEFINE judged(output) ==
             \/ /\ batch' = output
                /\ used' = used \cup {output[n].reference : n \in DOMAIN output}
                /\ phase' = "apply" /\ UNCHANGED failure
             \/ /\ phase' = "failed" /\ failure' = "INVALID_INTENT"
                /\ UNCHANGED <<batch, used>>
<1>1. \/ \E output \in Seq(RequestRecord) : judged(output)
      \/ /\ phase' = "failed" /\ failure' \in StrategyErrors
         /\ UNCHANGED <<batch, used>>
  BY DEF AnyEvaluate, Deliver, Raise, Fail
<1>2. batch' \in Seq(RequestRecord) /\ used' \subseteq References
  <2>1. ASSUME NEW output \in Seq(RequestRecord), judged(output)
        PROVE  batch' \in Seq(RequestRecord) /\ used' \subseteq References
    <3>1. \A n \in DOMAIN output : output[n].reference \in References
      BY DEF RequestRecord
    <3> QED BY <2>1, <3>1 DEF IndInv, TypeOK
  <2> QED BY <1>1, <2>1 DEF IndInv, TypeOK
<1>3. /\ failure' \in {NoFailure, "ACCOUNTING", "INVALID_INTENT",
                       "FORCED_EXIT_INCOMPLETE"} \cup StrategyErrors
      /\ failure' # "ACCOUNTING" /\ phase' \in Phase
  BY <1>1 DEF IndInv, TypeOK, AccountingNeverRefuses, Phase, StrategyErrors
<1>4. UNCHANGED <<mode, session, slot, todo, turn, orders, fills, account,
                  positions, closes, equity, warnings>>
  BY DEF AnyEvaluate, books, marks
<1> QED BY <1>2, <1>3, <1>4 DEF IndInv, TypeOK, OrdersOK, OrderIds,
                                AccountingNeverRefuses

LEMMA ApplyTradeType == IndInv /\ ApplyTrade => IndInv'
<1> SUFFICES ASSUME IndInv, ApplyTrade PROVE IndInv'
  OBVIOUS
<1> DEFINE request == Head(batch)
           order == NewOrder(request.reference, request.intent, FALSE)
<1>1. /\ batch # <<>> /\ request.kind = "trade"
      /\ orders' = Append(orders, order) /\ batch' = Tail(batch)
      /\ UNCHANGED <<mode, session, slot, phase, todo, turn, used, fills,
                     account, positions, closes, equity, warnings, failure>>
  BY DEF ApplyTrade, clock, books, marks
<1>2. request \in RequestRecord /\ batch' \in Seq(RequestRecord)
  BY <1>1 DEF IndInv, TypeOK
<1>3. request.reference \in References /\ request.intent \in IntentType
  BY <1>1, <1>2 DEF RequestRecord
<1>4. request.intent \in IntentType /\ session \in Nat \ {0} /\ slot \in 1..Slots
  BY <1>3, Constants DEF IndInv, TypeOK
<1>5. /\ orders' \in Seq(OrderRecord) /\ OrdersOK'
      /\ OrderIds \subseteq OrderIds'
  BY <1>1, <1>3, <1>4, NewOrderType, AppendOrder DEF IndInv, TypeOK
<1> HIDE DEF order, request
<1> QED BY <1>1, <1>2, <1>5 DEF IndInv, TypeOK

LEMMA ApplyCancelType == IndInv /\ ApplyCancel => IndInv'
<1> SUFFICES ASSUME IndInv, ApplyCancel PROVE IndInv'
  OBVIOUS
<1>1. PICK ids : orders' = Move(ids, "CANCELLED")
  BY DEF ApplyCancel
<1>2. "CANCELLED" \in Status
  BY DEF Status, TerminalStatus
<1>3. orders' \in Seq(OrderRecord) /\ OrdersOK' /\ OrderIds' = OrderIds
  BY <1>1, <1>2, MoveOrders DEF IndInv, TypeOK
<1>4. batch' \in Seq(RequestRecord)
  BY DEF IndInv, TypeOK, ApplyCancel
<1> QED BY <1>3, <1>4 DEF IndInv, TypeOK, ApplyCancel, clock, books, marks

LEMMA EndApplyType == IndInv /\ EndApply => IndInv'
<1> SUFFICES ASSUME IndInv, EndApply PROVE IndInv'
  OBVIOUS
<1>1. turn.symbol \in Symbols /\ UNCHANGED orders /\ OrderIds' = OrderIds
  BY DEF IndInv, TypeOK, TurnRecord, EndApply, OrderIds
<1>2. /\ todo' \subseteq Symbols /\ phase' \in Phase /\ slot' \in 1..Slots
      /\ turn' \in TurnRecord /\ turn'.waiting = {} /\ fills' = {}
  BY <1>1, LeaveType DEF EndApply
<1> QED BY <1>1, <1>2 DEF IndInv, TypeOK, OrdersOK, EndApply, books, marks

LEMMA SessionCloseType ==
    IndInv /\ SessionClose /\ AccountingNeverRefuses
      => IndInv' /\ AccountingNeverRefuses'
<1> SUFFICES ASSUME IndInv, SessionClose, AccountingNeverRefuses
             PROVE  IndInv' /\ AccountingNeverRefuses'
  OBVIOUS
<1>1. orders' = Move(OrderIds, "EXPIRED")
  BY DEF SessionClose, Expired
<1>2. "EXPIRED" \in Status
  BY DEF Status, TerminalStatus
<1>3. orders' \in Seq(OrderRecord) /\ OrdersOK' /\ OrderIds' = OrderIds
  BY <1>1, <1>2, MoveOrders DEF IndInv, TypeOK
<1>4. equity' \in [cash : Int, value : [Symbols -> Nat]]
  <2>1. equity' = equity \/ equity' = Mark(account, positions, closes)
    BY DEF SessionClose
  <2>2. Mark(account, positions, closes)
          \in [cash : Int, value : [Symbols -> Nat]]
    BY MarkType DEF IndInv, TypeOK
  <2> QED BY <2>1, <2>2 DEF IndInv, TypeOK
<1>5. /\ session' \in 1..Sessions /\ slot' \in 1..Slots /\ phase' \in Phase
  BY Constants DEF IndInv, TypeOK, SessionClose, Phase, Fail
<1>6. /\ failure' \in {NoFailure, "ACCOUNTING", "INVALID_INTENT",
                       "FORCED_EXIT_INCOMPLETE"} \cup StrategyErrors
      /\ failure' # "ACCOUNTING"
  BY DEF IndInv, TypeOK, AccountingNeverRefuses, SessionClose, Fail
<1> QED BY <1>3, <1>4, <1>5, <1>6 DEF IndInv, TypeOK, SessionClose, books,
                                      AccountingNeverRefuses

\* No step leaves the invariant, and none is refused by the account.
LEMMA StepType ==
    IndInv /\ AccountingNeverRefuses /\ [AnyNext]_vars
      => IndInv' /\ AccountingNeverRefuses'
<1> SUFFICES ASSUME IndInv, AccountingNeverRefuses, [AnyNext]_vars
             PROVE  IndInv' /\ AccountingNeverRefuses'
  OBVIOUS
<1> USE DEF AccountingNeverRefuses
<1>1. CASE Decide
  BY <1>1, DecideType DEF Decide
<1>2. CASE StartOpenings
  BY <1>2, StartOpeningsType DEF StartOpenings
<1>3. ASSUME NEW s \in Symbols, BarOpen(s)
      PROVE  IndInv' /\ AccountingNeverRefuses'
  BY <1>3, BarOpenType DEF BarOpen
<1>4. ASSUME NEW s \in Symbols, Liquidate(s)
      PROVE  IndInv' /\ AccountingNeverRefuses'
  BY <1>4, LiquidateType DEF Liquidate
<1>5. CASE EndSlot
  BY <1>5, EndSlotType DEF EndSlot
<1>6. ASSUME NEW s \in Symbols, BeginBar(s)
      PROVE  IndInv' /\ AccountingNeverRefuses'
  BY <1>6, BeginBarType DEF BeginBar
<1>7. ASSUME NEW i \in turn.waiting, SettleSkip(i)
      PROVE  IndInv' /\ AccountingNeverRefuses'
  BY <1>7, SettleSkipType DEF SettleSkip
<1>8. ASSUME NEW i \in turn.waiting, SettleDry(i)
      PROVE  IndInv' /\ AccountingNeverRefuses'
  BY <1>8, SettleDryType DEF SettleDry
<1>9. ASSUME NEW i \in turn.waiting, SettleReject(i)
      PROVE  IndInv' /\ AccountingNeverRefuses'
  BY <1>9, SettleRejectType DEF SettleReject
<1>10. ASSUME NEW i \in turn.waiting, SettleFill(i)
       PROVE  IndInv' /\ AccountingNeverRefuses'
  BY <1>10, SettleFillType
<1>11. CASE EndBar
  BY <1>11, EndBarType DEF EndBar
<1>12. CASE CallStrategy
  BY <1>12, CallStrategyType DEF CallStrategy
<1>13. CASE AnyEvaluate
  BY <1>13, EvaluateType
<1>14. CASE ApplyTrade
  BY <1>14, ApplyTradeType DEF ApplyTrade
<1>15. CASE ApplyCancel
  BY <1>15, ApplyCancelType DEF ApplyCancel
<1>16. CASE EndApply
  BY <1>16, EndApplyType DEF EndApply
<1>17. CASE SessionClose
  BY <1>17, SessionCloseType
<1>18. CASE UNCHANGED vars
  BY <1>18 DEF vars, IndInv, TypeOK, OrdersOK, OrderIds
<1> QED BY <1>1, <1>2, <1>3, <1>4, <1>5, <1>6, <1>7, <1>8, <1>9, <1>10, <1>11,
           <1>12, <1>13, <1>14, <1>15, <1>16, <1>17, <1>18
           DEF AnyNext, AnyStep, Loop, SettleOne, Ended

\* Every step of the loop as it is model-checked, with its bounded answers, is
\* one of the loop with any strategy.
LEMMA NextIsAny == [Next]_vars => [AnyNext]_vars
<1>1. ASSUME NEW n \in 0..MaxRequests, NEW output \in [1..n -> Requests]
      PROVE  output \in Seq(RequestRecord)
  <2>1. Requests \subseteq RequestRecord
    BY Constants DEF Requests, RequestRecord
  <2> QED BY <1>1, <2>1, Constants, SegmentSeq
<1>2. Evaluate => AnyEvaluate
  BY <1>1 DEF Evaluate, AnyEvaluate, Outputs
<1> QED BY <1>2 DEF Next, Step, AnyNext, AnyStep

LEMMA SpecIsAny == Spec => AnySpec
  BY NextIsAny, PTL DEF Spec, AnySpec

\* The invariant and the account's consent, in every run.
LEMMA Inductive == AnySpec => [](IndInv /\ AccountingNeverRefuses)
<1>1. Init => IndInv /\ AccountingNeverRefuses
  BY InitType DEF Init, AccountingNeverRefuses, NoFailure
<1>2. IndInv /\ AccountingNeverRefuses /\ [AnyNext]_vars
        => (IndInv /\ AccountingNeverRefuses)'
  BY StepType
<1> QED BY <1>1, <1>2, PTL DEF AnySpec

\* Every variable of the loop holds what the program's objects may hold: no
\* order is overfilled into a negative remainder, no position, basis or charge
\* becomes negative, and the settling loop only visits orders that exist.
THEOREM TypeCorrect == Spec => []TypeOK
<1>1. IndInv => TypeOK
  BY DEF IndInv
<1> QED BY Inductive, SpecIsAny, <1>1, PTL

\* Whatever the candles, the charges, the participation rate and the orders,
\* Portfolio.apply never raises on a fill the engine has let through: the
\* engine's test of the whole remainder implies the account's test of the part.
THEOREM AccountingCorrect == Spec => []AccountingNeverRefuses
  BY Inductive, SpecIsAny, PTL
=============================================================================
