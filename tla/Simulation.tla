----------------------------- MODULE Simulation ----------------------------
(***************************************************************************)
(* The event loop of one backtest.  It is a single thread: at the end of   *)
(* every slot the completed candles are settled one symbol after another,  *)
(* then scripted decisions of that instant are taken, then the next        *)
(* candles open, and in the middle of a slot further scripted decisions    *)
(* may fall.  A strategy, if there is one, is called after every completed *)
(* candle.  A candle fills, at its completion, the orders that were made   *)
(* before it opened.                                                       *)
(*                                                                         *)
(* phase says what the loop is about to do; the order in which a stage     *)
(* visits the symbols depends on the names of the records and is left      *)
(* open.  Script and strategy are any that the program accepts.            *)
(***************************************************************************)
EXTENDS Portfolio, FiniteSets

CONSTANTS
    Symbols,
    Sessions,       \* number of trading sessions of the run
    Slots,          \* candles of a session
    ExitLead,       \* exit_minutes_before_close, in half slots
    StartCash,
    Groups,         \* names of OCO groups
    Intents,        \* what a decision may ask for
    Bars,           \* the candles the market may deliver
    References,     \* the names requests carry, each used once
    RequestLimit,   \* requests a strategy may make in a run
    MaxRequests,    \* bound: requests of one strategy call
    Participates,   \* whether a participation rate is configured
    RateNum,        \* the rate is RateNum / RateDen
    RateDen

IntentType ==
    [symbol : Symbols, side : Side, quantity : Nat \ {0}, type : OrderType,
     price : Nat, group : Groups \cup {NoGroup}]

BarType == [open : Nat \ {0}, high : Nat \ {0}, low : Nat \ {0},
            close : Nat \ {0}, volume : Nat]

ASSUME SimulationAssumption ==
    /\ Symbols # {} /\ IsFiniteSet(Symbols)
    /\ NoGroup \notin Groups
    /\ Sessions \in Nat \ {0}
    /\ Slots \in Nat \ {0}
    /\ ExitLead \in Nat
    /\ StartCash \in Nat \ {0}
    /\ RequestLimit \in Nat /\ MaxRequests \in Nat
    /\ Participates \in BOOLEAN
    /\ RateNum \in Nat /\ RateDen \in Nat \ {0}

\* What the intent and candle records guarantee by construction.
ASSUME InputAssumption ==
    /\ \A i \in Intents :
         /\ i \in IntentType
         /\ i.type = "MARKET" <=> i.price = 0
         /\ i.group # NoGroup => i.side = "SELL"
    /\ \A b \in Bars :
         /\ b \in BarType
         /\ b.low <= b.open /\ b.open <= b.high
         /\ b.low <= b.close /\ b.close <= b.high

ForcedReference == "FORCED_SESSION_EXIT"

VARIABLES
    mode,       \* "script" or "strategy": the two exclude each other
    session,    \* the session the clock is in, from 1
    slot,       \* the candle the clock is in, from 1
    phase,      \* what the loop does next
    todo,       \* the symbols the stage has still to visit
    turn,       \* the candle being settled
    batch,      \* validated requests of the strategy not yet applied
    used,       \* references already taken
    orders,     \* every order of the run
    fills,      \* what the candle being settled has filled
    account,
    positions,
    closes,     \* last known close of each symbol, 0 before the first
    equity,     \* the last equity point
    warnings,
    failure     \* why the run was abandoned

clock == <<session, slot, phase, todo>>
books == <<account, positions>>
marks == <<closes, equity>>
vars == <<mode, session, slot, phase, todo, turn, batch, used, orders, fills,
          account, positions, closes, equity, warnings, failure>>

NoFailure == "none"

NoTurn == [symbol |-> CHOOSE s \in Symbols : TRUE,
           bar |-> [open |-> 1, high |-> 1, low |-> 1, close |-> 1,
                    volume |-> 0],
           waiting |-> {}, capacity |-> 0]

(***************************************************************************)
(* Time.  Opening k is at half slot 2 * (k - 1), the close of the session  *)
(* at 2 * Slots.                                                           *)
(***************************************************************************)

OpeningTime(k) == 2 * (k - 1)

\* The first opening at or after the wanted exit time, or the last opening.
Cutoff ==
    LET wanted == 2 * Slots - ExitLead
        late   == {k \in 1..Slots : OpeningTime(k) >= wanted}
    IN  IF late = {} THEN Slots
        ELSE CHOOSE k \in late : \A j \in late : k <= j

\* The half slot it is: a candle completes at the opening of the next one.
Now == CASE phase \in {"decide", "barOpen"} -> OpeningTime(slot)
         [] phase = "inside" -> OpeningTime(slot) + 1
         [] OTHER -> OpeningTime(slot + 1)

\* Mutant of OpeningAfter: an opening at the very time counts as later.
OpeningAfterInclusive(time) == ((time + 1) \div 2) + 1

\* First opening strictly after a time (bisect_right), and first opening not
\* before it (bisect_left); a result above Slots means that there is none.
OpeningAfter(time) == (time \div 2) + 2
OpeningFrom(time) == ((time + 1) \div 2) + 1

Held(s) == positions[s].quantity
OrderIds == DOMAIN orders

(***************************************************************************)
(* Orders.                                                                 *)
(***************************************************************************)

\* Mutant of NewOrder: the quantity is what is held, even when that is none.
NewOrderUntyped(reference, intent, forced) ==
    [reference |-> reference, symbol |-> intent.symbol, side |-> intent.side,
     quantity |-> IF intent.side = "SELL" THEN Held(intent.symbol)
                                          ELSE intent.quantity,
     type |-> intent.type, price |-> intent.price, group |-> intent.group,
     day |-> session, created |-> Now, forced |-> forced,
     eligible |-> OpeningAfter(Now), status |-> "PENDING",
     triggered |-> FALSE, filled |-> 0, turnover |-> 0]

\* A new order has passed CREATED, ACCEPTED and PENDING; an ordinary one may
\* at once be rejected.
NewOrder(reference, intent, forced) ==
    LET refused == \/ ~forced /\ Now >= OpeningTime(Cutoff)
                   \/ /\ intent.side = "SELL"
                      /\ intent.quantity > Held(intent.symbol)
    IN  [reference |-> reference, symbol |-> intent.symbol,
         side |-> intent.side, quantity |-> intent.quantity,
         type |-> intent.type, price |-> intent.price, group |-> intent.group,
         day |-> session, created |-> Now, forced |-> forced,
         eligible |-> IF forced THEN OpeningFrom(Now) ELSE OpeningAfter(Now),
         status |-> IF refused THEN "REJECTED" ELSE "PENDING",
         triggered |-> FALSE, filled |-> 0, turnover |-> 0]

\* Mutant of Move: the transition is recorded whatever the order's status.
MoveAny(ids, status) ==
    [i \in OrderIds |-> IF i \in ids THEN Transition(orders[i], status)
                                     ELSE orders[i]]

\* All orders, those of ids that are active having made the transition.
Move(ids, status) ==
    [i \in OrderIds |-> IF i \in ids /\ Active(orders[i])
                        THEN Transition(orders[i], status) ELSE orders[i]]

OrdersOf(s) == {i \in OrderIds : orders[i].symbol = s}

Fail(reason) == phase' = "failed" /\ failure' = reason

(***************************************************************************)
(* Initial state: validated inputs, an empty book, the first session open. *)
(***************************************************************************)

Init ==
    /\ mode \in {"script", "strategy"}
    /\ session = 1 /\ slot = 1
    /\ phase = "decide" /\ todo = {}
    /\ turn = NoTurn /\ batch = <<>> /\ used = {}
    /\ orders = <<>> /\ fills = {}
    /\ account = NewAccount(StartCash)
    /\ positions = [s \in Symbols |-> NoPosition]
    /\ closes = [s \in Symbols |-> 0]
    /\ equity = Mark(account, positions, closes)
    /\ warnings = {}
    /\ failure = NoFailure

(***************************************************************************)
(* Decisions of a script, and the opening of candles.                      *)
(***************************************************************************)

\* A scripted decision: at an opening, before the candles open, or inside a
\* slot.
Decide ==
    /\ mode = "script" /\ phase \in {"decide", "inside"}
    /\ \E intent \in Intents, reference \in References \ used :
         /\ orders' = Append(orders, NewOrder(reference, intent, FALSE))
         /\ used' = used \cup {reference}
    /\ UNCHANGED <<mode, clock, turn, batch, fills, books, marks, warnings,
                   failure>>

StartOpenings ==
    /\ phase = "decide"
    /\ phase' = "barOpen" /\ todo' = Symbols
    /\ UNCHANGED <<mode, session, slot, turn, batch, used, orders, fills, books,
                   marks, warnings, failure>>

Opened(s) ==
    /\ phase = "barOpen" /\ s \in todo
    /\ todo' = todo \ {s}
    /\ phase' = IF todo' = {} THEN "inside" ELSE "barOpen"

\* An opening that sends no order: before or after the cutoff, or flat.
BarOpen(s) ==
    /\ Opened(s)
    /\ slot # Cutoff \/ Held(s) = 0
    /\ UNCHANGED <<mode, session, slot, turn, batch, used, orders, fills, books,
                   marks, warnings, failure>>

\* At the cutoff the orders of a held symbol are cancelled and all of it is
\* offered at the market, in this very candle.
Liquidate(s) ==
    /\ Opened(s)
    /\ slot = Cutoff /\ Held(s) > 0
    /\ LET exit == [symbol |-> s, side |-> "SELL", quantity |-> Held(s),
                    type |-> "MARKET", price |-> 0, group |-> NoGroup]
       IN  orders' = Append(Move(OrdersOf(s), "CANCELLED"),
                            NewOrder(ForcedReference, exit, TRUE))
    /\ warnings' = warnings \cup {"FORCED_SESSION_EXIT"}
    /\ UNCHANGED <<mode, session, slot, turn, batch, used, fills, books, marks,
                   failure>>

EndSlot ==
    /\ phase = "inside"
    /\ phase' = "complete" /\ todo' = Symbols
    /\ UNCHANGED <<mode, session, slot, turn, batch, used, orders, fills, books,
                   marks, warnings, failure>>

(***************************************************************************)
(* Settling a completed candle.                                            *)
(***************************************************************************)

IsStop(order) == order.side = "SELL" /\ order.type = "STOP_MARKET"
IsTarget(order) == order.side = "SELL" /\ order.type = "LIMIT"

\* Mutant of Eligible: ordinary orders still execute after the cutoff.
EligibleAllDay(s) ==
    {i \in OrdersOf(s) : Active(orders[i]) /\ orders[i].eligible <= slot}

\* The orders a candle of the present slot may fill.
Eligible(s) ==
    {i \in OrdersOf(s) : /\ Active(orders[i])
                         /\ orders[i].eligible <= slot
                         /\ orders[i].forced \/ slot < Cutoff}

Stops(s, bar) ==
    {i \in Eligible(s) : IsStop(orders[i]) /\ Reachable(orders[i], bar)}
Targets(s, bar) ==
    {i \in Eligible(s) : IsTarget(orders[i]) /\ Reachable(orders[i], bar)}

\* Mutant of Ambiguous: only exits of one OCO group are compared.
AmbiguousInGroup(s, bar) ==
    /\ \E i \in Stops(s, bar), j \in Targets(s, bar) :
          orders[i].group # NoGroup /\ orders[i].group = orders[j].group
    /\ Held(s) > 0

\* Both a stop and a profit target of a held position are within the candle,
\* which does not say which came first.
Ambiguous(s, bar) ==
    Stops(s, bar) # {} /\ Targets(s, bar) # {} /\ Held(s) > 0

Capacity(bar) == IF Participates THEN (bar.volume * RateNum) \div RateDen ELSE 0

BeginBar(s) ==
    /\ phase = "complete" /\ s \in todo
    /\ \E bar \in Bars :
         /\ turn' = [symbol |-> s, bar |-> bar, capacity |-> Capacity(bar),
                     waiting |-> IF Ambiguous(s, bar)
                                 THEN Eligible(s) \ Targets(s, bar)
                                 ELSE Eligible(s)]
         /\ warnings' = IF Ambiguous(s, bar)
                        THEN warnings \cup {"INTRABAR_AMBIGUITY"} ELSE warnings
    /\ fills' = {}
    /\ phase' = "settle"
    /\ UNCHANGED <<mode, session, slot, todo, batch, used, orders, books, marks,
                   failure>>

\* Reached stops come first, then the older order.
StopFirst(i) == IsStop(orders[i]) /\ Reachable(orders[i], turn.bar)
Precedes(i, j) == \/ StopFirst(i) /\ ~StopFirst(j)
                  \/ (StopFirst(i) <=> StopFirst(j)) /\ i < j

Turn(i) ==
    /\ phase = "settle" /\ i \in turn.waiting
    /\ \A j \in turn.waiting \ {i} : Precedes(i, j)

CanFill(i) == Active(orders[i]) /\ Reachable(orders[i], turn.bar)

Price(i) == ExecutionPrice(orders[i], BasePrice(orders[i], turn.bar))

\* A stop is triggered the first time a candle reaches it.
Woken(i) ==
    IF orders[i].type = "STOP_MARKET" /\ ~orders[i].triggered
    THEN Transition(orders[i], "TRIGGERED") ELSE orders[i]

\* Mutant of FillQuantity: every order may take the candle's whole capacity.
FillQuantityShared(i) ==
    IF Participates THEN Lower(Remaining(orders[i]), Capacity(turn.bar))
                    ELSE Remaining(orders[i])

FillQuantity(i) ==
    IF Participates THEN Lower(Remaining(orders[i]), turn.capacity)
                    ELSE Remaining(orders[i])

\* The charge for executing quantity more shares of an order.
Incremental(order, quantity, price) ==
    Cumulative(order.side, order.turnover + quantity * price, order.forced)
      - Cumulative(order.side, order.turnover, order.forced)

\* Mutant of Unaffordable: charges are forgotten.
UnaffordableGross(i) ==
    /\ orders[i].side = "BUY"
    /\ Remaining(orders[i]) * Price(i) > account.cash

\* The whole remainder, not only this fill, must be paid for or held.
Unaffordable(i) ==
    /\ orders[i].side = "BUY"
    /\ Remaining(orders[i]) * Price(i)
         + Incremental(orders[i], Remaining(orders[i]), Price(i)) > account.cash

Oversold(i) ==
    /\ orders[i].side = "SELL"
    /\ Remaining(orders[i]) > Held(turn.symbol)

\* Mutant of Visited: an order that could not be filled is tried again.
VisitedNever(i) == turn' = turn

Visited(i) == turn' = [turn EXCEPT !.waiting = @ \ {i}]

\* Cancelled meanwhile by a sibling, or out of the candle's reach.
SettleSkip(i) ==
    /\ Turn(i) /\ ~CanFill(i)
    /\ Visited(i)
    /\ UNCHANGED <<mode, clock, batch, used, orders, fills, books, marks,
                   warnings, failure>>

\* No volume is left: a stop is triggered all the same.
SettleDry(i) ==
    /\ Turn(i) /\ CanFill(i) /\ FillQuantity(i) = 0
    /\ orders' = [orders EXCEPT ![i] = Woken(i)]
    /\ Visited(i)
    /\ UNCHANGED <<mode, clock, batch, used, fills, books, marks, warnings,
                   failure>>

SettleReject(i) ==
    /\ Turn(i) /\ CanFill(i) /\ FillQuantity(i) > 0
    /\ Unaffordable(i) \/ Oversold(i)
    /\ orders' = [orders EXCEPT ![i] = Transition(Woken(i), "REJECTED")]
    /\ Visited(i)
    /\ UNCHANGED <<mode, clock, batch, used, fills, books, marks, warnings,
                   failure>>

\* Mutant of Siblings: only the fill that completes an order cancels them.
SiblingsWhenDone(i) ==
    {j \in OrdersOf(turn.symbol) \ {i} :
        /\ orders[i].group # NoGroup
        /\ orders[j].group = orders[i].group
        /\ FillQuantity(i) = Remaining(orders[i])}

\* The other orders of the symbol in the same OCO group.
Siblings(i) ==
    {j \in OrdersOf(turn.symbol) \ {i} :
        /\ orders[i].group # NoGroup
        /\ orders[j].group = orders[i].group}

AfterFill(order, quantity, turnover) ==
    Transition([order EXCEPT !.filled = @ + quantity, !.turnover = @ + turnover],
               IF quantity = Remaining(order) THEN "FILLED"
                                              ELSE "PARTIALLY_FILLED")

\* A fill, booked at once; the account refusing it would abandon the run.
SettleFill(i) ==
    /\ Turn(i) /\ CanFill(i) /\ FillQuantity(i) > 0
    /\ ~Unaffordable(i) /\ ~Oversold(i)
    /\ LET s        == turn.symbol
           side     == orders[i].side
           quantity == FillQuantity(i)
           turnover == quantity * Price(i)
           cost     == Incremental(orders[i], quantity, Price(i))
       IN  IF Refuses(account, positions[s], side, quantity, turnover, cost)
           THEN /\ Fail("ACCOUNTING")
                /\ UNCHANGED <<turn, orders, fills, books>>
           ELSE /\ orders' = [Move(Siblings(i), "CANCELLED") EXCEPT
                                ![i] = AfterFill(Woken(i), quantity, turnover)]
                /\ fills' = fills \cup {[order |-> i, quantity |-> quantity,
                                         price |-> Price(i)]}
                /\ account' = Charged(account, s, positions[s], side, quantity,
                                      turnover, cost)
                /\ positions' = [positions EXCEPT ![s] =
                                   Booked(@, side, quantity, turnover, cost)]
                /\ turn' = [turn EXCEPT !.waiting = @ \ {i},
                              !.capacity = IF Participates THEN @ - quantity
                                                           ELSE @]
                /\ UNCHANGED <<phase, failure>>
    /\ UNCHANGED <<mode, session, slot, todo, batch, used, marks, warnings>>

(***************************************************************************)
(* Marking, and the strategy's call.                                       *)
(***************************************************************************)

\* The loop is done with the candle of s.
Leave(s) ==
    /\ todo' = todo \ {s}
    /\ IF todo' # {} THEN phase' = "complete" /\ slot' = slot
       ELSE IF slot < Slots THEN phase' = "decide" /\ slot' = slot + 1
       ELSE phase' = "close" /\ slot' = slot
    /\ turn' = NoTurn /\ fills' = {}

Remark(s) ==
    /\ closes' = [closes EXCEPT ![s] = turn.bar.close]
    /\ equity' = Mark(account, positions, closes')

EndBar ==
    /\ phase = "settle" /\ turn.waiting = {}
    /\ mode = "script"
    /\ Remark(turn.symbol) /\ Leave(turn.symbol)
    /\ UNCHANGED <<mode, session, batch, used, orders, books, warnings, failure>>

CallStrategy ==
    /\ phase = "settle" /\ turn.waiting = {}
    /\ mode = "strategy"
    /\ Remark(turn.symbol)
    /\ phase' = "strategy"
    /\ UNCHANGED <<mode, session, slot, todo, turn, batch, used, orders, fills,
                   books, warnings, failure>>

RequestRecord ==
    [kind : {"trade"}, reference : References, intent : IntentType]
      \cup [kind : {"cancel"}, reference : References,
            targets : SUBSET References]

\* What the strategies of a run may ask for, and answer with.
Requests ==
    [kind : {"trade"}, reference : References, intent : Intents]
      \cup [kind : {"cancel"}, reference : References,
            targets : SUBSET References \ {{}}]

Outputs == UNION {[1..n -> Requests] : n \in 0..MaxRequests}

\* The names a strategy may cancel: its own orders for the symbol.
Known(s) == {orders[i].reference : i \in {j \in OrdersOf(s) : ~orders[j].forced}}

\* The whole output is judged before any of it is applied.
Accepted(output) ==
    /\ Cardinality(used) + Len(output) <= RequestLimit
    /\ \A n \in DOMAIN output :
         /\ output[n].reference \notin used
         /\ \A m \in 1..(n - 1) : output[m].reference # output[n].reference
         /\ Now < 2 * Slots
         /\ output[n].kind = "trade" => output[n].intent.symbol = turn.symbol
         /\ output[n].kind = "cancel" => output[n].targets \subseteq
                                           Known(turn.symbol)

Deliver(output) ==
    IF Accepted(output)
    THEN /\ batch' = output
         /\ used' = used \cup {output[n].reference : n \in DOMAIN output}
         /\ phase' = "apply"
         /\ UNCHANGED failure
    ELSE /\ Fail("INVALID_INTENT")
         /\ UNCHANGED <<batch, used>>

\* What a strategy may raise; the run is then over.
StrategyErrors == {"UNKNOWN_ENTRY", "NONPOSITIVE_STOP"}

Raise(error) ==
    /\ Fail(error)
    /\ UNCHANGED <<batch, used>>

Evaluate ==
    /\ phase = "strategy"
    /\ \/ \E output \in Outputs : Deliver(output)
       \/ \E error \in StrategyErrors : Raise(error)
    /\ UNCHANGED <<mode, session, slot, todo, turn, orders, fills, books, marks,
                   warnings>>

ApplyTrade ==
    /\ phase = "apply" /\ batch # <<>> /\ Head(batch).kind = "trade"
    /\ orders' = Append(orders, NewOrder(Head(batch).reference,
                                         Head(batch).intent, FALSE))
    /\ batch' = Tail(batch)
    /\ UNCHANGED <<mode, clock, turn, used, fills, books, marks, warnings,
                   failure>>

\* Cancellation goes by the name an order carries.
ApplyCancel ==
    /\ phase = "apply" /\ batch # <<>> /\ Head(batch).kind = "cancel"
    /\ LET named == {i \in OrdersOf(turn.symbol) :
                        orders[i].reference \in Head(batch).targets}
       IN  orders' = Move(named, "CANCELLED")
    /\ batch' = Tail(batch)
    /\ UNCHANGED <<mode, clock, turn, used, fills, books, marks, warnings,
                   failure>>

EndApply ==
    /\ phase = "apply" /\ batch = <<>>
    /\ Leave(turn.symbol)
    /\ UNCHANGED <<mode, session, batch, used, orders, books, marks, warnings,
                   failure>>

(***************************************************************************)
(* The close of a session: orders expire, and nothing may be held.         *)
(***************************************************************************)

\* Mutant of Expired: an order that has begun to fill is left alone.
ExpiredPending ==
    Move({i \in OrderIds : orders[i].status = "PENDING"}, "EXPIRED")

Expired == Move(OrderIds, "EXPIRED")

SessionClose ==
    /\ phase = "close"
    /\ orders' = Expired
    /\ IF \E s \in Symbols : Held(s) > 0
       THEN Fail("FORCED_EXIT_INCOMPLETE") /\ UNCHANGED <<session, slot, equity>>
       ELSE /\ equity' = Mark(account, positions, closes)
            /\ IF session < Sessions
               THEN session' = session + 1 /\ slot' = 1 /\ phase' = "decide"
               ELSE phase' = "done" /\ UNCHANGED <<session, slot>>
            /\ UNCHANGED failure
    /\ UNCHANGED <<mode, todo, turn, batch, used, fills, books, closes, warnings>>

Ended == phase \in {"done", "failed"} /\ UNCHANGED vars

SettleOne ==
    \E i \in turn.waiting :
        SettleSkip(i) \/ SettleDry(i) \/ SettleReject(i) \/ SettleFill(i)

\* The loop, but for what the strategy answers.
Loop ==
    \/ Decide
    \/ StartOpenings
    \/ \E s \in Symbols : BarOpen(s) \/ Liquidate(s)
    \/ EndSlot
    \/ \E s \in Symbols : BeginBar(s)
    \/ SettleOne
    \/ EndBar
    \/ CallStrategy
    \/ ApplyTrade
    \/ ApplyCancel
    \/ EndApply
    \/ SessionClose

Step == Loop \/ Evaluate

Next == Step \/ Ended

Spec == Init /\ [][Next]_vars

\* The loop of the single thread keeps running until it ends the run.
FairSpec == Spec /\ WF_vars(Step)

(***************************************************************************)
(* Types.                                                                  *)
(***************************************************************************)

Status == ActiveStatus \cup TerminalStatus

OrderRecord ==
    [reference : References \cup {ForcedReference}, symbol : Symbols,
     side : Side, quantity : Nat \ {0}, type : OrderType, price : Nat,
     group : Groups \cup {NoGroup}, day : Nat \ {0}, created : Nat, forced : BOOLEAN,
     eligible : Nat, status : Status, triggered : BOOLEAN, filled : Nat,
     turnover : Nat]

PositionRecord ==
    [quantity : Nat, basis : Nat, bought : Nat, buyValue : Nat,
     sellValue : Nat, realized : Int, costs : Nat]

TradeRecord ==
    [symbol : Symbols, quantity : Nat, entry : Nat, exit : Nat, pnl : Int,
     net : Int]

AccountRecord ==
    [cash : Int, spent : Nat, received : Nat, realized : Int, fees : Nat,
     trades : Seq(TradeRecord)]

Phase == {"decide", "barOpen", "inside", "complete", "settle", "strategy",
          "apply", "close", "done", "failed"}

TurnRecord == [symbol : Symbols, bar : BarType, waiting : SUBSET (Nat \ {0}),
               capacity : Nat]

\* Every variable holds what the program's objects may hold.
TypeOK ==
    /\ mode \in {"script", "strategy"}
    /\ session \in 1..Sessions /\ slot \in 1..Slots
    /\ phase \in Phase /\ todo \subseteq Symbols
    /\ turn \in TurnRecord /\ turn.waiting \subseteq OrderIds
    /\ batch \in Seq(RequestRecord) /\ used \subseteq References
    /\ orders \in Seq(OrderRecord)
    /\ \A f \in fills : /\ f.order \in OrderIds
                        /\ f.quantity \in Nat \ {0} /\ f.price \in Nat
    /\ account \in AccountRecord
    /\ positions \in [Symbols -> PositionRecord]
    /\ closes \in [Symbols -> Nat]
    /\ equity \in [cash : Int, value : [Symbols -> Nat]]
    /\ warnings \subseteq {"INTRABAR_AMBIGUITY", "FORCED_SESSION_EXIT"}
    /\ failure \in {NoFailure, "ACCOUNTING", "INVALID_INTENT",
                    "FORCED_EXIT_INCOMPLETE"} \cup StrategyErrors

(***************************************************************************)
(* Safety.                                                                 *)
(***************************************************************************)

\* The engine tests affordability and inventory for the whole remainder of an
\* order, the account for the shares of one fill at incremental charges: the
\* engine's test is the stronger, so the account's exceptions in
\* Portfolio.apply never abandon a run.
AccountingNeverRefuses == failure # "ACCOUNTING"

\* The cutoff opening of s lies behind, in this session.
PastCutoff(s) ==
    \/ slot > Cutoff
    \/ slot = Cutoff /\ phase \notin {"decide", "barOpen"}
    \/ slot = Cutoff /\ phase = "barOpen" /\ s \notin todo

\* From the cutoff on, what is held is exactly what the one forced order has
\* still to sell, and no other order of the symbol is alive: nothing can buy
\* more, sell less, or sell it twice.
ForcedExitCovers ==
    phase \notin {"done", "failed"} =>
        \A s \in Symbols :
            PastCutoff(s) /\ Held(s) > 0 =>
                \E i \in OrdersOf(s) :
                    /\ orders[i].forced /\ Active(orders[i])
                    /\ Remaining(orders[i]) = Held(s)
                    /\ \A j \in OrdersOf(s) \ {i} : ~Active(orders[j])

\* No order fills in a candle that had opened when the order was made; the
\* forced exit, made at an opening, may fill in that candle.
NoLookahead ==
    \A f \in fills :
        LET order == orders[f.order]
        IN  \/ order.created < OpeningTime(slot)
            \/ order.forced /\ order.created = OpeningTime(slot)

FilledThisBar == [i \in OrderIds |->
                    LET mine == {f \in fills : f.order = i}
                    IN  IF mine = {} THEN 0
                        ELSE (CHOOSE f \in mine : TRUE).quantity]

\* All orders of a symbol together execute no more of a candle than the
\* participation rate leaves of its volume.
BarCapacity ==
    phase = "settle" /\ Participates =>
        SumFunction(FilledThisBar) <= Capacity(turn.bar)

\* Of the exits placed together in one OCO group at most one ever executes a
\* share, over all candles and whether the fill is whole or partial.
OcoExclusive ==
    \A i, j \in OrderIds :
        /\ i # j /\ orders[i].group # NoGroup
        /\ orders[i].group = orders[j].group
        /\ orders[i].symbol = orders[j].symbol
        /\ orders[i].day = orders[j].day
        /\ orders[i].created = orders[j].created
        => orders[i].filled = 0 \/ orders[j].filled = 0

\* A candle never pays a profit target while it also reaches a live stop: the
\* unfavourable one of two possible paths is assumed.
StopBeatsTarget ==
    \A f \in fills :
        IsTarget(orders[f.order]) =>
            \A j \in OrdersOf(turn.symbol) :
                IsStop(orders[j]) =>
                    /\ \A g \in fills : g.order # j
                    /\ ~(j \in Eligible(turn.symbol)
                           /\ Reachable(orders[j], turn.bar))

\* Whatever the rounding of the basis of partial sales, a finished trade has
\* earned what its sales brought less what its purchases cost, and an open
\* position's profit so far and its basis add up the same way.
InventoryReconciles ==
    /\ \A s \in Symbols :
         LET p == positions[s]
         IN  /\ p.realized = p.sellValue - p.buyValue + p.basis
             /\ p.quantity = 0 => p = NoPosition
    /\ \A n \in DOMAIN account.trades :
         account.trades[n].pnl = account.trades[n].exit - account.trades[n].entry

\* Cash is the capital, less purchases, plus sales, less charges; and it is
\* explained by the net result of the finished trades and the open positions.
CashReconciles ==
    /\ account.cash = StartCash - account.spent + account.received - account.fees
    /\ account.cash - StartCash =
         SumFunction([n \in DOMAIN account.trades |-> account.trades[n].net])
           + SumFunction([s \in Symbols |-> positions[s].realized
                              - positions[s].costs - positions[s].basis])

\* Whatever was bought and sold, in whatever parts, the ledger explains itself
\* to the last unit: positions, finished trades, charges and cash.
LedgerReconciles == InventoryReconciles /\ CashReconciles

\* An order lives in the session it was made in.
DayOrders ==
    phase # "failed" => \A i \in OrderIds : Active(orders[i]) =>
                                               orders[i].day = session

\* An order that is filled, cancelled, rejected or expired never changes, and
\* no order disappears.
TerminalFrozen ==
    [][\A i \in OrderIds :
          /\ i \in DOMAIN orders'
          /\ ~Active(orders[i]) => orders'[i] = orders[i]]_vars

(***************************************************************************)
(* Progress.                                                               *)
(***************************************************************************)

\* Every run ends; one that ends without failure ends flat, and each of its
\* orders has been filled, cancelled, rejected, or has expired.
RunEnds == <>[](\/ phase = "failed"
                \/ /\ phase = "done"
                   /\ \A s \in Symbols : Held(s) = 0
                   /\ \A i \in OrderIds : ~Active(orders[i]))

(***************************************************************************)
(* The promise to the reader of a result.                                  *)
(***************************************************************************)

Regime == CASE phase = "done" -> "over"
            [] phase = "failed" -> "abandoned"
            [] OTHER -> IF slot < Cutoff THEN "trading" ELSE "liquidating"

Book == INSTANCE IntradayBook WITH
            Days <- Sessions, day <- session, regime <- Regime,
            cash <- account.cash, held <- [s \in Symbols |-> Held(s)]

\* The loop implements the intraday book: long only, paid from cash at hand,
\* shrinking from the cutoff on, flat at every close of a run that succeeds.
ImplementsBook == Book!BookSpec

\* The strategy documentation says that a cancellation cannot target a forced
\* order: a forced order, once made, is never cancelled.
ForcedNeverCancelled ==
    \A i \in OrderIds : orders[i].forced => orders[i].status # "CANCELLED"
=============================================================================
