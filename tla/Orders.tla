------------------------------- MODULE Orders ------------------------------
(***************************************************************************)
(* Simulated orders: their lifecycle, the price at which a completed       *)
(* candle reaches one, and the price it executes at.                       *)
(*                                                                         *)
(* A price in an intent or a candle is an integer number of ticks.  An     *)
(* executed price carries slippage and is a number of SlipDen-ths of a     *)
(* tick, so that it stays an integer.                                      *)
(***************************************************************************)
EXTENDS Integers

CONSTANTS
    SlipNum,    \* adverse slippage: SlipNum / SlipDen of the base price
    SlipDen

ASSUME SlippageAssumption ==
    /\ SlipDen \in Nat \ {0}
    /\ SlipNum \in Nat
    /\ SlipNum < SlipDen

Side == {"BUY", "SELL"}
OrderType == {"MARKET", "LIMIT", "STOP_MARKET"}

ActiveStatus == {"PENDING", "TRIGGERED", "PARTIALLY_FILLED"}
TerminalStatus == {"FILLED", "CANCELLED", "REJECTED", "EXPIRED"}

NoPrice == 0    \* the candle does not reach the order
NoGroup == "no OCO group"

Active(order) == order.status \in ActiveStatus

Remaining(order) == order.quantity - order.filled

\* Recording a transition: the history matters only for TRIGGERED, which
\* later transitions do not undo.
Transition(order, status) ==
    [order EXCEPT !.status = status,
                  !.triggered = @ \/ status = "TRIGGERED"]

Lower(a, b) == IF a <= b THEN a ELSE b
Higher(a, b) == IF a >= b THEN a ELSE b

BasePrice(order, bar) ==
    CASE order.type = "MARKET" \/ order.triggered -> bar.open
      [] ~order.triggered /\ order.type = "LIMIT" ->
           IF order.side = "BUY"
           THEN IF bar.low <= order.price
                THEN Lower(bar.open, order.price) ELSE NoPrice
           ELSE IF bar.high >= order.price
                THEN Higher(bar.open, order.price) ELSE NoPrice
      [] ~order.triggered /\ order.type = "STOP_MARKET" ->
           IF order.side = "BUY"
           THEN IF bar.high >= order.price
                THEN Higher(bar.open, order.price) ELSE NoPrice
           ELSE IF bar.low <= order.price
                THEN Lower(bar.open, order.price) ELSE NoPrice

Reachable(order, bar) == BasePrice(order, bar) # NoPrice

\* Adverse slippage, in SlipDen-ths of a tick.
Slipped(base, side) ==
    IF side = "BUY" THEN base * (SlipDen + SlipNum)
                    ELSE base * (SlipDen - SlipNum)

ExecutionPrice(order, base) ==
    LET price == Slipped(base, order.side)
        limit == order.price * SlipDen
    IN  CASE order.type # "LIMIT" -> price
          [] order.type = "LIMIT" /\ order.side = "BUY" -> Lower(price, limit)
          [] order.type = "LIMIT" /\ order.side = "SELL" -> Higher(price, limit)
=============================================================================
