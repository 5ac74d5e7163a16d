----------------------------- MODULE Portfolio -----------------------------
(***************************************************************************)
(* Long inventory of one symbol and the cash account it is bought from.    *)
(* A position runs from flat to flat; the sale that empties it turns it    *)
(* into a trade.  Amounts are in the units of Costs and Orders.            *)
(***************************************************************************)
EXTENDS Costs, Sequences, Functions

NoPosition == [quantity |-> 0, basis |-> 0, bought |-> 0, buyValue |-> 0,
               sellValue |-> 0, realized |-> 0, costs |-> 0]

NewAccount(capital) == [cash |-> capital, spent |-> 0, received |-> 0,
                        realized |-> 0, fees |-> 0, trades |-> <<>>]

\* Mutant of ReleasedBasis: the average of all purchases, residual or not.
ReleasedAverage(position, quantity) ==
    (position.buyValue * quantity) \div position.bought

\* The part of the basis a sale of quantity shares releases: weighted
\* average, except that the last sale takes the exact residual.
ReleasedBasis(position, quantity) ==
    IF quantity = position.quantity THEN position.basis
    ELSE (position.basis * quantity) \div position.quantity

\* The position after a fill, before a flat one is turned into a trade.
Filled(position, side, quantity, turnover, cost) ==
    IF side = "BUY"
    THEN [position EXCEPT !.quantity = @ + quantity, !.basis = @ + turnover,
                          !.bought = @ + quantity, !.buyValue = @ + turnover,
                          !.costs = @ + cost]
    ELSE LET released == ReleasedBasis(position, quantity)
         IN  [position EXCEPT !.quantity = @ - quantity, !.basis = @ - released,
                              !.sellValue = @ + turnover,
                              !.realized = @ + (turnover - released),
                              !.costs = @ + cost]

Trade(symbol, position) ==
    [symbol |-> symbol, quantity |-> position.bought,
     entry |-> position.buyValue, exit |-> position.sellValue,
     pnl |-> position.realized, net |-> position.realized - position.costs]

\* The cash account after the same fill; held is the position before it.
Charged(account, symbol, held, side, quantity, turnover, cost) ==
    LET after == Filled(held, side, quantity, turnover, cost)
        trades == IF after.quantity = 0
                  THEN Append(account.trades, Trade(symbol, after))
                  ELSE account.trades
    IN  IF side = "BUY"
        THEN [account EXCEPT !.cash = @ - (turnover + cost),
                             !.spent = @ + turnover, !.fees = @ + cost,
                             !.trades = trades]
        ELSE [account EXCEPT !.cash = @ + (turnover - cost),
                             !.received = @ + turnover, !.fees = @ + cost,
                             !.realized = @ + (turnover
                                                - ReleasedBasis(held, quantity)),
                             !.trades = trades]

\* The position that stays on the books after the fill.
Booked(held, side, quantity, turnover, cost) ==
    LET after == Filled(held, side, quantity, turnover, cost)
    IN  IF after.quantity = 0 THEN NoPosition ELSE after

\* When the account refuses a fill.
Refuses(account, held, side, quantity, turnover, cost) ==
    IF side = "BUY" THEN turnover + cost > account.cash
                    ELSE quantity > held.quantity

\* An equity point: cash, and each position at its last known close, which
\* is in ticks.
Mark(account, positions, closes) ==
    [cash  |-> account.cash,
     value |-> [s \in DOMAIN positions |->
                  positions[s].quantity * (closes[s] * SlipDen)]]
=============================================================================
