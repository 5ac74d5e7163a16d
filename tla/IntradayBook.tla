---------------------------- MODULE IntradayBook ---------------------------
(***************************************************************************)
(* What a backtest promises about its book, and no more: one purchase or   *)
(* sale at a time; a purchase is paid in full from cash at hand, and only  *)
(* while the day still trades; a sale comes out of what is held; from the  *)
(* exit cutoff on the book only shrinks; and a day ends flat, or the run   *)
(* is abandoned.                                                           *)
(***************************************************************************)
EXTENDS Integers

CONSTANTS Symbols, Days

VARIABLES
    day,
    regime,     \* "trading", "liquidating", "over" or "abandoned"
    cash,
    held

bookVars == <<day, regime, cash, held>>

Flat == \A s \in Symbols : held[s] = 0

\* Only the holding of s differs, and it stays a long one.
Changes(s) ==
    /\ held' = [held EXCEPT ![s] = held'[s]]
    /\ held'[s] >= 0

\* A day whose cutoff is its first opening does not trade at all.
DayBegins == regime' \in {"trading", "liquidating"}

BookInit ==
    /\ day = 1 /\ regime \in {"trading", "liquidating"}
    /\ cash > 0 /\ held = [s \in Symbols |-> 0]

Buy ==
    /\ regime = "trading"
    /\ \E s \in Symbols : Changes(s) /\ held'[s] > held[s]
    /\ 0 <= cash' /\ cash' <= cash
    /\ UNCHANGED <<day, regime>>

Sell ==
    /\ regime \in {"trading", "liquidating"}
    /\ \E s \in Symbols : Changes(s) /\ held'[s] < held[s]
    /\ UNCHANGED <<day, regime>>

StopTrading ==
    /\ regime = "trading" /\ regime' = "liquidating"
    /\ UNCHANGED <<day, cash, held>>

NextDay ==
    /\ regime = "liquidating" /\ Flat /\ day < Days
    /\ day' = day + 1 /\ DayBegins
    /\ UNCHANGED <<cash, held>>

Finish ==
    /\ regime = "liquidating" /\ Flat /\ day = Days
    /\ regime' = "over"
    /\ UNCHANGED <<day, cash, held>>

Abandon ==
    /\ regime \in {"trading", "liquidating"} /\ regime' = "abandoned"
    /\ UNCHANGED <<day, cash, held>>

BookNext == Buy \/ Sell \/ StopTrading \/ NextDay \/ Finish \/ Abandon

BookSpec == BookInit /\ [][BookNext]_bookVars
=============================================================================
