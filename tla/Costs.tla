------------------------------- MODULE Costs -------------------------------
(***************************************************************************)
(* Trading charges of a simulated order.  The program charges an order for *)
(* its turnover so far, so a partly filled order pays, with every fill,    *)
(* the difference between two values of Cumulative.                        *)
(*                                                                         *)
(* Amounts are integers (units of money); a rate is a number of            *)
(* RateScale-ths, and rounding is to a multiple of Paisa, half up.         *)
(***************************************************************************)
EXTENDS Orders

CONSTANTS
    Profile,    \* the rates and bounds of a reviewed cost profile
    RateScale,  \* what a rate of one is written as
    Paisa       \* the smallest charge: every component is a multiple of it

GstBase == {"brokerage", "exchange", "sebi", "ipft", "other"}

RateName == {"brokerage", "minimumCap", "stt", "stamp", "exchange", "sebi",
             "ipft", "gst", "other"}

ASSUME CostAssumption ==
    /\ RateScale \in Nat \ {0}
    /\ Paisa \in Nat \ {0}
    /\ Profile \in [rate : [RateName -> Nat], cap : Nat, minimum : Nat,
                    squareOff : Nat, gstOn : SUBSET GstBase]

\* Half-up rounding of x / RateScale to a multiple of Paisa.
Money(x) ==
    Paisa * ((2 * x + RateScale * Paisa) \div (2 * (RateScale * Paisa)))

Levied(name, amount) == Money(amount * Profile.rate[name])

Brokerage(turnover) ==
    Money(Higher(Lower(RateScale * Profile.cap,
                       turnover * Profile.rate["brokerage"]),
                 Lower(RateScale * Profile.minimum,
                       turnover * Profile.rate["minimumCap"])))

OtherCharge(turnover, forced) ==
    Money(turnover * Profile.rate["other"]
            + (IF forced THEN RateScale * Profile.squareOff ELSE 0))

\* The part of a component that tax is due on.
Taxed(name, amount) == IF name \in Profile.gstOn THEN amount ELSE 0

\* All charges of an order of this side that has executed this turnover.
Cumulative(side, turnover, forced) ==
    IF turnover = 0 THEN 0
    ELSE LET brokerage == Brokerage(turnover)
             exchange  == Levied("exchange", turnover)
             sebi      == Levied("sebi", turnover)
             ipft      == Levied("ipft", turnover)
             other     == OtherCharge(turnover, forced)
             duty      == IF side = "SELL" THEN Levied("stt", turnover)
                                           ELSE Levied("stamp", turnover)
             taxable   == Taxed("brokerage", brokerage)
                            + Taxed("exchange", exchange)
                            + Taxed("sebi", sebi)
                            + Taxed("ipft", ipft)
                            + Taxed("other", other)
         IN  brokerage + exchange + sebi + ipft + other + duty
               + Levied("gst", taxable)
=============================================================================
