--------------------------- MODULE FeatureSeries ---------------------------
(***************************************************************************)
(* What the feature engine computes from the candles of a snapshot, as far *)
(* as time goes: which candles each row is computed from, and whether its  *)
(* values are withheld.  The numbers are left out: a row of a symbol is    *)
(* determined by the candles it is computed from.                          *)
(*                                                                         *)
(* A candle is a pair of a symbol and a slot; slots number the openings    *)
(* that the calendar expects, over the nights and holidays between them.   *)
(***************************************************************************)
EXTENDS Integers, Sequences, FiniteSets

CONSTANT Lookback   \* candles that a value needs before its own

ASSUME LookbackAssumption == Lookback \in Nat

SlotsOf(candles, s) == {candle[2] : candle \in {c \in candles : c[1] = s}}

\* How many slots of a set come no later than one.
Rank(slots, t) == Cardinality({u \in slots : u <= t})

InOrder(slots) ==
    [n \in 1..Cardinality(slots) |-> CHOOSE t \in slots : Rank(slots, t) = n]

\* The candles of a symbol in order of time.
SeriesOf(candles, s) == InOrder(SlotsOf(candles, s))

\* Mutant of Breaks: a single missing slot is passed over.
BreaksLate(series, i) == i = 1 \/ series[i] > series[i - 1] + 2

\* A segment begins at candle i: it is the first, or the one before it is not
\* in the preceding slot.
Breaks(series, i) == i = 1 \/ series[i] # series[i - 1] + 1

\* Where the segment of candle i begins.
Begin(series, i) ==
    CHOOSE b \in 1..i : Breaks(series, b) /\ \A j \in (b + 1)..i : ~Breaks(series, j)

\* Mutant of AfterGap: a series with a gap anywhere counts as one.
AfterGapAnywhere(series, begin, first) ==
    series[1] # first \/ \E j \in 2..Len(series) : Breaks(series, j)

\* The first segment follows a gap when it begins after the requested range.
AfterGap(series, begin, first) == begin > 1 \/ series[1] # first

RowOf(s, series, i, first) ==
    LET begin == Begin(series, i)
        gap == AfterGap(series, begin, first)
    IN  [symbol |-> s, slot |-> series[i],
         inputs |-> {series[j] : j \in begin..i},
         withheld |-> CASE i - begin >= Lookback -> "no"
                        [] i - begin < Lookback /\ gap -> "GAP_WARMUP"
                        [] i - begin < Lookback /\ ~gap -> "WARMUP",
         gapBefore |-> gap /\ i = begin]

\* The rows for the candles of a range that begins in slot first.
RowsOf(candles, first) ==
    UNION {LET series == SeriesOf(candles, s)
           IN  {RowOf(s, series, i, first) : i \in DOMAIN series}
           : s \in {c[1] : c \in candles}}
=============================================================================
