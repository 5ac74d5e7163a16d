----------------------------- MODULE MCBaseline ----------------------------
EXTENDS Baseline, MCSimulation

\* As many references as an instance can make up before the cutoff.
LabelLimit == 70
MCLabel == [s \in Symbols |-> [n \in 1..LabelLimit |-> s \o ToString(n)]]
MCReferences == {s \o ToString(n) : s \in Symbols, n \in 1..LabelLimit}

\* A quiet candle of which no share is to be had, a quiet one with two, a fall
\* through any stop with one or with four, a rise through any target with one.
TrendBars == {Candle(10, 10, 10, 10, 1), Candle(10, 10, 10, 10, 4),
              Candle(10, 10, 6, 7, 2), Candle(10, 10, 6, 7, 8),
              Candle(10, 14, 10, 13, 2)}

\* Without the fall with four shares.
ThinBars == TrendBars \ {Candle(10, 10, 6, 7, 8)}
============================================================================
