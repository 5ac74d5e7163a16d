--------------------------- MODULE MCFeatureStore ---------------------------
EXTENDS FeatureStore, TLC

CONSTANTS First, Second

TwoSymbols == <<"A", "B">>

\* The second import fills what the first has left out, and goes on.
WantedOverlap ==
    [r \in Imports |-> Symbols \X (IF r = First THEN 0..1 ELSE 1..2)]

\* Ranges with the same end: a backtest is of the longer one.
MCRanges == {<<0, 2>>, <<1, 2>>}
AskedLong == [l \in Loaders |-> <<0, 2>>]
=============================================================================
