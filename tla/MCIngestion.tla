---------------------------- MODULE MCIngestion ----------------------------
EXTENDS Ingestion, TLC

CONSTANTS First, Second, Third

\* Imports whose ranges overlap: the first wants both openings, the others
\* only the later one.
WantedAll == [r \in Runs |-> Symbols]
ExpectedOverlap == [r \in Runs |-> IF r = First THEN Times ELSE {2}]

OtherValues == Permutations(Values)
============================================================================
