--------------------------- MODULE MCPerformance ---------------------------
EXTENDS Performance, MCSimulation
============================================================================
