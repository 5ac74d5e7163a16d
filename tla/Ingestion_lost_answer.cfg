SPECIFICATION Spec
CONSTANTS
    First = f
    Second = g
    Third = h
    Runs = {f, g}
    Symbols = {"A"}
    Times = {1, 2}
    Values = {v1, v2}
    Wanted <- WantedAll
    Expected <- ExpectedOverlap
    Notes = {}
    MaxRows = 2
    Unheard = {f, g}
SYMMETRY OtherValues
INVARIANTS
    FailedStoresNothing
