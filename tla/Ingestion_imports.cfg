SPECIFICATION FairSpec
CONSTANTS
    First = f
    Second = g
    Third = h
    Runs = {f, g}
    Symbols = {"A"}
    Times = {1, 2}
    Values = {v1, v2}
    Wanted <- WantedAll
    Expected <- ExpectedOverlap
    Notes = {}
    MaxRows = 2
    Unheard = {g}
INVARIANTS
    TypeOK
    StagedStillFresh
    CountsReconcile
    CleanImportComplete
    ConflictsSurface
PROPERTIES
    WriteOnce
    ImplementsAudit
    ImportsEnd
