SPECIFICATION Spec
CONSTANTS
    First = f
    Second = s
    Imports = {f, s}
    Generators = {g, h}
    Loaders = {l}
    Lookback = 1
    SymbolOrder <- TwoSymbols
    Wanted <- WantedOverlap
    Requests <- MCRanges
    Asked <- AskedLong
INVARIANTS
    AlwaysIdentified
    WritersNeverClash
    SavedAsComputed
    StoredSetsHold
    RowsFromUnbrokenRuns
    FeaturesCausal
PROPERTIES
    StaleNeverLoads
