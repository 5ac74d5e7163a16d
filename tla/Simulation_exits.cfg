SPECIFICATION Spec
CONSTANTS
    SlipNum = 1
    SlipDen = 10
    Profile <- MCProfile
    RateScale = 1000
    Paisa = 2
    Symbols <- ExitSymbols
    Sessions = 1
    Slots = 6
    ExitLead = 2
    StartCash = 600
    Groups = {"exit"}
    Intents <- ExitIntents
    Bars <- ExitBars
    References = {r1, r2, r3}
    RequestLimit = 3
    MaxRequests = 1
    Participates = TRUE
    RateNum = 1
    RateDen = 2
SYMMETRY Names
INVARIANTS
    TypeOK
    OcoExclusive
    StopBeatsTarget
    NoLookahead
    BarCapacity
    LedgerReconciles
