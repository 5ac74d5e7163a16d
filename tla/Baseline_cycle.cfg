SPECIFICATION BaselineSpec
CONSTANTS
    SlipNum = 0
    SlipDen = 1
    Profile <- NoCosts
    RateScale = 1000
    Paisa = 1
    Symbols <- ExitSymbols
    Sessions = 2
    Slots = 7
    ExitLead = 3
    StartCash = 40
    Groups <- MCReferences
    Intents = {}
    Bars <- ThinBars
    References <- MCReferences
    RequestLimit = 70
    MaxRequests = 0
    Participates = TRUE
    RateNum = 1
    RateDen = 2
    Quantity = 3
    EntryWindow = {2, 4, 6, 8}
    Ranges = {1, 5}
    StopMultiple = 2
    TargetMultiple = 3
    Label <- MCLabel
INVARIANTS
    ExitsMatchHolding
    NoReopening
    NeverRefused
