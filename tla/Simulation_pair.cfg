SPECIFICATION Spec
CONSTANTS
    SlipNum = 1
    SlipDen = 10
    Profile <- MCProfile
    RateScale = 1000
    Paisa = 2
    Symbols <- PairSymbols
    Sessions = 1
    Slots = 4
    ExitLead = 3
    StartCash = 520
    Groups = {"exit"}
    Intents <- PairIntents
    Bars <- PairBars
    References = {r1, r2, r3}
    RequestLimit = 3
    MaxRequests = 1
    Participates = TRUE
    RateNum = 1
    RateDen = 2
SYMMETRY Names
INVARIANTS
    AccountingNeverRefuses
PROPERTIES
    ImplementsBook
