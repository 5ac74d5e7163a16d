SPECIFICATION Spec
CONSTANTS
    SlipNum = 1
    SlipDen = 10
    Profile <- MCProfile
    RateScale = 1000
    Paisa = 2
    Symbols <- ExitSymbols
    Sessions = 1
    Slots = 5
    ExitLead = 4
    StartCash = 600
    Groups = {"exit"}
    Intents <- CallIntents
    Bars <- CallBars
    References = {"FORCED_SESSION_EXIT", "entry", "cancel"}
    RequestLimit = 3
    MaxRequests = 1
    Participates = TRUE
    RateNum = 1
    RateDen = 2
INVARIANTS
    ForcedNeverCancelled
