SPECIFICATION PerformanceFairSpec
CONSTANTS
    SlipNum = 1
    SlipDen = 10
    Profile <- MCProfile
    RateScale = 1000
    Paisa = 2
    Symbols <- ExitSymbols
    Sessions = 2
    Slots = 4
    ExitLead = 4
    StartCash = 600
    Groups = {"exit"}
    Intents <- DayIntents
    Bars <- DayBars
    References = {r1, r2}
    RequestLimit = 2
    MaxRequests = 2
    Participates = TRUE
    RateNum = 1
    RateDen = 2
INVARIANTS
    DayOrders
    ForcedExitCovers
    DrawdownIsWorstFall
    MetricsAgree
PROPERTIES
    TerminalFrozen
    RunEnds
