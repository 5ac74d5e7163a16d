SPECIFICATION SourcesSpec
CONSTANTS
    DayLength = 6
    Days = 3
    Lengths = {1, 2, 3, 6}
    Calendars <- MCCalendars
    Requests <- MCRequests
    Listed = {"A"}
    Interval = 2
    MaxAge = 11
    Settling = 1
    MaxSessions = 2
    MaxFrame = 2
    Frames <- MCFrames
    FirstNow = 17
    LastNow = 19
    MaxImports = 2
    Symbols = {"A", "B", "C"}
    Mapped = {"A", "B"}
    Second = 2
    MaxRange = 3
    Histories <- MCHistories
    Wanted <- MCWanted
INVARIANTS
    CandlesTile
    RangesAgree
    FetchComplete
    DeliveredVerified
    EvidenceMatchesRows
