CONSTANTS
    Loop = Loop
    Handlers = {h1}
    Savers = {Loop, h1}
    Absent = Absent
    Empty = Empty
    Torn = Torn
    MaxRev = 1
    MaxRequests = 2
    MaxRestarts = 1
    Regimes <- AllRegimes
SPECIFICATION FairSpec
CHECK_DEADLOCK FALSE
INVARIANTS
    TypeOK
    AtMostOneLateCycle
    FileIsWhole
    AckedFlagHolds
    QuiescentIsSaved
PROPERTIES
    RequestsEnd
    StopIsObeyed
    TornFileHeals
