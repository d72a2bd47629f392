CONSTANTS
    Loop = Loop
    Handlers = {h1, h2}
    Savers = {Loop, h1, h2}
    Absent = Absent
    Empty = Empty
    Torn = Torn
    MaxRev = 2
    MaxRequests = 2
    MaxRestarts = 1
    Regimes <- OnlyCrashes
SPECIFICATION Spec
CHECK_DEADLOCK FALSE
INVARIANT FileIsAlwaysWhole
