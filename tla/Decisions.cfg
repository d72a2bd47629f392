CONSTANTS
    Symbols = {"acme", "btc"}
    Unnamed = "?"
    Holdings <- TheHoldings
    InstOf <- TheInstOf
    NoHolding = "none"
    Crypto = {"btc"}
    Entries <- TheEntries
    MaxEntries = 2
    Edits <- TheEdits
    Situations <- TheSituations
    Stopped = {"p1", "p2"}
    DefaultStop = 2
    StopLosses = {4}
    Trails = {1}
    PriceMoves <- TheMoves
    Unset = Unset
    Settings <- TheSettings
    Tunable <- TheTunable
    Guarded <- TheGuarded
    SettingValues = {1, 2}
    NoRow = NoRow
    TuneRequests <- TheTuneRequests
SPECIFICATION MCSpec
CONSTRAINT PeriodInFile
INVARIANTS
    TypesOK
    OrdersFollowDirectives
PROPERTIES
    DueIsClosed
    FloorOnlyTightens
    RestartKeepsSettings
CHECK_DEADLOCK FALSE
