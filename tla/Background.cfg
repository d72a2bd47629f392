CONSTANTS
    Ids = {1, 2, 3}
    Universes <- TheUniverses
    Ladder <- TheLadder
    RateChunk = 2
    Retries = 1
    MaxRound = 2
    Tools <- TheTools
    Gates = {"market_hours", "earnings_proximity"}
    Scorers = {"rsi"}
    Always = {"market_hours"}
    VolumeTools = {"obv"}
    EquityTools = {"market_hours", "earnings_proximity"}
    Regimes = {"trending", "ranging"}
    Priority <- ThePriority
    Assets <- TheAssets
    Quoted = {q1}
    StackBudget = 2
    MinObs = 2
    MinHitPct = 40
    Window = 2
    Prices = {1, 2}
    MaxCycle = 5
    NumChats = 2
    AlertTypes = {"kill", "trade"}
    SafeDefault = {"kill"}
    NoSubs = NoSubs
    QueueLen = 2
    DrainLimit = 1
    Messages <- TheMessages
    MaxAlerts = 3
    MaxUpdates = 2
    MaxServiceCrashes = 1
    SettingValues = {"off", "on"}
    FirstValue = "off"
    Commands <- TheCommands
    MaxCommands = 3
    MaxBadSaves = 1
    Trades = {t1, t2}
    Pnls <- ThePnls
    NoTrade = NoTrade
    Unmarked = Unmarked
    MaxDay = 2
    MaxFaults = 2
    Callers = {"loop", "ask"}
    CallTypes = {"decision", "qa"}
    LastDate = 1
    MaxCalls = 3
    MaxBadWrites = 1
    Listed = {"acme", "btc"}
    Seeds = {"acme"}
    MaxTracked = 1
    ProbeMax = 1
    RefreshEvery = 2
    ScanEvery = 2
    Ttl = 0
    NoItem = NoItem
    Torn = Torn
    Servable = {"a", "b"}
    Unservable = {"c", "d"}
    Orphans = {"c"}
    Reported = {"e"}
    Budget = 3
    RefreshAfter = 4
    Backoff = 3
    NoEntry = NoEntry
    Companies = {"a", "b", "c"}
    Delisted = {"c"}
    CalendarBudget = 2
    CalendarTtl = 3
    NegativeTtl = 2
    NoDate = NoDate
    Exchanges <- TheExchanges
    Default <- Nyse
    FlattenWindow = 1
    Grace = 1
    Horizon = 672
SPECIFICATION MCSpec
CONSTRAINT FewEvents
SYMMETRY TradeSymmetry
INVARIANTS
    TypesOK
    MarketDataSound
    AlwaysGatesDecide
    CommandsReachTheBot
    DaysMatchLedger
    UsageSurvives
    OwnedStaysTracked
    ServableIsFetched
    SessionsExact
PROPERTIES
    DeliveryIsLossyFifo
    DemotionIsFinal
CHECK_DEADLOCK FALSE
