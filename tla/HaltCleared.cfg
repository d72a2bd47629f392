\* A position held overnight halts the bot, its stop loss closes it: is the halt kept?
CONSTANTS
    None = None
    StartEquity = 10
    Stops = {0, 2}
    MaxMove = 2
    MaxOpen = 2
    MaxActions = 2
    MaxDay = 2
    SwitchRegimes <- StopsClose
    Slots = {s1, s2, s3}
    Instruments = {i1, i2}
    Never = Never
    Amounts = {2, 5}
    Manual = 2
    MaxPerTrade = 4
    MaxParallelTrades = 2
    MaxBotInvested = 6
    MinAmend = 3
    Cooldown = 2
    AccountCaps = {0, 7}
    MaxClock = 3
    Fills = {"prompt", "late"}
SYMMETRY RiskSymmetry
SPECIFICATION MCSpec
PROPERTY HaltIsAlwaysKept
CHECK_DEADLOCK FALSE
