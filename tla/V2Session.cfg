SPECIFICATION FairSpec
CONSTANTS
    Equity0 = 12
    Premium = 1
    Ask = 2
    Quotes = {0, 2}
    ConvictionPct = 24
    LimitPct = 25
    MaxTrades = 2
    ScaleOuts <- MCScaleOuts
    TrailPct = 40
    StopPct = 50
    MaxBuys = 2
    MaxRestarts = 1
    Conditions <- MCConditions
    RequiredPct = 60
    Cooldown = 20
CHECK_DEADLOCK FALSE
INVARIANTS TypeOK LockHolds WorstCaseDay Managed
PROPERTIES Flattens
