SPECIFICATION Spec
CONSTANTS
    StartEquity = 9000
    TradeRiskPct = 4
    HeatPct = 7
    MinEquity = 3000
    MaxConcurrent = 2
    DailyCap = 3
    AllowOneLot = TRUE
    FeeFloorMult = 5
    FeeOpen = 5
    FeeClose = 5
    Ladder <- MCLadder
    Debits <- MCDebits
    Width = 300
    Asked <- MCAsked
    BuyingPowers <- MCBuyingPowers
    Values <- MCValues
    Better <- MCBetter
    MaxRestarts = 1
    DeltaLo = 45
    DeltaHi = 60
    MinInterest = 500
    LegSpread = 5
    LegSpreadPct = 10
    ComboSpread = 8
    Span = 300
    DebitLoPct = 15
    DebitHiPct = 42
CHECK_DEADLOCK FALSE
INVARIANTS TypeOK TradeWithinHardCap WorstCaseDay
