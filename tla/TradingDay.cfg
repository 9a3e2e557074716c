SPECIFICATION FairSpec
CONSTANTS
    ORBars = 2
    Buffer = 0
    ChasePct = 50
    MinWidth = 4
    MaxWidth = 8
    Debit = 4
    Width = 10
    StopPct = 50
    TargetPct = 165
    WidthPct = 80
    Bars <- MCBars
    Marks <- MCMarks
    ShadowMax = 1
    LogFaults = TRUE
    MaxMinutes = 4
    MaxLag = 2
    MaxRestarts = 1
    FomcLockout = TRUE
    BlackoutBefore = 5
    BlackoutAfter = 5
    VixHardMax = 30
    BookGate = TRUE
    BookConflict = 50
CHECK_DEADLOCK FALSE
INVARIANTS TypeOK OneShot BreakoutIsReal
PROPERTIES HardStopConfirmed Released
