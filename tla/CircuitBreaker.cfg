SPECIFICATION Spec
CONSTANTS
    Readings <- MCReadings
    DailyLossPct = 6
    DrawdownPct = 20
    MaxDay = 2
    DiskFaults = TRUE
CHECK_DEADLOCK FALSE
INVARIANTS TypeOK ArmedWithinDailyLimit SurvivalFlagHonoured
PROPERTY GateHolds
