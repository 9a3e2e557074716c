SPECIFICATION Spec
CONSTANTS
    Readings <- MCSurvivalReadings
    DailyLossPct = 6
    DrawdownPct = 20
    MaxDay = 3
    DiskFaults = FALSE
CHECK_DEADLOCK FALSE
INVARIANT SurvivalLockPersists
