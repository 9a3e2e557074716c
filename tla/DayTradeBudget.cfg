SPECIFICATION Spec
CONSTANTS
    MaxDay = 8
    DailyCap = 2
    DayTradesPer5d = 3
    MarginSmall = TRUE
    MaxFaults = 2
CHECK_DEADLOCK FALSE
INVARIANTS TypeOK DailyCapHeld RollingBudgetHeld
