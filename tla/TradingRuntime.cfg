SPECIFICATION Spec
CONSTANTS
    MaxConcurrent = 2
    DailyCap = 3
    MaxStops = 2
    LogFaults = TRUE
CHECK_DEADLOCK FALSE
INVARIANTS TypeOK ConcurrencyCap NoOrphans EndOfDayFlat
PROPERTIES FlattensUnlessAdopted DayEnds EnteringLeft
