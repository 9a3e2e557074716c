SPECIFICATION Spec
CONSTANTS
    MaxConcurrent = 2
    DailyCap = 1
    MaxStops = 1
    LogFaults = FALSE
CHECK_DEADLOCK FALSE
PROPERTY TrippedFlattens
