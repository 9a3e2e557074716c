SPECIFICATION Spec
CONSTANTS
    N = 2
    MaxSteps = 2
    MaxOrders = 2
    MaxShort = 2
CHECK_DEADLOCK FALSE
INVARIANT NeverShort
