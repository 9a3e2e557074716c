SPECIFICATION FairSpec
CONSTANTS
    Loops = {q, t, g}
    None = none
    Symbols = {o}
    Underlying = und
    MaxFaults = 2
CHECK_DEADLOCK FALSE
INVARIANTS TypeOK OneStream WholeWhenRead
PROPERTIES RebuildsOnce Served
