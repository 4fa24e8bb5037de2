\* Four seconds from the year-2038 end of a 32-bit time_t, zones of one second.
CONSTANTS
    Epoch = 2
    MaxTime = 5
    TimeMax = 6
    ZoneMax = 1
SPECIFICATION Spec
INVARIANTS
    TypeOK
    NeverAhead
PROPERTIES
    NeverBeforeStamp
CHECK_DEADLOCK FALSE
