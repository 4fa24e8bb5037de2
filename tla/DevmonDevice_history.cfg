\* One device and one service: long histories of events, restarts included.
\* Every wake is honoured, so that rounds end.
CONSTANTS
    Devices = {d1}
    Services = {s1}
    NoService = NoService
    WakeMayFail = FALSE
    MayRestart = TRUE
    MaxInputs = 5
SPECIFICATION Spec
INVARIANTS
    TypeOK
    DeviceHandleHeld
    QuietTruth
    SysDepMatches
    HandlesAccounted
PROPERTIES
    RoundEnds
    Coalesces
\* Without further input everything comes to rest.
CHECK_DEADLOCK FALSE
