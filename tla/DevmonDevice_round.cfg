\* One device and two services: the rounds and their accounting.
CONSTANTS
    Devices = {d1}
    Services = {s1, s2}
    NoService = NoService
    WakeMayFail = TRUE
    MayRestart = TRUE
    MaxInputs = 2
SPECIFICATION Spec
SYMMETRY Symmetry
INVARIANTS
    PendingCount
    AwaitedOnce
    SingleRound
    WaitsForHonoured
\* Without further input everything comes to rest.
CHECK_DEADLOCK FALSE
