\* What the README says of DINIT_WAITS_FOR: HeldBack.
CONSTANTS
    Devices = {d1}
    Services = {s1}
    NoService = NoService
    WakeMayFail = FALSE
    MayRestart = FALSE
    MaxInputs = 2
SPECIFICATION Spec
PROPERTY HeldBack
\* Without further input everything comes to rest.
CHECK_DEADLOCK FALSE
