\* What a comment or the README says of the rounds: RoundDriven.
CONSTANTS
    Devices = {d1}
    Services = {s1}
    NoService = NoService
    WakeMayFail = FALSE
    MayRestart = FALSE
    MaxInputs = 4
SPECIFICATION Spec
INVARIANT RoundDriven
\* Without further input everything comes to rest.
CHECK_DEADLOCK FALSE
