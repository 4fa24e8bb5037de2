\* Two processes, three seeds, two crashes; every system call may fail.
CONSTANTS
    Procs = {p1, p2}
    None = None
    MaxRuns = 3
    MaxCrashes = 2
SPECIFICATION Spec
SYMMETRY Symmetry
INVARIANTS
    TypeOK
    UsedOnce
    CreditedSound
    SuccessSaves
\* Nothing needs to run after the last run.
CHECK_DEADLOCK FALSE
