\* Three boots of any of the machines, two failures in all.
CONSTANTS
    FstabRoot <- MCFstabRoot
    NoEntry = NoEntry
    RootOpts <- MCRootOpts
    RootFlags <- MCRootFlags
    Initramfs <- MCInitramfs
    Absent = Absent
    Empty = Empty
    Uninitialized = Uninitialized
    MaxBoots = 3
    MaxFaults = 2
SPECIFICATION Spec
INVARIANTS
    TypeOK
    MountedOnce
    PreparedMeansMounted
    RootKept
    IdCommitted
PROPERTIES
    IdStable
\* The machine stays off after the last boot.
CHECK_DEADLOCK FALSE
