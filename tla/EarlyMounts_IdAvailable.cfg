\* The comment of machine-id.sh, on the machines of EarlyMounts_machine.cfg.
CONSTANTS
    FstabRoot <- MCFstabRoot
    NoEntry = NoEntry
    RootOpts <- MCRootOpts
    RootFlags <- MCRootFlags
    Initramfs <- MCInitramfs
    Absent = Absent
    Empty = Empty
    Uninitialized = Uninitialized
    MaxBoots = 1
    MaxFaults = 0
SPECIFICATION Spec
INVARIANT
    IdAvailable
CHECK_DEADLOCK FALSE
