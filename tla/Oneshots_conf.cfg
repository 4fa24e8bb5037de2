\* Three directories, two files and the global one, four lines in all.
CONSTANTS
    Names <- MCNames
    NDirs = 3
    Sysctls <- MCSysctls
    Written <- MCWritten
    Values = {v1, v2}
    Junk = Junk
    Modules = {"m1", "m2"}
    Lookup <- MCLookup
    Tokens <- MCTokens
    Rules = {"r", "reg"}
    Reserved = {"reg"}
    Swaps = {"sda", "zram0"}
    Zram = {"zram0"}
    None = None
    MaxParams = 2
    MaxLines = 4
SPECIFICATION Spec
INVARIANTS
    TypeOK
    Precedence
    ExplicitPinned
    SuccessMeansApplied
\* A helper runs once.
CHECK_DEADLOCK FALSE
