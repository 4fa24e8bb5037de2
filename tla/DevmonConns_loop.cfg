\* Two clients that watch one device, two broadcasts or restarts, under fairness;
\* one descriptor may serve both.
CONSTANTS
    Clients = {c1, c2}
    Values = {v1}
    None = None
    Garbled = Garbled
    DirtyStack = TRUE
    MaxChanges = 2
SPECIFICATION Spec
INVARIANTS
    TypeOK
    FdsMatch
    ConnPerFd
    WatcherCurrent
PROPERTIES
    RequestsAnswered
    GoneIsNoticed
CHECK_DEADLOCK FALSE
