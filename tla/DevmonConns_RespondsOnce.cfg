\* What a comment says of the connections: RespondsOnce.
CONSTANTS
    Clients = {c1, c2}
    Values = {v1}
    None = None
    Garbled = Garbled
    DirtyStack = FALSE
    MaxChanges = 1
SPECIFICATION Spec
SYMMETRY Symmetry
INVARIANT RespondsOnce
CHECK_DEADLOCK FALSE
