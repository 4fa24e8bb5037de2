\* Devices, interfaces and USB ids together: two of each kind.
CONSTANTS
    Blocks = {b1, b2}
    Nodes = {n1, n2}
    Links = {l1}
    Nets = {e1, e2}
    Macs = {m1}
    UsbIds = {u1, u2}
    Devnums = {x1, x2}
    None = None
SPECIFICATION Spec
SYMMETRY Symmetry
INVARIANTS
    TypeOK
    AnswersTruth
    WatchersTold
    UsbNeverEarly
    UsbSets
