SPECIFICATION Spec
CONSTANTS
    p1 = p1
    Threads = {t1, t2}
    Procs = {p1}
    ProcOf <- SameProc
    Slots = {1, 2}
    Messages = {m1, m2}
    Batch = 2
    Mappings = {x1}
    Koids = {k1, k2}
    Capacity = 1
    NoKoid = NoKoid
    NoThread = NoThread
    NoMessage = NoMessage
SYMMETRY Symmetry
INVARIANTS
    CountsExact
    NoLeak
PROPERTY
    CollectedUnused
CHECK_DEADLOCK FALSE
