SPECIFICATION Spec
CONSTANTS
    o1 = o1
    o2 = o2
    t1 = t1
    t2 = t2
    Owners = {o1, o2}
    Clients = {t1, t2}
    NoId <- NoIdentity
    Slots = {1}
    MaxGen = 2
    Cpus = {0, 1}
    Indices = {0, 1}
    Tries = 1
    MaxSeq = 4
SYMMETRY Symmetry
INVARIANTS LookupCoherent
PROPERTIES LiveNeverStale FlagTakenByItsOwn
