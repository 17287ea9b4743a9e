SPECIFICATION Spec
CONSTANTS
    Cpus <- MCCpus
    Slots <- MCOneSlot
    Indices <- MCOneIndex
    MaxGen = 2
    Workers <- MCWorkers
    CpuOf <- MCCpuOf
    None <- MCNone
INVARIANTS RunqueueExact WakeOnItsWay
PROPERTIES NoStrayUnblock
