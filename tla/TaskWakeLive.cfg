SPECIFICATION FairSpec
CONSTANTS
    Cpus <- MCCpus
    Slots <- MCOneSlot
    Indices <- MCOneIndex
    MaxGen = 2
    Workers <- MCOneWorker
    CpuOf <- MCOneCpuOf
    None <- MCNone
PROPERTIES WakeDelivered FinishedReaped
