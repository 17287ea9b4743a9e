SPECIFICATION Spec
CONSTANTS
    w1 = w1
    Waiters = {w1}
    WaitCalls <- MCWaitCalls
    MaxPortPackets = 1
    MaxExitPorts = 1
    WaitTicks = 1
    MaxTick = 1
    MaxOwed = 1
    MaxWaking = 1
    ExitKeys = {"k1"}
    Procs = {"p1", "p2"}
    Threads = {"t1", "t2"}
    ThreadOf <- MCThreadOf
    Starters = {"c1"}
    StarterCpu <- MCStarterCpu
    ProcCpus = {1, 2}
    HomeCpu <- MCHomeCpu
    TaskSlots = 1
    GraveyardSize = 1
    JobIds = {"root", "a", "b"}
    RootJob = "root"
    JobLimits = {2, 1000}
    Vmos = {"v1", "v2"}
    MaxVmoPages = 2
    FreeFramesAtBoot = 3
    MaxQuotaEvents = 1
    MaxQuotaPorts = 1
    PortJobs = {"a"}
    MaxNotified = 1
    TreeSlots = {1, 2, 3, 4}
    FairStarts = {0, 2}
    FairTasks = {1, 2}
    FairRequests = {1, 3}
    BudgetCpus = {"c1", "c2"}
    Capacity = 3
    Deadline = 3
    Period = 4
    MaxRefills = 2
    JobQuotaNs = 4
    JobPeriod = 2
    Slice = 2
    MaxTime = 8
    MaxEpoch = 2
    MaxMigrations = 2
    Frames = 6
    UsableFrames = {1, 2, 3, 4, 5}
    BitmapFrames = {1}
    HeapPages = 6
    Orders = 3
    SlotsPerPage = 2
    MaxSlabs = 2
    RegionChunks = 3
    RefillBatch = 2
    QuarantineCap = 2
    SecondaryPages = 9
    CacheEntries = 1
    BigSizes = {2, 3}
    LockCpus = {"c1", "c2"}
    Locks = {"registry", "process", "scheduler"}
    LockRank <- MCLockRank
    MaxHeldLocks = 2
    TicketModulus = 4
    VmarThreads <- MCTwoThreads
    NumPages = 3
    MapVmos <- MCMapVmos
    VmoSize = 3
    Kids <- MCOneKid
    Prots <- MCOneProt
    MaxRecords = 1
    MayClose = TRUE
    RootVmar <- MCRoot
    NoVmar = NoVmar
INVARIANTS   QuotaSound TreeIsQueue
           RuntimeWithinReservation JobWithinQuota AcceptedWakeRuns
           MemoryAccountedOnce  
CHECK_DEADLOCK FALSE
