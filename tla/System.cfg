SPECIFICATION Spec
CONSTANTS
    Gsis = {1, 2}
    LevelGsis = {2}
    KeyboardGsi = 1
    Vectors = {48, 49}
    KeyboardVector = 49
    OnlineCpus = {0}
    IrqObjs = {"a", "b"}
    GsiOf <- MCGsiOf
    KeysOf <- MCKeysOf
    PortRoom = 1
    AckModulus = 3
    ActiveGsis = {2}
    HxFiles <- MCFiles
    HxLast = 60
    SlotsPerWrite = 1
    QuotaBlocks = 2
    MaxRanges = 4
    FailingStages = {"written", "journaled"}
    MaxHxWrites = 3
    MaxPublishes = 2
    MaxHxCrashes = 1
    ObjectSlots = 4
    EntrySlots = 2
    BlobIndexSlots = 1
    ObjectQuota = 0
    Conns = {1, 2, 3}
    ClientSlots = 1
    FileSlots = 1
    DirSlots = 1
    BlobSlots = 1
    Workloads <- MCWork
    Payloads = {"h"}
    MaxNextObject = 4
    MaxBlobRefs = 2
    MaxFileBlocks = 1
    NvBlocks = 2
    NvValues = {0, 1, 2}
    RingSize = 4
    CidModulus = 8
    InOrder = TRUE
    MaxRequests = 2
    MaxFaults = 2
    Namespace = 3
    VolWidth = 5
    VolSlots = 1
    ProxySlots = 2
    MaxVolOps = 3
    Boots <- MCBoots
    Needs <- MCNeeds
    BucketSlots = 2
    Buckets = 2
    MaxRestarts = 2
    MaxGeneration = 4
    StageSets <- MCStages
    FrameDrawLate = FALSE
    OrphanedDoom = FALSE
    MaxDoomRuns = 2
INVARIANTS RoutesSound   
CHECK_DEADLOCK FALSE
