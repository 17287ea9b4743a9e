SPECIFICATION FairSpec
CONSTANTS
    r1 = r1
    r2 = r2
    s1 = s1
    s2 = s2
    closer = closer
    timer = timer
    Closer = closer
    Timer = timer
    CpuOf <- MCCpuOf
    Readers = {r1}
    Senders = {s1}
    Calls <- AllCalls
    BigMessages = {1}
    Capacity = 2
    MaxSends = 3
    MaxHandleCloses = 1
INVARIANTS
    SleeperReachable
    MessageWakesSleeper
    ClosedMeansDrained
PROPERTIES
    CloseEndsCalls
    TimedCallReturns
CHECK_DEADLOCK FALSE
