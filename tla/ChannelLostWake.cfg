SPECIFICATION Spec
CONSTANTS
    r1 = r1
    r2 = r2
    s1 = s1
    s2 = s2
    closer = closer
    timer = timer
    Closer = closer
    Timer = timer
    CpuOf <- MCCpuOf
    Readers = {r1, r2}
    Senders = {s1}
    Calls <- PlainReads
    BigMessages = {}
    Capacity = 2
    MaxSends = 2
    MaxHandleCloses = 0
INVARIANT
    MessageWakesSleeper
CHECK_DEADLOCK FALSE
