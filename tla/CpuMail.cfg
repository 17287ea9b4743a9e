SPECIFICATION CpuMailSpec
CONSTANTS
    t1 = t1
    t2 = t2
    t3 = t3
    c1 = c1
    c2 = c2
    Threads <- MCThreads
    Cpus = {c1, c2}
    CpuOf <- MCCpuOf
    RUNQUEUE_TOKEN_FREE = free
    MaxRequests = 4
    p1 = p1
    p2 = p2
    Producers = {p1, p2}
    Slots = {1, 2, 3}
    WordOf <- Layout
    SummaryOf <- TwoSummaries
    Summaries = 2
INVARIANTS GuardExclusive BitNotStranded
PROPERTIES MailboxReopens IsMailbox
\* The mailbox stops once MaxRequests requests have been served.
CHECK_DEADLOCK FALSE
