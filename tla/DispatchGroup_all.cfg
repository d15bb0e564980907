SPECIFICATION LiveSpec
CONSTANTS
    t1 = t1
    t2 = t2
    t3 = t3
    m1 = m1
    m2 = m2
    b1 = b1
    b2 = b2
    None = None
    Threads <- MCThreads
    Members <- MCMembers
    Blocks <- MCBlocks
    Uses <- MCUses
    Values = {0, 1, 2}
    LONG_MAX = 2
INVARIANTS
    TypeOK
    EveryWakeupHasItsWaiter
    NoLostWakeup
    OutlivesItsCalls
    MemoryIsThere
    NotifyWaitsUnlessAmidWake
CHECK_DEADLOCK FALSE
PROPERTIES
    KeepsCount
    GrantsPermits
    EveryWaitEnds
