SPECIFICATION LiveSpec
CONSTANTS
    Queues <- MCQueues
    Calls <- MCCalls
    ROOT = "root"
    NULL = "null"
    LISTLESS = "listless"
    Clients = {"t1", "t2"}
    Workers = {"w1", "w2"}
    Uses <- SafeUses
INVARIANTS TypeOK NeverCrashes OverlapNeedsAHandOver SerialIsFifo BarrierIsAFence SharedTargetIsSerial OneOwner
PROPERTY EveryBlockEnds
CHECK_DEADLOCK FALSE
