SPECIFICATION Spec
CONSTANTS
    Queues <- MCQueues
    Calls <- MCCalls
    ROOT = "root"
    NULL = "null"
    LISTLESS = "listless"
    Clients = {"t1", "t2"}
    Workers = {"w1", "w2"}
    Uses <- Serial
INVARIANT OneBlockAtATime
CHECK_DEADLOCK FALSE
