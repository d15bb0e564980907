SPECIFICATION Spec
CONSTANTS
    r1 = r1
    r2 = r2
    Request = {r1, r2}
    Keepers = {r1}
    Cancellers = {r2}
    Calls <- OneCall
PROPERTIES EveryDroppedRequestIsFreed
CHECK_DEADLOCK FALSE
