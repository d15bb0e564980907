SPECIFICATION Spec
CONSTANTS
    r1 = r1
    Request = {r1}
    Keepers = {}
    Cancellers = {}
    Calls <- UserInfo
INVARIANTS NeverCrashes
CHECK_DEADLOCK FALSE
