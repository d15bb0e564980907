SPECIFICATION Spec
CONSTANTS
    r1 = r1
    r2 = r2
    Request = {r1, r2}
    Keepers = {r1, r2}
    Cancellers = {r1}
    Calls <- SafeCalls
INVARIANTS TypeOK NeverCrashes CalledOnceWithTheOutcome CancelNotLost
PROPERTIES KeepsPromise NeverStartsAfterCancel SilentIfCancelledInTime
CHECK_DEADLOCK FALSE
