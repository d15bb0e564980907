SPECIFICATION ToPdfSpec
CONSTANTS
    nil = nil
    torn = torn
    Old = Old
    j1 = j1
    j2 = j2
    f1 = f1
    Job = {j1}
    External = {}
    File = {f1}
    Frames = 2
    Overlap = FALSE
    Reentrant = FALSE
INVARIANTS ReadFindsItsPdf
CHECK_DEADLOCK FALSE
