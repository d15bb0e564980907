SPECIFICATION ToPdfSpec
CONSTANTS
    nil = nil
    torn = torn
    Old = Old
    j1 = j1
    j2 = j2
    f1 = f1
    Job = {j1, j2}
    External = {}
    File = {f1}
    Frames = 3
    Overlap = FALSE
    Reentrant = FALSE
INVARIANTS OneReportPerJob NeverShowsATornFile
PROPERTIES NoPrematureSave EveryJobIsReported
CHECK_DEADLOCK FALSE
