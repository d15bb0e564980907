SPECIFICATION Spec
CONSTANTS
    nil = nil
    torn = torn
    j1 = j1
    j2 = j2
    j3 = j3
    f1 = f1
    f2 = f2
    Job = {j1, j2, j3}
    External = {j3}
    File = {f1, f2}
    Frames = 2
    Overlap = TRUE
    Reentrant = FALSE
SYMMETRY Symmetry
INVARIANTS TypeOK FileHoldsItsJob
CHECK_DEADLOCK FALSE
