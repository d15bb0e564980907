SPECIFICATION MCSpec
CONSTANTS
    NULL = NULL
    Crash = Crash
    Endless = Endless
    n1 = n1
    n2 = n2
    n3 = n3
    n4 = n4
    n5 = n5
    Node = {n1, n2, n3, n4, n5}
    Order = {1, 2, 3}
    Values = {0, 1, 2, 3, 4}
    oldestAge = 4
    metrix <- TheMetrix
    INT_MAX = 27
    DigitValue <- SomeDigits
    Lengths = {1, 2, 3, 4, 5}
    Letters = {"a", "b"}
    MaxN = 16
SYMMETRY Symmetry
INVARIANTS WalksFindTheirNode LinksAreRewritten LoopsReachTheirEnds StringsAreConverted
CHECK_DEADLOCK FALSE
