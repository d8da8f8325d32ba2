SPECIFICATION Spec
CONSTANTS
    Digests = {a, b}
    Paths = {p}
    Lanes = {l1, l2}
    Main = main
    Tools = {"Edit"}
    HistoryLimit = 9
    ScanMax = 1
    MaxEvents = 5
    MaxOverlap = 2
    MaxTime = 1
    MaxUser = 1
    MaxLost = 1
CHECK_DEADLOCK FALSE
SYMMETRY Symmetry
CONSTRAINTS OneDisturbance EarlyOverlap
INVARIANTS
    UndoneIsAccounted
    ClosedOnlyIfBack
    UndoneReallyLeft
