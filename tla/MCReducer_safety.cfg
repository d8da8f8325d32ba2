SPECIFICATION Spec
CONSTANTS
    Reducers = {r1, r2}
    Sessions = {s1, s2}
    Batch = 3
    MaxEvents = 4
    MaxTime = 1
SYMMETRY Symmetry
INVARIANTS
    InLogicalOrder
    FoldedOnce
    TailAgrees
