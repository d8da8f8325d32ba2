SPECIFICATION Spec
CONSTANTS
    Hooks = {h1}
    Reducers = {r1, r2}
    Keys = {k1}
SYMMETRY Symmetry
CHECK_DEADLOCK FALSE
INVARIANTS
    LossConfined
    OneCheckpoint
PROPERTIES
    FileGoesOnceStored
