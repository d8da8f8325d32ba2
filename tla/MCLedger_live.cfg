SPECIFICATION FairSpec
CONSTANTS
    Hooks = {h1}
    Reducers = {r1}
    Keys = {k1}
CHECK_DEADLOCK FALSE
PROPERTIES
    SpoolDrains
