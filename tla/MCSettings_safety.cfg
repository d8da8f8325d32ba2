SPECIFICATION Spec
CONSTANTS
    Runs = {r1, r2}
    Registrations <- MCRegistrations
    Features <- MCFeatures
    Found <- MCFound
    UserHooks <- MCUserHooks
    Marks = {m1, m2}
    Keep = 10
    Attempts = 3
SYMMETRY Symmetry
CHECK_DEADLOCK FALSE
INVARIANTS
    EditsOnlyItsOwn
    RegisteredOnce
    BackedUp
PROPERTIES
    KeepsOthersSaves
    DisableRestores
