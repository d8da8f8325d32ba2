SPECIFICATION Spec
CONSTANTS
    Restorers = {r1, r2}
    Claimants = {c1}
    Gens = {1, 2}
    Sources = {"startup"}
    DeliverOn = {"startup"}
    MaxRounds = 2
    Tampered = {}
    ClockMayStepBack = FALSE
    RemovalMayFail = FALSE
SYMMETRY Symmetry
INVARIANTS
    NoSilentLoss
