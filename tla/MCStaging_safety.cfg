SPECIFICATION Spec
CONSTANTS
    Restorers = {r1}
    Claimants = {c1, c2}
    Gens = {1, 2}
    Sources = {"startup"}
    DeliverOn = {"startup"}
    MaxRounds = 2
    Tampered = {}
    ClockMayStepBack = FALSE
    RemovalMayFail = FALSE
SYMMETRY Symmetry
INVARIANTS
    TypeOK
    AtMostOnce
PROPERTIES
    ImplementsStagedDelivery
