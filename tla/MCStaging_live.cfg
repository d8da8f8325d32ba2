SPECIFICATION FairSpec
CONSTANTS
    Restorers = {r1}
    Claimants = {c1}
    Gens = {1, 2}
    Sources = {"startup", "clear"}
    DeliverOn = {"startup"}
    MaxRounds = 2
    Tampered = {"unreadable", "corrupt"}
    ClockMayStepBack = FALSE
    RemovalMayFail = FALSE
PROPERTIES
    ClaimReturns
