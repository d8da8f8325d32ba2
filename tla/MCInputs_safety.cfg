SPECIFICATION Spec
CONSTANTS
    Scenes <- AllScenes
    Families = {"ide"}
    Blank <- blank
    Word <- redact
    Mark <- mark
    Reshaped <- reshape
    MaxPrompt = 16
    Reserve = 3
    MinTail = 2
    MinHead = 3
    ScanLimit = 40
    MaxEdge = 2
    MaxCandidates = 2
    MaxFit = 2
    MaxNames = 1
    MaxRules = 2
    MaxRejections = 1
    MaxSentence = 3
    AntecedentScan = 2
CHECK_DEADLOCK FALSE
INVARIANTS
    WithinBudget
    OwnWordsOnly
    NothingSilentlyDropped
    OpeningAndRequest
    NamesKept
    RulesAreTheUsers
    RejectionsStand
