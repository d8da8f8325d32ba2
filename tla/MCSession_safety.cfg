SPECIFICATION Spec
CONSTANTS
    Vocabularies <- Sessions
    Naming <- NamingTexts
    ExcerptMax = 2
    TestsMax = 2
    EarlierScan = 2
    MaxEvents = 4
    MaxTime = 1
CHECK_DEADLOCK FALSE
CONSTRAINT FewLate
INVARIANTS
    ObjectiveStands
    RulesNumbered
    CodeStaysNamed
    
    OneStory
