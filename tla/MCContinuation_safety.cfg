SPECIFICATION Spec
CONSTANTS
    Hooks = {h1, h2, h3}
    Casts <- SafetyCasts
    MaxCheckpoints = 2
    MaxAttach = 2
    Ttl = 1
    MaxTime = 2
SYMMETRY Symmetry
CHECK_DEADLOCK FALSE
INVARIANTS
    TypeOK
    WritesRecorded
    WrittenAgainByPromptOnly
    KeyWritesOnce
PROPERTIES
    ImplementsLifecycle
