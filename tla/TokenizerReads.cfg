SPECIFICATION FairSpec
CONSTANTS
    Inputs <- EveryText
INVARIANTS
    ReadsAsDocumented
    StaysInText
PROPERTIES
    EveryTextEnds
CHECK_DEADLOCK FALSE
