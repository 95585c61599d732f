SPECIFICATION SpecMap
CONSTANTS
    Keys = {1, 2, 3}
    Size = 2
    Hash <- SmallHash
    MaxNodes = 3
INVARIANTS ChainsLeadToEntries
