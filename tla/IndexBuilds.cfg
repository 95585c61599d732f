SPECIFICATION FairSpec
CONSTANTS
    Keys = {1, 2, 3}
    Size = 2
    Hash <- SmallHash
    MaxNodes = 3
    Files = {1, 2, 3}
    Tokens = {1, 2, 3, 4, 5}
    Words = {1, 2, 3, 4}
    Lower <- SmallLower
    Contents <- SmallContents
INVARIANTS ChainsAreSound CountsAreExact IndexIsExact IndexIsSorted
PROPERTIES IsWritten
