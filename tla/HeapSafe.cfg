SPECIFICATION FairSpec
CONSTANTS
    HeapSize = 13
    EntrySize = 2
    Sizes = {0, 1, 2, 7}
    Pointers <- EveryPointer
INVARIANTS Tiled NoFreeNeighbours LiveIsUsed
PROPERTIES FreesWhatIsHeld FirstFit EveryCallReturns KeepsPromises
