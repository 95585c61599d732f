SPECIFICATION FairSpec
CONSTANTS
    Items = {1, 2, 3}
    Nodes = {n1, n2, n3, n4}
    Iterators = {i1, i2}
    Null = Null
    NoIterator = NoIterator
INVARIANTS CountsAreExact ListIsSorted NothingLeaks ItemStays
PROPERTIES KeepsPromises EveryCallReturns
