SPECIFICATION FairSpec
CONSTANTS
    Handlers = {h1, h2}
    Vanishing = {h1}
    Names = {ann}
    Amounts = {1}
    Menu <- SessionRequests
    MaxAccount = 1
    MaxRequests = 3
    MaxInbox = 1
    MaxPrints = 1
    NoProc = NoProc
    NoName = NoName
    Printer = Printer
INVARIANTS
    MutexMatchesSession
    AccountLockInUse
PROPERTIES
    VanishedAreReaped
CHECK_DEADLOCK FALSE
