SPECIFICATION Spec
CONSTANTS
    Handlers = {h1, h2}
    Vanishing = {h1}
    Names = {ann}
    Amounts = {1}
    Menu <- SessionRequests
    MaxAccount = 1
    MaxRequests = 4
    MaxInbox = 1
    MaxPrints = 0
    NoProc = NoProc
    NoName = NoName
    Printer = Printer
INVARIANTS
    NoSessionOutlivesItsHandler
CHECK_DEADLOCK FALSE
