SPECIFICATION Spec
CONSTANTS
    Handlers = {h1, h2}
    Vanishing = {}
    Names = {ann, bob, cyd}
    Amounts = {1}
    Menu <- MoneyRequests
    MaxAccount = 2
    MaxRequests = 6
    MaxInbox = 1
    MaxPrints = 0
    NoProc = NoProc
    NoName = NoName
    Printer = Printer
SYMMETRY Interchangeable
INVARIANTS
    IInv
    TableIsSound
    AnswersAreTrue
    SessionExclusion
    FlagMatchesSession
    NoLostUpdate
    NoOverdraft
PROPERTIES
    AccountsEndure
    KeepsPromises
CHECK_DEADLOCK FALSE
