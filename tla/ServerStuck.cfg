SPECIFICATION FairSpec
CONSTANTS
    Conns = {c1, c2}
    Stoppable = {c1}
    Server = Server
    Session = Session
    NoProc = NoProc
    MaxStarts = 2
PROPERTIES ServerStops
CHECK_DEADLOCK FALSE
