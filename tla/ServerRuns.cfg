SPECIFICATION ServerSpec
CONSTANTS
    Conns = {c1, c2, c3}
    Stoppable = {c1}
    Server = Server
    Session = Session
    NoProc = NoProc
    MaxStarts = 2
INVARIANTS OnlyStoppedAreForgotten
PROPERTIES TruncatedUnused StopEnds
CHECK_DEADLOCK FALSE
