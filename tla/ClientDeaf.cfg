SPECIFICATION Spec
CONSTANTS
    Codes = {"START", "BALANCE", "EXIT"}
    MaxLines = 2
    MaxWaits = 0
PROPERTIES
    StopsAtExit
CHECK_DEADLOCK FALSE
