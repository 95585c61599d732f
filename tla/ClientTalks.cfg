SPECIFICATION FairSpec
CONSTANTS
    Codes = {"START", "BALANCE", "EXIT"}
    MaxLines = 3
    MaxWaits = 1
INVARIANTS
    SentIsTyped
    UserSeesAnswers
PROPERTIES
    EndsWithServer
    Connects
CHECK_DEADLOCK FALSE
