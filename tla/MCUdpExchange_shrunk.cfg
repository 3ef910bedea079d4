SPECIFICATION Spec
CONSTANTS
    Serial = 468
    Timed = TRUE
    Attempts = 1
    UdpAttempts = 1
    MaxRemotes = 1
    AnswerLen = 17
    Strays <- AllStrays
    MaxStray = 1
    MaxDup = 0
INVARIANTS
    AnswerWhole
