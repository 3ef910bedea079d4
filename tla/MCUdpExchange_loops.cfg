SPECIFICATION FairSpec
CONSTANTS
    Serial = 468
    Timed = TRUE
    Attempts = 2
    UdpAttempts = 2
    MaxRemotes = 2
    AnswerLen = 17
    Strays <- AllStrays
    MaxStray = 2
    MaxDup = 1
INVARIANTS
    TypeOK
    SendBudget
    OwnAnswer
PROPERTIES
    KeepsPromise
    CallReturns
