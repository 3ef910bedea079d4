SPECIFICATION FairSpec
CONSTANTS
    Format = "MC4E"
    Serial = 468
    Inputs <- AllStreams
    HeadersWhole = TRUE
INVARIANTS
    TypeOK
    Aligned
    AnswerFound
    AnswerIntact
    AnswerCarriesSerial
PROPERTIES
    ScanEnds
