SPECIFICATION Spec
CONSTANTS
    Format = "MC4E"
    Serial = 468
    Inputs <- OwnAnswers
    HeadersWhole = FALSE
INVARIANTS
    IncompleteHeaderWaits
