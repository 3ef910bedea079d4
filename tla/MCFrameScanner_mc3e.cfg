SPECIFICATION Spec
CONSTANTS
    Format = "MC3E"
    Serial = 468
    Inputs <- OwnAnswers
    HeadersWhole = FALSE
INVARIANTS
    AnswerFound
