SPECIFICATION Spec
CONSTANTS
    Failed = Failed
    Rejected = Rejected
    CommandEntries <- AppCommands
    Ops <- AllOps
    InitialMemory <- Memory4
    Serial = 54321
    MinCut = 15
INVARIANTS
    TypeOK
    ServerSeesRequest
    RequestFound
    OnlyAllowedPointsSent
PROPERTIES
    ActsAsMemory
