SPECIFICATION Spec
CONSTANTS
    a = a
    b = b
    None = None
    Failed = Failed
    Tasks = {a, b}
    OwnCommands = {"own", "define"}
    EmbeddedFile <- Embedded
    AppFiles <- SeveralFiles
SYMMETRY Symmetry
INVARIANTS
    TypeOK
    InForce
    NothingLost
    ClientReady
    OneEntryUnlessCrossed
