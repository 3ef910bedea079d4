SPECIFICATION Spec
CONSTANTS
    a = a
    b = b
    None = None
    Failed = Failed
    Tasks = {a, b}
    OwnCommands = {"own"}
    EmbeddedFile <- Embedded
    AppFiles <- OneFile
SYMMETRY Symmetry
INVARIANTS
    UserEntriesKept
