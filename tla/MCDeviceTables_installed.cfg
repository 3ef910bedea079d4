SPECIFICATION Spec
CONSTANTS
    a = a
    b = b
    None = None
    Failed = Failed
    Tasks = {a, b}
    Embedded <- EmbeddedPart
    Files <- FileSet
    Texts <- TextSet
    Stable = TRUE
SYMMETRY Symmetry
INVARIANTS
    TypeOK
    TablesAgree
    ChecksNamedDevice
    SameReading
    OnlyReading
    OneRegistration
