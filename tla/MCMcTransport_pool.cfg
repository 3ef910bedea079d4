SPECIFICATION Spec
CONSTANTS
    c1 = c1
    c2 = c2
    c3 = c3
    s1 = s1
    s2 = s2
    s3 = s3
    t1 = t1
    None = None
    Calls = {c1, c2, c3}
    Timed = {c1, c2, c3}
    Targets = {t1}
    Streams = {s1, s2, s3}
    Attempts = 1
    MaxRemotes = 2
    SerialMax = 1
    MaxDup = 0
SYMMETRY Symmetry
INVARIANTS
    TypeOK
    SerializedTraffic
    StreamOwnership
    PrivateExchange
    OwnAnswer
    ExchangeInvariant
    BoundedResend
PROPERTIES
    TakesEffectInOrder
