SPECIFICATION FairSpec
CONSTANTS
    c1 = c1
    c2 = c2
    s1 = s1
    s2 = s2
    t1 = t1
    None = None
    Calls = {c1, c2}
    Timed = {c1}
    Targets = {t1}
    Streams = {s1, s2}
    Attempts = 2
    MaxRemotes = 1
    SerialMax = 2
    MaxDup = 1
INVARIANTS
    OwnAnswer
PROPERTIES
    KeepsPromise
    TimedCallReturns
    EveryCallReturns
