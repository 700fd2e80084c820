SPECIFICATION Spec
CONSTANTS
    t1 = t1
    t2 = t2
    i1 = i1
    i2 = i2
    Addr = {t1, t2}
    Ids = {i1}
    FirstAddr <- MCFirst
    FirstPos <- MCFirstPos
    MaxKnown = 2
    MaxMapped = 2
    MaxOps = 2
    MaxEdits = 1
    MaxFaults = 1
    Unknown = Unknown
    NoId = NoId
INVARIANTS
    ReconnectPicksUpChanges
