SPECIFICATION MCSpec
CONSTANTS
    Addr = {a1, a2, a3}
    EcosAddr = {a1, a2}
    IdleAddr = {a1}
    Speeds = {0, 1}
    MaxLocos = 2
    MaxPending = 1
    MaxOps = 2
    MaxFaults = 2
    MaxLine = 6
    MaxReplies = 2
    Words <- MCWords
    Blocks <- MCBlocks
    MaxBreaks = 2
    NoAddr = NoAddr
    NoSpeed = NoSpeed
INVARIANTS
    TypeOK
    NoStaleMap
    NothingOvertakesQueue
    QueuedSpeedArrives
    RunStateAgrees
    ViewedAfterConnect
    Resynchronises
PROPERTIES
    Recovers
