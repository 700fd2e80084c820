SPECIFICATION Spec
CONSTANTS
    Addr = {a1, a2}
    EcosAddr = {a1}
    IdleAddr = {a1, a2}
    Speeds = {0, 1}
    MaxLocos = 2
    MaxPending = 1
    MaxOps = 2
    MaxFaults = 1
    NoAddr = NoAddr
    NoSpeed = NoSpeed
INVARIANTS
    AllViewedAfterConnect
