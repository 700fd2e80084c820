SPECIFICATION MCSpec
CONSTANTS
    Slots = {1, 2}
    Addr = {a1, a2, a3}
    Speeds = {0, 1}
    Dirs = {1}
    FnDirf = {}
    FnSnd = {f5}
    Throttles = {t1, t2}
    MaxLocos = 2
    MaxReplies = 2
    MaxAttempts = 2
    MaxOps = 4
    MaxFaults = 2
    NoAddr = NoAddr
    BusBytes = {0, 6, 7, 93, 125, 130, 162, 223, 249}
    MaxFrameBytes = 6
    MaxHeard = 7
CHECK_DEADLOCK FALSE
SYMMETRY Interchangeable
INVARIANTS
    TypeOK
    SlotsAgree
    DisplayFollows
    HearsEveryFrame
PROPERTY
    HeldKeepsLoco
