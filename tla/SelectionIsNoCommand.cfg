SPECIFICATION Spec
CONSTANTS
    Slots = {1, 2}
    Addr = {a1}
    Speeds = {0, 1}
    Dirs = {1}
    FnDirf = {}
    FnSnd = {}
    Throttles = {t1}
    MaxLocos = 2
    MaxReplies = 8
    MaxAttempts = 25
    MaxOps = 3
    MaxFaults = 0
    NoAddr = NoAddr
CHECK_DEADLOCK FALSE
PROPERTY
    SelectionIsNoCommand
