SPECIFICATION Spec
CONSTANTS
    Addr = {a1}
    Speeds = {0, 1}
    Dirs = {0, 1}
    Fns = {}
    FnGroups = {}
    Throttles = {xnet, z21, lnet}
    XPRESSNET = xnet
    Z21_LAN = z21
    MaxLocos = 1
    OperatorAddr = {a1}
    IdleAddr = {}
    MaxOps = 3
    Inverted = {}
    NoAddr = NoAddr
    NoLoco = NoLoco
    NoSource = NoSource
    NoBaseline = NoBaseline
CHECK_DEADLOCK FALSE
INVARIANTS
    DriveAgrees
    LastDriveWins
    OthersShowDrive
