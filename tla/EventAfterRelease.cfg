SPECIFICATION Spec
CONSTANTS
    Addr = {a1}
    Speeds = {0, 1}
    Dirs = {1}
    Fns = {}
    FnGroups = {}
    Throttles = {xnet}
    XPRESSNET = xnet
    Z21_LAN = z21
    MaxLocos = 1
    OperatorAddr = {a1}
    IdleAddr = {a1}
    MaxOps = 3
    Inverted = {}
    NoAddr = NoAddr
    NoLoco = NoLoco
    NoSource = NoSource
    NoBaseline = NoBaseline
CHECK_DEADLOCK FALSE
INVARIANTS
    EntryMeansViewed
