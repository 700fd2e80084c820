SPECIFICATION Spec
CONSTANTS
    Addr = {a1}
    Speeds = {0}
    Dirs = {1}
    Fns = {f1}
    FnGroups = {{f1}}
    Throttles = {xnet}
    XPRESSNET = xnet
    Z21_LAN = z21
    MaxLocos = 1
    OperatorAddr = {}
    IdleAddr = {}
    MaxOps = 2
    Inverted = {}
    NoAddr = NoAddr
    NoLoco = NoLoco
    NoSource = NoSource
    NoBaseline = NoBaseline
CHECK_DEADLOCK FALSE
INVARIANTS
    LastFunctionWins
