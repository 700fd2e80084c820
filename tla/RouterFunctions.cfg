SPECIFICATION Spec
CONSTANTS
    Addr = {a1}
    Speeds = {0}
    Dirs = {1}
    Fns = {f1}
    FnGroups = {{f1}}
    Throttles = {z21, lnet}
    XPRESSNET = xnet
    Z21_LAN = z21
    MaxLocos = 1
    OperatorAddr = {a1}
    IdleAddr = {}
    MaxOps = 3
    Inverted = {f1}
    NoAddr = NoAddr
    NoLoco = NoLoco
    NoSource = NoSource
    NoBaseline = NoBaseline
CHECK_DEADLOCK FALSE
INVARIANTS
    FunctionsAgree
    BystandersShowAll
