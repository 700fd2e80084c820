SPECIFICATION FairSpec
CONSTANTS
    Addr = {a1, a2, a3, a4, bad}
    ValidAddr = {a1, a2, a3, a4}
    Values = {v1}
    MaxLocos = 3
    Timeout = 1
    None = None
INVARIANTS
    TypeOK
    SweptPartIsFresh
PROPERTIES
    ExpiryIsReported
    OrderIsKept
    StaleIsForgotten
    ImplementsRegister
