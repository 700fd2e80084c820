SPECIFICATION Spec
CONSTANTS
    Clients = {c1}
    Places = {1}
    Addr = {a1}
    Fns = {f0}
    Locos <- LocoStates
    Turnouts = {1, 2}
    MaxSubscribed = 1
    MaxOps = 5
    WireAddr <- SampleAddr
    FnSets <- SampleFns
    Nobody = Nobody
    Unknown = Unknown
    Untold = Untold
INVARIANT
    WireAddressesAgree
