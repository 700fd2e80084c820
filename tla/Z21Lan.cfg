SPECIFICATION Spec
CONSTANTS
    Clients = {c1, c2, c3}
    Places = {1, 2}
    Addr = {a1, a2}
    Fns = {f0}
    Locos <- LocoStates
    Turnouts = {1}
    MaxSubscribed = 1
    MaxOps = 5
    WireAddr <- SampleAddr
    FnSets <- SampleFns
    Nobody = Nobody
    Unknown = Unknown
    Untold = Untold
SYMMETRY Interchangeable
INVARIANTS
    TypeOK
    SubscriptionsHonoured
    StopTruthful
    CodecKeepsState
