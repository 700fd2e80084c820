SPECIFICATION Spec
CONSTANTS
    SlotCount = 4
    AdrRange = 8
    External = 3
    Devices = {1, 2}
    Addr = {a1, a2}
    Speeds = {0, 1}
    Bits = {0, 1}
    FnGroups = {"f0"}
    RingSize = 12
    PendingCount = 1
    KnownCount = 1
    MaxOps = 3
    WireAddr <- SampleAddr
    FnSets <- SampleFns
    Inactive = Inactive
    NoLoco = NoLoco
    NoSlot = NoSlot
INVARIANTS
    TypeOK
    AnswersForItself
    Mirrored
    BytesKeepState
PROPERTIES
    PollingIsFair
