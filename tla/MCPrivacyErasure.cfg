CONSTANTS
    identity = identity
    learning = learning
    memory = memory
    h1 = h1
    w1 = w1
    w2 = w2
    d1 = d1
    StoreCount = 4
    OwnerOf <- Slots
    Identity = identity
    Memory = memory
    Devices = {d1}
    Handlers = {h1}
    Workers = {w1, w2}
    NoActor = NoActor
    MaxFaults = 2
SPECIFICATION Spec
INVARIANTS TypeOK VerifiedMeansErased OwnerReopensScrubbed
PROPERTIES PurgeBeforeReopen VerifiedWhilePurgeStands
CHECK_DEADLOCK FALSE
