CONSTANTS
    r3 = r3
    Requests = {r1, r2, r3}
    StreamIds = {s1, s2}
    StreamId <- TwoShareId
    Deliveries = {d1}
    Target <- SharedTarget
    None = None
    Starts = 1
    Concurrencies = {1, 2}
    Crowd <- ThreeForOneSlot
    Keys = {k1, k2, k3}
    Entries = {v1, v2}
    Shards = {h1, h2}
    KeyShard <- AllInFirst
    MinCapacity = 2
    SHRINK_FACTOR = 1
SPECIFICATION SceneSpec
INVARIANTS
    SlotsServeQueue
    PendingWhileWaiting
PROPERTIES
    StoppedRequestsEnd
    ImplementsKeyedMap
