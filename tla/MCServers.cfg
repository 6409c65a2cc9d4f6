CONSTANTS
    Requests = {r1, r2}
    StreamIds = {s1}
    StreamId <- SameStreamId
    Target <- SameTarget
    Deliveries = {d1}
    None = None
    Modes = {"unary", "client", "server", "bidi"}
    MaxWrites = 1
    Sources = {"orders", "stock", "mirror"}
    Methods <- SharedMethod
    MaxHosts = 2
SPECIFICATION SceneSpec
CHECK_DEADLOCK FALSE
INVARIANTS
    EndIsFinal
    PeersUnharmed
PROPERTY StopReturns
