CONSTANTS
    Values = {v1, v2}
    Slots = {1, 2}
    MaxWrites = 1
    Requests = {r1, r2}
    Sends = {m1, m2}
    Producers = {1, 2, 3}
SPECIFICATION SceneSpec
CHECK_DEADLOCK FALSE
INVARIANT SessionEndsInOrder
INVARIANT RequestEndsClean
INVARIANT ProducersOwned
PROPERTY ValuesSettle
