CONSTANTS
    Partitions = {p1}
    Records = 3
    Batch = 2
    MaxGen = 3
    Endpoints = {e1, e2}
    Clients = {1, 2}
    Queues = {q1, q2, q3}
    Schedules = {s1, s2}
    Messages = {m1, m2}
    Foreign = {m2}
    Calls = {k1, k2}
    MaxAttempts = 2
    MaxCrashes = 1
SPECIFICATION SceneSpec
SYMMETRY Symmetry
CHECK_DEADLOCK FALSE
INVARIANT CommittedIsAcknowledged
INVARIANT NothingSkipped
INVARIANT AssignmentsSeparate
INVARIANT ClientsReleased
INVARIANT AnswerIsReal
