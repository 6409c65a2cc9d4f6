CONSTANTS
    t1 = t1
    t2 = t2
    t3 = t3
    t4 = t4
    c1 = c1
    c2 = c2
    Infinity = 100
    MaxTimeout = 2
    Jitter = 1
    LastCall = 1
    Horizon = 4
    Stoppers = {s1}
    Milliseconds = 3
    MaxDelay = 2
    MaxTime = 10
    MaxSteps = 2
    Endpoints = {e1, e2}
    Calls = {k1, k2}
    MaxGenerations = 3
    Items = {h1, h2, h3, h4, h5, h6}
    Keys = {1, 2}
    TTLs = {0, 1}
    Fresh = {f1, f2, f3}
    SHRINK_FACTOR = 1
    None = None
    m1 = m1
    m2 = m2
SPECIFICATION SceneSpec
SYMMETRY Symmetry
CHECK_DEADLOCK FALSE
INVARIANT TimerCoversHead
INVARIANT StoppedIsQuiet
INVARIANT LeastOnTop
INVARIANT ValuesKept
PROPERTY FiresWhenDue
PROPERTY ImplementsDrainPool
PROPERTY GroupsCloseOnce
PROPERTY ExpiresWhenDue
