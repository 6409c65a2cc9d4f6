CONSTANTS
    poolC = poolC
    managedC = managedC
    sinkC = sinkC
    sourceC = sourceC
    teleC = teleC
    Components = {poolC, managedC, sinkC, sourceC, teleC}
    Category <- ComponentCategory
    Services <- TwoServices
    Callers = {k1, k2}
    j1 = j1
    Jobs = {j1, j2, j3}
    Drainers = {d1, d2}
    NPaths = 2
    Initial = x1
    Contents = {x1, x2, bad, refused}
    Broken = {bad}
    Refused = {refused}
    MaxWrites = 3
SPECIFICATION SceneSpec
CHECK_DEADLOCK FALSE
INVARIANTS
    StoppedMeansReleased
    OrderlyRelease
    SealedDrainIsFinal
PROPERTIES
    PublishesStable
    LiveCallerSucceeds
