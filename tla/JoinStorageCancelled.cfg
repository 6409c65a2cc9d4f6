CONSTANTS
    None = None
    Messages = {m1, m2}
    Keys = {a}
    Key <- OneKey
    Life <- OneDeadline
    TTLs = {1}
    Groups = {g1, g2}
    SHRINK_FACTOR = 1
    EarlyCancel = TRUE
    Lag = FALSE
SPECIFICATION FairSpec
PROPERTY
    CancelledJoinEnds
