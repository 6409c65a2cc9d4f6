CONSTANTS
    NPaths = 1
    Contents = {x1, x2}
    Broken = {}
    Refused = {}
    MaxWrites = 2
SPECIFICATION FairSpec
CHECK_DEADLOCK FALSE
PROPERTY PublishesWhatAgreed
