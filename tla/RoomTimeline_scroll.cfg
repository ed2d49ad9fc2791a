SPECIFICATION Spec
CONSTANTS
    Limit = 1
    FirstLength = 2
    MaxMessages = 3
    MaxVersion = 1
    MaxUpdated = 0
    MaxLosses = 0
CHECK_DEADLOCK FALSE
PROPERTY
    ScrollingLoads
