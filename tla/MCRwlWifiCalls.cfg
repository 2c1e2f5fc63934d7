SPECIFICATION Spec
CONSTANTS
    FragSize = 2
    FragCount = 3
    Retry = 2
    QMax = 2
    MaxCalls = 2
    MaxOdd = 0
    Menu <- SmallMenu
    Noise <- Bogus
INVARIANT OwnResponse
PROPERTY AtLeastOnce
CHECK_DEADLOCK FALSE
