SPECIFICATION Spec
CONSTANTS
    FragSize = 2
    FragCount = 4
    Retry = 2
    QMax = 3
    MaxCalls = 1
    MaxOdd = 1
    Menu <- IoctlMenu
    Noise <- Bogus
INVARIANTS TypeOK StopsWhenWhole
PROPERTY CallReturns
CHECK_DEADLOCK FALSE
