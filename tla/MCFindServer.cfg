SPECIFICATION Spec
CONSTANTS
    wifichannel <- ThreeChannels
    Near <- OneAndTwo
    Homes <- SomeHomes
    Retry = 2
    Copies = 2
    Room = 2
    MaxCalls = 2
    MaxMoves = 1
    MaxNoise = 1
INVARIANTS
    TypeOK
    MetOnServersChannel
    ZeroMeansFound
    FindsServer
    PatientAfterSearch
PROPERTIES
    SearchEnds
CHECK_DEADLOCK FALSE
