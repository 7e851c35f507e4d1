SPECIFICATION Spec
CONSTANTS
    Caller = {1, 2}
    NPages = 2
    Negative = {2}
    Sock = {1, 2, 3}
    MaxCalls = 2
    MaxQueue = 1
    NoCaller = NoCaller
    NoSock = NoSock
CHECK_DEADLOCK FALSE
INVARIANTS
    TypeOK
    PagesBalanced
    SocketsReleased
PROPERTIES
    CallEnds
    RequestsServed
