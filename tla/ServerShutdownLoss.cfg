SPECIFICATION Spec
CONSTANTS
    c1 = c1
    c2 = c2
    NoConn = NoConn
    Conn <- MCConn
    MaxMsg = 2
CHECK_DEADLOCK FALSE
INVARIANT AllBroadcastsLogged
