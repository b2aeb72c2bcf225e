SPECIFICATION FairSpec
CONSTANTS
    c1 = c1
    c2 = c2
    NoConn = NoConn
    Conn <- MCConn
    MaxMsg = 3
CHECK_DEADLOCK FALSE
INVARIANTS
    TypeOK
    NoMessageMislaid
    NobodyIsForgotten
PROPERTIES
    MessagesAreWritten
    StopsUnlessOverslept
