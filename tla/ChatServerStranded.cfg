SPECIFICATION Spec
CONSTANTS
    c1 = c1
    c2 = c2
    c3 = c3
    alice = alice
    bob = bob
    NoName = NoName
    NoConn = NoConn
    Conn <- MCTwoConn
    Name <- MCName
    NameOf <- MCNameOf
    SinceOf <- MCSinceOf
    Quitters <- MCNobody
    Fd <- MCTwoFds
    SockCap = 1
    MaxEvents = 2
    MaxSend <- MCTwoEach
CHECK_DEADLOCK FALSE
INVARIANT NoStrandedPacket
