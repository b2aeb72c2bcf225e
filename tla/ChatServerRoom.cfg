SPECIFICATION Spec
CONSTANTS
    c1 = c1
    c2 = c2
    c3 = c3
    alice = alice
    bob = bob
    NoName = NoName
    NoConn = NoConn
    Conn <- MCConn
    Name <- MCName
    NameOf <- MCNameOf
    SinceOf <- MCSinceOf
    Quitters <- MCSecond
    Fd <- MCTwoFds
    SockCap = 1
    MaxEvents = 2
    MaxSend <- MCOneFromFirst
CHECK_DEADLOCK FALSE
INVARIANTS
    TypeOK
    RegistryAgrees
    OnlyRefusedMarked
    EventsAreFresh
    KernelCallsSucceed
    OutputHasAnEdge
    InputHasAnEdge
    UserListsAgree
PROPERTIES
    ImplementsChatRoom
    BacklogKeepsItsEdge
