SPECIFICATION FairSpec
CONSTANTS
    here = here
    there = there
    NoAddr = NoAddr
    Addr <- MCOneAddr
    SockCap = 1
    MaxKeys = 2
    MaxSaid = 2
    MaxUnread = 2
CHECK_DEADLOCK FALSE
INVARIANTS
    TypeOK
    ChatHasItsSocket
    OnlyCheckedData
    EventsAreFresh
    OutputHasAnEdge
    InputHasAnEdge
PROPERTIES
    ResetIsNoticed
    OutputDrains
