SPECIFICATION FairSpec
CONSTANTS
    here = here
    there = there
    NoAddr = NoAddr
    Addr <- MCOneAddr
    SockCap = 1
    MaxKeys = 1
    MaxSaid = 1
    MaxUnread = 1
CHECK_DEADLOCK FALSE
PROPERTY EndIsNoticed
