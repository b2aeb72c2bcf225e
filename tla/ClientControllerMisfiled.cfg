SPECIFICATION Spec
CONSTANTS
    here = here
    there = there
    NoAddr = NoAddr
    Addr <- MCAddr
    SockCap = 1
    MaxKeys = 1
    MaxSaid = 1
    MaxUnread = 1
CHECK_DEADLOCK FALSE
INVARIANT FiledAtHome
