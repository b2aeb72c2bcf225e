SPECIFICATION PartsSpec
CONSTANTS
    Dir = {a, b}
    LOG_DAY_MAX = 2
    MaxDay = 4
    MaxBatch = 2
    MaxList = 4
    Skew <- MCSkew
    DayLength = 1
    MaxTime = 1
    MaxMsg = 3
    MaxDials = 2
    MAX_MSG_BUF = 3
    PAD_BUF_MULTI = 2
    Message <- MCMessage
    Width = {2, 4}
    Height = {2, 3}
    MaxAdded = 6
    Addr <- MCAddr
    Port <- MCPort
    Name = {16, 17}
    NAMELEN = 16
    NoNumber = NoNumber
    NoLine = NoLine
    NoFile = NoFile
    ValidateSize = {3, 7, 9}
    Size = {3, 4}
    headerLen = 2
    LengthRange = 6
    MaxSent = 4
CHECK_DEADLOCK FALSE
PROPERTY SavedOnceConnected
