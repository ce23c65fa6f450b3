SPECIFICATION FairSpec
CONSTANTS
    HeaderSize = 2
    MaxLen = 3
    RecvCap = 3
    ReadCap = 4
    Limit = 2
    Lens = {2, 3}
    Refused = {2}
    MaxMsgs = 3
    MaxConns = 2
INVARIANTS TypeOK StreamIntact RepeatedOnlyWhileClosing
PROPERTY EventuallyDispatched
CHECK_DEADLOCK FALSE
