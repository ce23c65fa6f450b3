SPECIFICATION FairSpec
CONSTANTS
    SendCap = 2
    WriteCap = 2
    Lens = {1, 2}
    MaxBytes = 6
    MaxConns = 2
INVARIANTS TypeOK NoLostWakeup NothingLostOrRepeated OrderedUnlessOverflowed
PROPERTY EventuallySent
CHECK_DEADLOCK FALSE
