SPECIFICATION FairSpec
CONSTANTS
    Ids = {1, 2}
    MaxSessions = 3
INVARIANTS TypeOK NotifiedOnce NoneForgotten
PROPERTIES ClosedIsNotified
CHECK_DEADLOCK FALSE
