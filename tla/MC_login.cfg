SPECIFICATION FairSpec
CONSTANTS
    Clients = {s1, s2, s3}
    Gates = {g1}
    Logins = {l1}
    None = None
    MaxTries = 2
    MaxCrashes = 0
    Refuses = TRUE
    MayBeFull = TRUE
    MayPlay = FALSE
    SlowQueries = FALSE
    Overlap = FALSE
    Patient = TRUE
    Prompt = TRUE
    SameIds = FALSE
INVARIANTS HasPlayer HasInfo NoGhost
PROPERTIES Promise
CHECK_DEADLOCK FALSE
