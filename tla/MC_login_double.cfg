SPECIFICATION Spec
CONSTANTS
    Clients = {s1, s2, s3}
    Gates = {g1}
    Logins = {l1}
    None = None
    MaxTries = 1
    MaxCrashes = 0
    Refuses = FALSE
    MayBeFull = FALSE
    MayPlay = FALSE
    SlowQueries = FALSE
    Overlap = TRUE
    Patient = TRUE
    Prompt = TRUE
    SameIds = FALSE
INVARIANTS OneSession
CHECK_DEADLOCK FALSE
