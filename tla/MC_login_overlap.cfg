SPECIFICATION Spec
CONSTANTS
    Clients = {s1, s2}
    Gates = {g1, g2}
    Logins = {l1}
    None = None
    MaxTries = 2
    MaxCrashes = 1
    Refuses = TRUE
    MayBeFull = TRUE
    MayPlay = TRUE
    SlowQueries = TRUE
    Overlap = TRUE
    Patient = FALSE
    Prompt = FALSE
    SameIds = TRUE
INVARIANTS TypeOK OneSession NoLeftovers
SYMMETRY Symmetry
VIEW View
CHECK_DEADLOCK FALSE
