SPECIFICATION ConnectFair
CONSTANTS
    FailsFast = FALSE
    MaxFaults = 3
INVARIANTS ConnectTypeOK ConnectingHasAttempt
PROPERTIES TimeoutOnlyDead DeadPeerDropped Reconnects
CHECK_DEADLOCK FALSE
