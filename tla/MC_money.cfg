SPECIFICATION Spec
CONSTANTS
    Players = {p1, p2}
    Servers = {s1, s2}
    None = None
    Nobody = Nobody
    Start = 1
    Recharged = {p1}
    MaxTransfers = 1
    MaxMoves = 2
    Threads = 2
    Patient = TRUE
    DbKeepsUp = TRUE
SYMMETRY ServerSymmetry
INVARIANTS TypeOK AddsUp
CHECK_DEADLOCK FALSE
