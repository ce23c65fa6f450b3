SPECIFICATION Spec
CONSTANTS
    Players = {p1, p2}
    TableCount = 2
    ChairCount = 2
    None = None
    MaxCount = 3
INVARIANTS TypeOK SeatsAgree WaitingArePresent
PROPERTIES DealtToAll KeepsChair
CHECK_DEADLOCK FALSE
SYMMETRY Symmetry
VIEW View
