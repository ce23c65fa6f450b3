SPECIFICATION MCSpec
CONSTANTS
    p1 = p1
    p2 = p2
    p3 = p3
    Players = {p1, p2, p3}
    Chairs = 3
    None = None
    Stack <- MCStack
    Small = 1
    RoomLimit = 2
    Raises = {1}
    MaxComing = 1
    MaxHands = 1
INVARIANTS TypeOK
PROPERTIES ChipsMade ChipsLost HandEnds
CHECK_DEADLOCK FALSE
