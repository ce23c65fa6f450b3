SPECIFICATION MCSpec
CONSTANTS
    p1 = p1
    g1 = g1
    s1 = s1
    Orders = {o1}
    Refunds = {r1}
    Players = {p1}
    Owner <- MCOwner
    Gates = {g1, g2}
    Games = {s1, s2}
    None = None
    Zero = Zero
    AsksAtOnce = 1
    MaxMoves = 2
    MaxBreaks = 0
INVARIANT FailedIsInserted
CHECK_DEADLOCK FALSE
