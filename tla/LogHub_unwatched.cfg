SPECIFICATION Spec
CONSTANTS
    UI = {u1, u2}
    Conn = {c1, c2}
    Nil = Nil
    ChanCap = 1
    MaxHubs = 2
    MaxChunks = 2
    MaxDrops = 1
    MaxFaults = 1
SYMMETRY Symmetry
CHECK_DEADLOCK FALSE
INVARIANTS
    NoTrafficUnwatched
