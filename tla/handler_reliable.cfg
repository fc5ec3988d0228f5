SPECIFICATION DrainingSpec
CONSTANTS
    Producers = {p1, p2}
    Observers = {o1}
    SendResults = {"OK", "OVERFLOW"}
    MaxPush = 3
    MaxRecv = 0
    MaxRegs = 0
INVARIANTS BlockedOnlyWhenIdle
PROPERTIES EverythingSent DestructorEnds
