SPECIFICATION DriverSpec
CONSTANTS
    Pushers = {w1, w2}
    Receivers = {r1, r2}
    Limits = {0, 1, 3}
    MaxPush = 5
    MaxSessions = 3
    m1 = m1
    m2 = m2
    a = a
    b = b
    s = s
    c = c
    Modules = {m1, m2}
    Variables = {a, b, c, s}
    ScriptVariables = {s}
    Configured <- TwoFiles
INVARIANTS FifoInv QueueSound ThreadsFollow ScheduleExact
PROPERTIES GrowsWithinLimit OutboxSpec QueueLive StopEndsOnceEntered
