SPECIFICATION Spec
CONSTANTS
    Clients = {c1, c2}
    Managers = {m1, m2}
    Lengths = {1, 2}
    MaxData = 1
    MaxPending = 2
    MaxMessages = 2
    MaxConnections = 3
INVARIANTS ClientsExact
PROPERTIES Delivered Accepted
CHECK_DEADLOCK FALSE
