SPECIFICATION Spec
CONSTANTS
    Producers = {p1, p2}
    Observers = {o1, o2}
    SendResults = {"OK", "OVERFLOW", "FAIL", "NOT_INITIALIZED"}
    MaxPush = 3
    MaxRecv = 2
    MaxRegs = 3
INVARIANTS FifoInv PermitsInv HandlerSound DeviceOutlivesThreads
PROPERTIES OutboxSpec
