SPECIFICATION LineSpec
CONSTANTS
    Base = 29
    Start = 20
    Messages <- MCMessages
    MemSize = 2
    NoiseBytes = {11, 20}
    MaxFrames = 3
    MaxFaults = 1
INVARIANTS LinkExact NothingInvented FaultContained
PROPERTY AllArrives
CHECK_DEADLOCK FALSE
