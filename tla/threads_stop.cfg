SPECIFICATION Spec
CONSTANTS
    MaxSessions = 1
PROPERTIES StopEnds
