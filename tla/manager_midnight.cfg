SPECIFICATION Spec
CONSTANTS
    m1 = m1
    m2 = m2
    a = a
    b = b
    s = s
    c = c
    Modules = {m1}
    Variables = {a, b, c, s}
    ScriptVariables = {s}
    Configurations <- OneModule
    SilenceLimit = 1
    DayLength = 4
    CrossMidnight = TRUE
INVARIANTS SilenceDetected
