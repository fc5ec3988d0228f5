SPECIFICATION Spec
CONSTANTS
    m1 = m1
    m2 = m2
    a = a
    b = b
    s = s
    c = c
    Modules = {m1, m2}
    Variables = {a, b, c, s}
    ScriptVariables = {s}
    Configurations <- TwoModules
    SilenceLimit = 1
    DayLength = 4
    CrossMidnight = FALSE
INVARIANTS ScheduleExact SilenceDetected
PROPERTIES WatchdogExact NoStarvation
