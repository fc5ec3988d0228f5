SPECIFICATION Spec
CONSTANTS
    Modules = {1}
    Documents <- WithCorrupt
    Corrupt <- OnlyCorrupt
    Stamped = TRUE
    Lossy = FALSE
    MaxWire = 1
    MaxTimers = 0
PROPERTIES FeedbackAccepted
