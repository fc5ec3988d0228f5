SPECIFICATION Spec
CONSTANTS
    Modules = {1, 2}
    Documents <- TwoRows
    Corrupt <- NoDocument
    Stamped = FALSE
    Lossy = TRUE
    MaxWire = 2
    MaxTimers = 1
INVARIANTS UploadSound
PROPERTIES AckedWasReceived UploadEnds
