SPECIFICATION Spec
CONSTANTS
    Byte = 2
    Variables <- WordAndHigh
    Layout <- TwoBytes
    MemorySize = 2
    SelfChanging = {0}
    UserValues <- BeyondTypes
    Files <- OneFile
    Controls = {"word"}
    SliderRange <- SmallSlider
    MaxInFlight = 3
INVARIANTS WritesExact
PROPERTIES ReadYourWrites Converges
