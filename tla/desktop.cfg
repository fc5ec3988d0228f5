SPECIFICATION Spec
CONSTANTS
    Managers = {m1, m2}
    Addresses = {a1, a2, a3}
    ShownDevices = {1, 256}
    Slots = {1}
    MaxShown = 2
    MaxWindows = 1
    MaxLog = 1
    Sizes = {1, 2, 3}
    DefaultSize = 3
    MaxTime = 2
    ScriptPeriods = {0, 5, 9}
    MaxDepth = 3
    MaxStops = 2
    Byte = 2
    Names = {"a", "b"}
    Projects = {1}
    Devices = {1}
    Files = {"f1", "f2"}
    MaxVariables = 2
    MaxEdits = 2
    Drivers = {"d1", "d2"}
    Periods = {1, 2}
    MaxInterfaces = 2
    MaxChanges = 3
    PayloadSizes = {0, 8, 9}
    MaxEntries = 3
    HexByte = 6
    Digit = 2
    Leftover = {0, 5}
    BootAddress = 21
    PageWords = 2
    Packet = 2
    Segments = {0, 1}
    MaxRecords = 4
    NbModules = 3
    SendLimit = 2
    RecvLimit = 4
    MaxSends = 3
    Handlers = {h1, h2}
    Talkers = {1, 2}
    MaxTexts = 2
INVARIANTS ViewsFollow BoundsExact RunningIsScheduled FilesFaithful MessagesCarried ImageFaithful
PROPERTIES PreferencesKept
SYMMETRY Symmetry
CHECK_DEADLOCK FALSE
