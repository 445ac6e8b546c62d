SPECIFICATION FairSpec
PROPERTY QuitEndsServer
CONSTANTS
    Players = {p1, p2}
    Staff = {p2}
    CloseInstance = TRUE
    ShutdownAtSave = FALSE
    Signals = {"quit"}
    MaxSignals = 1
    MaxRequests = 0
CHECK_DEADLOCK FALSE
