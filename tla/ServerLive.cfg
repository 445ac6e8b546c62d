SPECIFICATION FairSpec
PROPERTIES ClosingEnds 
CONSTANTS
    Players = {p1, p2}
    Staff = {p2}
    CloseInstance = TRUE
    ShutdownAtSave = FALSE
    Signals = {"save", "close", "open", "quit", "down"}
    MaxSignals = 1
    MaxRequests = 1
CHECK_DEADLOCK FALSE
