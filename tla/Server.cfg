SPECIFICATION Spec
INVARIANTS QuitSaves ClosedKeepsOut OneGlobalSave
CONSTANTS
    Players = {p1, p2}
    Staff = {p2}
    CloseInstance = TRUE
    ShutdownAtSave = FALSE
    Signals = {"open", "quit"}
    MaxSignals = 2
    MaxRequests = 3
CHECK_DEADLOCK FALSE
