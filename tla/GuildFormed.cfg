SPECIFICATION Spec
PROPERTY FormsHisOwn
CONSTANTS
    Players = {a, b}
    NoPlayer = NoPlayer
    Guilds = {1, 2}
    DeleteMayFail = FALSE
CHECK_DEADLOCK FALSE
