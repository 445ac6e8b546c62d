SPECIFICATION MCSpec
SYMMETRY SchedulerSymmetry
INVARIANTS IdsAreQueued NoLateWake TilesShown
 
CONSTANTS
    Clients = {c1}
    Events = {e1, e2, e3}
    Delays = {0, 2}
    MaxId = 2
    MaxTime = 2
    Spurious = TRUE
    NoEvent = NoEvent
    Tiles = {1, 2}  Watchers = {"far", "near"}  Visitors = {"cat", "dog"}  Sight <- MCSight
    Senses = {"far"}  Hiders = {"cat"}  Grounds = {"grass"}  NoGround = "none"
    TopItems = {"edge", "blood"}  DownItems = {"sword", "fire"}  TopOrder <- MCTopOrder
    Splashes = {"blood"}  MagicFields = {"fire"}  Lasting = {}  Limit = 3  TileRoom = 2
CHECK_DEADLOCK FALSE
