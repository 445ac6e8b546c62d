SPECIFICATION MCSpec
SYMMETRY Symmetry
INVARIANTS  DecayWhole RaidsGoOn SpawnsRefill WalksGoOn EffectsOwn CacheTrue
PROPERTIES LettersKept PricesExact
CONSTANTS
    m1 = m1  m2 = m2  p1 = p1  f1 = f1  f2 = f2  i1 = i1  i2 = i2
    single = single  block = block  free = free  Never = Never  Nobody = Nobody
    OtherParts = {"money"}
    Players = {f1, f2}  Period = 1  Warnings = 2  Price = 1  SkipInitialRent = TRUE
    MaxPurse = 1  LastDay = 5
    Creatures = {m1, m2, p1}  Monsters = {m1, m2}  CheckBuckets = 2
    DecayItems = {i1}  DecayKinds = {"lit", "stump", "out", "ash"}  DecayBuckets = 3  MaxLists = 2
    decayTo <- MCDecayTo  decayTime <- MCDecayTime  stopTime <- MCStopTime
    Raids = {single, block, free}  refType <- MCRefType  Events = 3  MaxThings = 3
    SpawnMonsters = {m1, m2, p1}  SpawnPlaces = 2  Rate = 1
    MaxSteps = 2  MaxTasks = 3  MaxStray = 1
    Columns = 3  Rows = 3  RangeX = 1  RangeY = 1  Others = {"cat"}  Nowhere <- MCNowhere
    Kinds = {"fire", "hole"}  Solid = {}  NoPath = {"fire"}  Fields = {"fire"}  Holes = {"hole"}
    Landings <- MCLandings  ItemSpots <- MCSpots  Room = 1
    Wares = {i1, i2}  WareKinds <- Worn  Slots <- MCSlots  slotOf <- MCSlotOf  active <- MCActive
    wears <- MCWears  unwears <- MCUnwears  wareDecayTo <- MCWareDecayTo  speed <- MCSpeed
    shield <- MCShield  Hastes = {1, 2}  Paralyses <- MCParalyses  Given <- MCGiven
CHECK_DEADLOCK FALSE
