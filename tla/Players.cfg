SPECIFICATION MCSpec
SYMMETRY Symmetry
INVARIANTS KeepsPlace SessionsSound ConnectingHasEvent  RanksStand TalkersLive WindowsTrue LoadsWhatWasSaved 
PROPERTIES PlacesInTurn
CONSTANTS
    x = x  y = y  z = z  f1 = f1  f2 = f2  p1 = p1  s1 = s1  NoPlayer = NoPlayer
    OtherParts = {"storage"}
    Players = {f1, f2, s1}  Premium = {f1, f2}  Staff = {s1}  Slots = {1, 2}
    Clients = {f1, f2, p1, s1}  Subscribers = {p1}  Always = {s1}  Places = 2  SkipWait = FALSE  Step = 5
    Protocols = {x, y, z}  ReplaceKick = TRUE
    Partners = {x, y, z}  Addresses = {1, 2}  NoParty = 0  SelfInvites = FALSE
    GuildPlayers = {f1, f2}  Guilds = {1, 2}  DeleteMayFail = TRUE
    Lookers = {"ann", "bob"}  Tiles = {"here", "there"}  Near <- MCNear
    Bags = {"b1", "b2"}  Coins = {"c"}  Cids <- MCCids  Gone = "gone"
    expFor <- MCExpFor  reqTries <- MCReqTries  reqMana <- MCReqMana  TopLevel = 5  TopSkill = 13
    Gains = {10, 35}  Losses = {15}  Counts = {2, 5}  LossPercent = 100  VocationGain = 5  BeginnerGain = 2
    ToLevel = 3  LevelTo = 2  Huge = 20  MaxMagic = 2
CHECK_DEADLOCK FALSE
