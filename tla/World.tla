-------------------------------- MODULE World --------------------------------
(***************************************************************************)
(* What the game does to its world by the clock, one component beside the  *)
(* other: `part' is the one that moves, from a choice at the start, while  *)
(* the others keep still; it may also be one of those that a module which  *)
(* extends this one adds.  House is the component Rent; the others are     *)
(* instances.                                                              *)
(***************************************************************************)
EXTENDS Rent, FiniteSets

CONSTANTS
    OtherParts,                              \* that a module adds
    Creatures, Monsters, CheckBuckets,       \* of Creatures
    DecayItems, DecayKinds, decayTo, decayTime, stopTime, Never, DecayBuckets, MaxLists,
    Raids, refType, Events, MaxThings,       \* of Raid
    SpawnMonsters, SpawnPlaces, Rate,        \* of Spawn
    MaxSteps, MaxTasks, MaxStray,            \* of Walk
    Columns, Rows, RangeX, RangeY, Others, Nowhere, Kinds, Solid, NoPath, Fields, Holes,
    Landings, ItemSpots, Room,               \* of WalkCache
    Wares, WareKinds, Slots, slotOf, active, wears, unwears, wareDecayTo, speed, shield, Hastes,
    Paralyses, Given                         \* of Effects

VARIABLES
    part,
    stage, refs, dying, isIdle, checked, checkVector, toAdd, vectors, last, looping, toVisit,
    master, released,
    body, itemStage, itemRefs, toDecay, decayItems, lastBucket, decayLooping, decayVisit,
    itemReleased,
    running, eventCount, nextEvent, scheduled, executing, refCount, things,
    monStage, monRefs, monReleased, spawn, spawnedMap, checkSpawnEvent, events, checking, spawnCount,
    newcomer, lost,
    walker,
    standing, at, lying, burning, cache, unasked,
    wearer

cVars == <<stage, refs, dying, isIdle, checked, checkVector, toAdd, vectors, last, looping, toVisit,
           master, released>>
dVars == <<body, itemStage, itemRefs, toDecay, decayItems, lastBucket, decayLooping, decayVisit,
           itemReleased>>
rVars == <<running, eventCount, nextEvent, scheduled, executing, refCount, things>>
sVars == <<monStage, monRefs, monReleased, spawn, spawnedMap, checkSpawnEvent, events, checking, spawnCount,
           newcomer, lost>>
kVars == <<standing, at, lying, burning, cache, unasked>>
worldVars == <<part, cVars, dVars, rentVars, rVars, sVars, walker, kVars, wearer>>

C == INSTANCE Creatures WITH NoCreature <- Nobody, Buckets <- CheckBuckets
D == INSTANCE Decay WITH
    Items <- DecayItems, Kinds <- DecayKinds, Vanish <- Nobody, Buckets <- DecayBuckets,
    stage <- itemStage, refs <- itemRefs, looping <- decayLooping, toVisit <- decayVisit,
    released <- itemReleased
R == INSTANCE Raid WITH NoRaid <- Nobody
S == INSTANCE Spawn WITH
    Monsters <- SpawnMonsters, NoMonster <- Nobody, Places <- SpawnPlaces,
    stage <- monStage, refs <- monRefs, released <- monReleased
W == INSTANCE Walk
K == INSTANCE WalkCache WITH Spots <- ItemSpots, pos <- standing, things <- lying, lost <- unasked
E == INSTANCE Effects WITH Items <- Wares, Kinds <- WareKinds, NoKind <- Nobody, decayTo <- wareDecayTo

Parts == {"creatures", "decay", "house", "raids", "spawn", "walk", "sight", "equipment"}

ASSUME WorldAssumption ==
    /\ Parts \cap OtherParts = {}
    /\ C!CreaturesAssumption /\ D!DecayAssumption /\ RentAssumption /\ R!RaidAssumption
    /\ S!SpawnAssumption /\ W!WalkAssumption /\ K!WalkCacheAssumption /\ E!EffectsAssumption

WorldInit ==
    /\ part \in Parts \cup OtherParts
    /\ C!Init /\ D!Init /\ Init /\ R!Init /\ S!Init /\ W!Init /\ K!Init /\ E!Init

WorldNext ==
    /\ UNCHANGED part
    /\ \/ part = "creatures" /\ C!Next /\ UNCHANGED <<dVars, rentVars, rVars, sVars, walker, kVars, wearer>>
       \/ part = "decay" /\ D!Next /\ UNCHANGED <<cVars, rentVars, rVars, sVars, walker, kVars, wearer>>
       \/ part = "house" /\ Next /\ UNCHANGED <<cVars, dVars, rVars, sVars, walker, kVars, wearer>>
       \/ part = "raids" /\ R!Next /\ UNCHANGED <<cVars, dVars, rentVars, sVars, walker, kVars, wearer>>
       \/ part = "spawn" /\ S!Next /\ UNCHANGED <<cVars, dVars, rentVars, rVars, walker, kVars, wearer>>
       \/ part = "walk" /\ W!Next /\ UNCHANGED <<cVars, dVars, rentVars, rVars, sVars, kVars, wearer>>
       \/ part = "sight" /\ K!Next /\ UNCHANGED <<cVars, dVars, rentVars, rVars, sVars, walker, wearer>>
       \/ part = "equipment" /\ E!Next /\ UNCHANGED <<cVars, dVars, rentVars, rVars, sVars, walker, kVars>>

WorldSpec == WorldInit /\ [][WorldNext]_worldVars

-----------------------------------------------------------------------------
(* The properties of the components, of which their modules tell, with the *)
(* types of their variables, for the part that moves                       *)

\* Creatures: references, lists and marks agree, and who lives is visited.
ChecksWhole == part = "creatures" => C!TypeOK /\ C!ChecksWhole
\* Decay: references and lists agree, and what has time left has its look.
DecayWhole == part = "decay" => D!TypeOK /\ D!DecayWhole
\* Raids: what is said to run goes on, and what does not can start.
RaidsGoOn == part = "raids" => R!TypeOK /\ R!RaidsGoOn
\* Spawn: an empty place is looked at again, and spawn and monsters know each other.
SpawnsRefill == part = "spawn" => S!TypeOK /\ S!SpawnsRefill
\* Walk: steps that are left and an action that waits for them have an event to come.
WalksGoOn == part = "walk" => W!TypeOK /\ W!WalksGoOn
\* WalkCache: what a monster believes of a tile is what the tile would answer.
CacheTrue == part = "sight" => K!TypeOK /\ K!CacheTrue
\* Effects: a player has the effects of what he wears and of his conditions.
EffectsOwn == part = "equipment" => E!TypeOK /\ E!EffectsOwn
=============================================================================
