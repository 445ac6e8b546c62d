------------------------------- MODULE Spawn --------------------------------
(***************************************************************************)
(* A spawn (spawn.cpp): places for monsters, the check that fills those    *)
(* that are empty, and the monsters' pointer to their spawn (monster.cpp:  *)
(* onCreatureDisappear, convinceCreature).                                 *)
(*                                                                         *)
(* checkSpawn is taken place by place, and spawnMonster in two: what the   *)
(* map calls while a monster is placed happens between Place and Adopt,    *)
(* when the newcomer does not know its spawn yet.  How long a place        *)
(* has been empty, and whether a player is near, is a choice.              *)
(***************************************************************************)
EXTENDS Integers, FiniteSets

CONSTANTS
    Monsters, NoMonster, \* objects; the address of one that was deleted is used again
    Places,              \* spawnMap has 1..Places
    Rate                 \* RATE_SPAWN

SpawnAssumption ==
    /\ IsFiniteSet(Monsters) /\ NoMonster \notin Monsters
    /\ Places \in Nat \ {0} /\ Rate \in Nat \ {0}

VARIABLES
    stage,           \* of a monster's object: none, placed or removed
    refs,            \* refCount
    released,        \* releaseThings
    spawn,           \* the monsters that point to this spawn
    spawnedMap,      \* place -> the monster put there
    checkSpawnEvent, \* whether the spawn has the id of an event
    events,          \* how many checks are with the scheduler
    checking,        \* the place checkSpawn is at, 0 when it is not under way
    spawnCount,
    newcomer,        \* the monster that is being placed
    lost             \* history: places that were emptied without an event

monsterVars == <<stage, refs, released, spawn>>
checkVars == <<checkSpawnEvent, events, checking, spawnCount, newcomer>>
spawnVars == <<monsterVars, checkVars, spawnedMap, lost>>

Spots == 1..Places

\* The run bounds the checks a spawn may have at a time.
MaxEvents == 2

TypeOK ==
    /\ stage \in [Monsters -> {"none", "placed", "removed"}] /\ refs \in [Monsters -> Nat]
    /\ released \subseteq Monsters /\ spawn \subseteq Monsters
    /\ spawnedMap \in [Spots -> Monsters \cup {NoMonster}]
    /\ checkSpawnEvent \in BOOLEAN /\ events \in 0..MaxEvents
    /\ checking \in 0..Places+1 /\ spawnCount \in 0..Rate
    /\ newcomer \in Monsters \cup {NoMonster} /\ lost \subseteq Spots

\* startup: some places cannot be filled, and no event is started for them.
Init ==
    /\ spawnedMap \in [Spots -> Monsters \cup {NoMonster}]
    /\ \A s, t \in Spots : spawnedMap[s] = spawnedMap[t] => s = t \/ spawnedMap[s] = NoMonster
    /\ LET first == {spawnedMap[s] : s \in Spots} \ {NoMonster}
       IN /\ stage = [m \in Monsters |-> IF m \in first THEN "placed" ELSE "none"]
          /\ refs = [m \in Monsters |-> IF m \in first THEN 2 ELSE 0]
          /\ spawn = first
    /\ lost = {s \in Spots : spawnedMap[s] = NoMonster}
    /\ released = {} /\ checkSpawnEvent = FALSE /\ events = 0
    /\ checking = 0 /\ spawnCount = 0 /\ newcomer = NoMonster

-----------------------------------------------------------------------------

IsRemoved(m) == stage[m] = "removed"

\* unRef on each of S; an object without references is deleted.
UnRef(S) ==
    LET dead == {m \in S : refs[m] = 1}
    IN /\ refs' = [m \in Monsters |-> IF m \in S THEN refs[m] - 1 ELSE refs[m]]
       /\ stage' = [m \in Monsters |-> IF m \in dead THEN "none" ELSE stage[m]]
       /\ spawn' = spawn \ dead

\* The spawn counts as waited for once it has an event.
AddEvent == checkSpawnEvent' = TRUE /\ events' = events + 1 /\ lost' = {}

startEvent ==
    IF checkSpawnEvent THEN UNCHANGED <<checkSpawnEvent, events, lost>> ELSE AddEvent

-----------------------------------------------------------------------------
(* What happens in the world, also while a newcomer is placed              *)

Calls == checking = 0 \/ newcomer # NoMonster

\* The bound leaves room for the event that the check itself adds.
Within == events + (IF checking = 0 THEN 0 ELSE 1) < MaxEvents

\* removeCreature: a monster that points to the spawn starts its event.
Remove(m) ==
    /\ Calls /\ stage[m] = "placed"
    /\ IF m \in spawn THEN (checkSpawnEvent \/ Within) /\ startEvent
       ELSE UNCHANGED <<checkSpawnEvent, events, lost>>
    /\ stage' = [stage EXCEPT ![m] = "removed"] /\ released' = released \cup {m}
    /\ UNCHANGED <<refs, spawn, spawnedMap, checking, spawnCount, newcomer>>

\* convinceCreature: the monster leaves its spawn, which starts no event for it.
Convince(m) ==
    /\ Calls /\ stage[m] = "placed" /\ m \in spawn
    /\ spawnedMap' = [s \in Spots |-> IF spawnedMap[s] = m THEN NoMonster ELSE spawnedMap[s]]
    /\ lost' = lost \cup {s \in Spots : spawnedMap[s] = m}
    /\ refs' = [refs EXCEPT ![m] = @ - 1] /\ spawn' = spawn \ {m}
    /\ UNCHANGED <<stage, released, checkVars>>

Cleanup ==
    /\ checking = 0 /\ released # {}
    /\ UnRef(released) /\ released' = {}
    /\ UNCHANGED <<spawnedMap, checkVars, lost>>

-----------------------------------------------------------------------------
(* checkSpawn                                                              *)

\* The removed are taken off the map first.
BeginCheck ==
    /\ checking = 0 /\ events > 0 /\ events' = events - 1 /\ checkSpawnEvent' = FALSE
    /\ LET gone == {s \in Spots : spawnedMap[s] # NoMonster /\ IsRemoved(spawnedMap[s])}
       IN /\ UnRef({spawnedMap[s] : s \in gone})
          /\ spawnedMap' = [s \in Spots |-> IF s \in gone THEN NoMonster ELSE spawnedMap[s]]
    /\ checking' = 1 /\ spawnCount' = 0
    /\ UNCHANGED <<released, newcomer, lost>>

AtPlace == checking \in Spots /\ newcomer = NoMonster /\ spawnCount < Rate

\* The place is taken, or not due, or a player is near.
Skip ==
    /\ AtPlace /\ checking' = checking + 1
    /\ UNCHANGED <<monsterVars, spawnedMap, checkSpawnEvent, events, spawnCount, newcomer, lost>>

\* An attempt to fill it counts, also when there is no room.
Fail ==
    /\ AtPlace /\ spawnedMap[checking] = NoMonster
    /\ checking' = checking + 1 /\ spawnCount' = spawnCount + 1
    /\ UNCHANGED <<monsterVars, spawnedMap, checkSpawnEvent, events, newcomer, lost>>

Place(m) ==
    /\ AtPlace /\ spawnedMap[checking] = NoMonster /\ stage[m] = "none"
    /\ stage' = [stage EXCEPT ![m] = "placed"] /\ refs' = [refs EXCEPT ![m] = 1]
    /\ newcomer' = m
    /\ UNCHANGED <<released, spawn, spawnedMap, checkSpawnEvent, events, checking, spawnCount, lost>>

\* The rest of spawnMonster.  One that was removed at once takes its place all the
\* same, and has started no event.
Adopt ==
    /\ newcomer # NoMonster
    /\ spawn' = spawn \cup {newcomer} /\ refs' = [refs EXCEPT ![newcomer] = @ + 1]
    /\ spawnedMap' = [spawnedMap EXCEPT ![checking] = newcomer]
    /\ lost' = IF IsRemoved(newcomer) THEN lost \cup {checking} ELSE lost \ {checking}
    /\ newcomer' = NoMonster /\ checking' = checking + 1 /\ spawnCount' = spawnCount + 1
    /\ UNCHANGED <<stage, released, checkSpawnEvent, events>>

\* Slip: only when something was spawned.
AfterSpawning == spawnCount > 0

\* Whether a place is empty, so that another check is needed.
Incomplete == \E s \in Spots : spawnedMap[s] = NoMonster

\* The event is added without a look at checkSpawnEvent, which a removal during the
\* check may have set.
EndCheck ==
    /\ checking > 0 /\ newcomer = NoMonster /\ (checking > Places \/ spawnCount >= Rate)
    /\ checking' = 0
    /\ IF Incomplete THEN AddEvent
       ELSE UNCHANGED <<checkSpawnEvent, events, lost>>
    /\ UNCHANGED <<monsterVars, spawnedMap, spawnCount, newcomer>>

Next ==
    \/ \E m \in Monsters : Remove(m) \/ Convince(m) \/ Place(m)
    \/ Cleanup \/ BeginCheck \/ Skip \/ Fail \/ Adopt \/ EndCheck

Spec == Init /\ [][Next]_spawnVars

-----------------------------------------------------------------------------

Holders(m) ==
    Cardinality({s \in Spots : spawnedMap[s] = m})
    + (IF m \in released \/ stage[m] = "placed" THEN 1 ELSE 0)

\* A place without a living monster has a check to come, or is one of those
\* spawn.cpp never looks at again by itself; the spawn and its monsters know the
\* same of each other; and a monster the spawn has on its map is not deleted.
\* (spawn.cpp, startEvent, checkSpawn, removeMonster)
SpawnsRefill ==
    /\ checkSpawnEvent => events > 0
    /\ checking = 0 => \A s \in Spots :
         \/ spawnedMap[s] # NoMonster /\ stage[spawnedMap[s]] = "placed"
         \/ events > 0 \/ s \in lost
    /\ \A s \in Spots : spawnedMap[s] # NoMonster =>
         spawnedMap[s] \in spawn /\ stage[spawnedMap[s]] # "none"
    /\ \A m \in spawn : stage[m] = "placed" => \E s \in Spots : spawnedMap[s] = m
    /\ \A m \in Monsters : refs[m] = Holders(m)
=============================================================================
