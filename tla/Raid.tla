-------------------------------- MODULE Raid --------------------------------
(***************************************************************************)
(* Raids (raids.cpp): a chain of events for the one that runs, and a count *)
(* of what it has brought into the world that is still there, which may    *)
(* keep it running or keep it from starting again.                         *)
(*                                                                         *)
(* A reload (Raids::clear) deletes the raids whatever the world holds of   *)
(* theirs; it is modelled while nothing does, since a death after it would *)
(* write to a raid that is gone.                                           *)
(***************************************************************************)
EXTENDS Integers, FiniteSets

CONSTANTS
    Raids, NoRaid,
    refType,   \* function on Raids: "none", "single" or "block"
    Events,    \* how many a raid has
    MaxThings  \* bound on what one has in the world

RaidAssumption ==
    /\ NoRaid \notin Raids /\ refType \in [Raids -> {"none", "single", "block"}]
    /\ Events \in Nat \ {0} /\ MaxThings \in Nat

VARIABLES
    running,     \* the raid that Raids thinks is under way
    eventCount,
    nextEvent,   \* whether the raid believes in an event of the scheduler
    scheduled,   \* the raids with an event there
    executing,   \* the raid whose event is under way, or NoRaid
    refCount,
    things       \* the monsters and items that point to a raid

raidVars == <<running, eventCount, nextEvent, scheduled, executing, refCount, things>>

TypeOK ==
    /\ {running, executing} \subseteq Raids \cup {NoRaid}
    /\ eventCount \in [Raids -> 0..Events] /\ nextEvent \in [Raids -> BOOLEAN]
    /\ scheduled \subseteq Raids
    /\ refCount \in [Raids -> Int] /\ things \in [Raids -> 0..MaxThings]

Init ==
    /\ running = NoRaid /\ executing = NoRaid /\ scheduled = {}
    /\ eventCount = [r \in Raids |-> 0] /\ nextEvent = [r \in Raids |-> FALSE]
    /\ refCount = [r \in Raids |-> 0] /\ things = [r \in Raids |-> 0]

\* resetRaid, when the raid has count things: one that blocks goes on while there
\* are any, one that is single is only kept from starting anew.
\* Slip: both go on.
ResetHeld(r, count) ==
    /\ scheduled' = scheduled \ {r} /\ nextEvent' = [nextEvent EXCEPT ![r] = FALSE]
    /\ eventCount' = IF count > 0 THEN eventCount ELSE [eventCount EXCEPT ![r] = 0]
    /\ running' = IF running = r /\ count = 0 THEN NoRaid ELSE running
Reset(r, count) ==
    LET stays == refType[r] = "block" /\ count > 0
    IN /\ scheduled' = scheduled \ {r} /\ nextEvent' = [nextEvent EXCEPT ![r] = FALSE]
       /\ eventCount' = IF stays \/ (refType[r] = "single" /\ count > 0)
                        THEN eventCount ELSE [eventCount EXCEPT ![r] = 0]
       /\ running' = IF running = r /\ ~stays THEN NoRaid ELSE running

\* startRaid, which checkRaids asks of those without things, and doExecuteRaid of
\* any: while things are left that says yes and does nothing.
Start(r) ==
    /\ running = NoRaid /\ refCount[r] = 0 /\ eventCount[r] < Events
    /\ eventCount' = [eventCount EXCEPT ![r] = @ + 1]
    /\ nextEvent' = [nextEvent EXCEPT ![r] = TRUE] /\ scheduled' = scheduled \cup {r}
    /\ running' = r
    /\ UNCHANGED <<executing, refCount, things>>

\* executeRaidEvent, and what it calls: an event that refers to its raid brings
\* things one by one, which may be gone before the next.
Begin(r) ==
    /\ executing = NoRaid /\ r \in scheduled /\ scheduled' = scheduled \ {r} /\ executing' = r
    /\ UNCHANGED <<running, eventCount, nextEvent, refCount, things>>

Bring(r) ==
    /\ executing = r /\ refType[r] # "none" /\ things[r] < MaxThings
    /\ things' = [things EXCEPT ![r] = @ + 1] /\ refCount' = [refCount EXCEPT ![r] = @ + 1]
    /\ UNCHANGED <<running, eventCount, nextEvent, scheduled, executing>>

\* The event may fail; the last one ends the raid too.
Finish(r) ==
    /\ executing = r /\ executing' = NoRaid
    /\ \/ Reset(r, refCount[r])
       \/ /\ eventCount[r] < Events
          /\ eventCount' = [eventCount EXCEPT ![r] = @ + 1]
          /\ nextEvent' = [nextEvent EXCEPT ![r] = TRUE] /\ scheduled' = scheduled \cup {r}
          /\ UNCHANGED running
    /\ UNCHANGED <<refCount, things>>

\* onDeath, convinceCreature, the destructors, onRemoved, doItemRaidUnref: unRef,
\* and with the last thing resetRaid unless the raid has an event to come.
Lose(r) ==
    LET left == refCount[r] - 1
    IN /\ things[r] > 0 /\ things' = [things EXCEPT ![r] = @ - 1]
       /\ refCount' = [refCount EXCEPT ![r] = left]
       /\ IF left <= 0 /\ ~nextEvent[r] THEN Reset(r, left)
          ELSE UNCHANGED <<running, eventCount, nextEvent, scheduled>>
       /\ UNCHANGED executing

Reload ==
    /\ \A r \in Raids : things[r] = 0
    /\ executing = NoRaid
    /\ running' = NoRaid /\ scheduled' = {}
    /\ eventCount' = [r \in Raids |-> 0] /\ nextEvent' = [r \in Raids |-> FALSE]
    /\ refCount' = [r \in Raids |-> 0] /\ UNCHANGED <<executing, things>>

Next ==
    \/ \E r \in Raids : Start(r) \/ Begin(r) \/ Bring(r) \/ Finish(r) \/ Lose(r)
    \/ Reload

Spec == Init /\ [][Next]_raidVars

-----------------------------------------------------------------------------
(* Properties                                                              *)

\* Raids come for ever: whichever order events, deaths and starts by scripts have,
\* the one that is said to run has an event to come or, if it is of the kind that
\* waits, things to lose; no other has an event; and one that neither runs nor has
\* things can start again from its first event.
RaidsGoOn ==
    \A r \in Raids :
        /\ refCount[r] = things[r]
        /\ running = r => r \in scheduled \/ executing = r \/ (refType[r] = "block" /\ things[r] > 0)
        /\ r \in scheduled \/ executing = r => running = r
        /\ running # r /\ things[r] = 0 => eventCount[r] = 0
=============================================================================
