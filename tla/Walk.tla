-------------------------------- MODULE Walk --------------------------------
(***************************************************************************)
(* The walk of one player: creature.cpp (onWalk, addEventWalk,             *)
(* stopEventWalk, startAutoWalk, goToFollowCreature), the action that      *)
(* waits for its end (player.cpp: setNextWalkActionTask, onWalkAborted,    *)
(* onWalkComplete) and the handlers of game.cpp that start both.           *)
(*                                                                         *)
(* A walk event is with the scheduler, then a task of the dispatcher, and  *)
(* is known by the id in eventWalk.  Operators give the walker after a     *)
(* call; where the code looks at the clock or the map they give the set    *)
(* of walkers it may leave.  Ids that are not in use are used again: what  *)
(* stopEvent does to a foreign id is a matter of Scheduler.                *)
(***************************************************************************)
EXTENDS Integers, FiniteSets, Sequences

CONSTANTS
    MaxSteps,  \* length of a path
    MaxTasks,  \* tasks of the walk with the dispatcher at a time
    MaxStray   \* how often an event is stopped that has fired

WalkAssumption == MaxSteps \in Nat \ {0} /\ MaxTasks \in Nat /\ MaxStray \in Nat

VARIABLE walker

\* One event, one for each stray one, and one that is being added.
Ids == 1..MaxStray+2

Tasks == {"walk", "go", "act"}

Walkers == [
    steps : 0..MaxSteps,          \* length of listWalkDir
    cancelNextWalk : BOOLEAN,
    eventWalk : Ids \cup {0},
    timed : SUBSET Ids,           \* walk events with the scheduler
    queue : Seq(Tasks),           \* tasks with the dispatcher
    walkTask : BOOLEAN,           \* an action waits for the end of the walk
    acting : BOOLEAN,             \* and is with the scheduler after it
    alive : BOOLEAN,              \* has health
    noMove : BOOLEAN,
    slow : BOOLEAN,               \* getSpeed is not positive
    \* Histories:
    missed : BOOLEAN,             \* the event came when there was no health
    held : BOOLEAN,               \* a path was stored for one who may not move
    forgotten : BOOLEAN,          \* a walk ended without a word to the waiting action
    stray : Nat]                  \* how often an event was stopped that had fired

TypeOK == walker \in Walkers /\ walker.stray <= MaxStray

Init == walker = [
    steps |-> 0, cancelNextWalk |-> FALSE, eventWalk |-> 0, timed |-> {}, queue |-> <<>>,
    walkTask |-> FALSE, acting |-> FALSE, alive |-> TRUE, noMove |-> FALSE, slow |-> FALSE,
    missed |-> FALSE, held |-> FALSE, forgotten |-> FALSE, stray |-> 0]

Queued(w, kind) == Cardinality({i \in DOMAIN w.queue : w.queue[i] = kind})

-----------------------------------------------------------------------------
(* creature.cpp and player.cpp                                             *)

\* setNextWalkActionTask: what waited, for the walk or for its time, is deleted.
SetAction(w, waits) == [w EXCEPT !.acting = FALSE, !.walkTask = waits, !.forgotten = FALSE]

\* onWalkAborted, with the steps that were left.
Aborted(w) == SetAction([w EXCEPT !.steps = 0, !.held = FALSE], FALSE)

\* onWalkComplete
Completed(w) == IF w.walkTask THEN [w EXCEPT !.walkTask = FALSE, !.acting = TRUE] ELSE w

\* An event that has fired is out of reach: its task will come.
StopEvent(w) == [w EXCEPT
    !.timed = @ \ {w.eventWalk}, !.eventWalk = 0, !.missed = FALSE,
    !.stray = IF w.eventWalk \in w.timed \/ w.missed THEN @ ELSE @ + 1]

\* stopEventWalk, where fired says that the event is the one being executed.
\* A walk without steps left is not aborted.
Ended(w, fired) ==
    IF w.eventWalk = 0 THEN w
    ELSE LET s == StopEvent(w)
             u == IF fired THEN [s EXCEPT !.stray = w.stray] ELSE s
         IN IF w.steps > 0 THEN Aborted(u) ELSE [u EXCEPT !.forgotten = w.walkTask]

stopEventWalk(w) == Ended(w, FALSE)

\* The end of addEventWalk: an event.
Scheduled(w) ==
    LET id == CHOOSE i \in Ids : i \notin w.timed
    IN [w EXCEPT !.eventWalk = id, !.timed = @ \cup {id}, !.missed = FALSE, !.held = FALSE, !.forgotten = FALSE]

\* onWalk before it looks at eventWalk: too early, a step (onto a teleport
\* perhaps), or the end.
Walked(w) ==
    LET step == [w EXCEPT !.steps = @ - 1]
        after == {w} \cup (IF w.steps = 0 THEN {Ended(Completed(w), TRUE)}
                           ELSE {step, Ended(step, TRUE)})
    IN {IF u.cancelNextWalk THEN [Aborted(u) EXCEPT !.cancelNextWalk = FALSE] ELSE u : u \in after}

\* addEventWalk.  The first step of a path of one is taken at once when the last
\* one is long enough ago; eventWalk is still 0 then.  Players never stand still
\* for their speed, since getStepSpeed is at least SPEED_MIN, and what they stand on
\* lets them take steps of some duration.
addEventWalk(w, firstStep) ==
    LET u == [w EXCEPT !.cancelNextWalk = FALSE]
    IN IF u.eventWalk # 0 THEN {u}
       ELSE {Scheduled(u)} \cup
            (IF firstStep THEN {Scheduled(v) : v \in IF u.alive THEN Walked(u) ELSE {u}} ELSE {})

\* Slip: the id of the event that has come is kept.
OnWalkKeepingId(w) == UNION {IF u.eventWalk # 0 THEN addEventWalk(u, FALSE) ELSE {u} : u \in Walked(w)}

onWalk(w) ==
    UNION {IF u.eventWalk # 0 THEN addEventWalk([u EXCEPT !.eventWalk = 0], FALSE) ELSE {u} : u \in Walked(w)}

\* checkCreatureWalk: the event of one without health is not followed by another.
checkCreatureWalk(w) ==
    IF w.alive THEN onWalk(w)
    ELSE {[w EXCEPT !.missed = w.eventWalk # 0 /\ w.eventWalk \notin w.timed /\ Queued(w, "walk") = 0]}

\* The action goes on waiting.
Refused(w) == [w EXCEPT !.forgotten = w.walkTask /\ w.eventWalk = 0]

\* startAutoWalk with a path of n.
startAutoWalk(w, n) ==
    IF w.noMove THEN {Refused(w)}
    ELSE addEventWalk([w EXCEPT !.steps = n], n = 1)

\* goToFollowCreature has put the path into listWalkDir before.
Follow(w, n) ==
    IF w.noMove THEN {Refused([w EXCEPT !.steps = n, !.held = w.eventWalk = 0])}
    ELSE startAutoWalk(w, n)

-----------------------------------------------------------------------------
(* game.cpp                                                                *)

Paths == 1..MaxSteps
Enqueue(w, kind) == [w EXCEPT !.queue = Append(@, kind)]

\* playerUseItem, playerMoveItem and others that are too far off: the walk is a
\* task, the action waits for its end.
Request(w) == SetAction(Enqueue(w, "go"), TRUE)

\* setSpeed when what there is of speed is lost, and when it comes back.
Slowed(w) == [stopEventWalk(w) EXCEPT !.slow = TRUE, !.cancelNextWalk = TRUE]
Speeded(w) ==
    LET u == [w EXCEPT !.slow = FALSE] IN IF u.steps > 0 THEN addEventWalk(u, FALSE) ELSE {u}

\* An event fires.
Fire ==
    \/ \E id \in walker.timed : walker' = Enqueue([walker EXCEPT !.timed = @ \ {id}], "walk")
    \/ walker.acting /\ walker' = Enqueue([walker EXCEPT !.acting = FALSE], "act")

\* The dispatcher executes a task.  The action looks where the player is now, and
\* walks again if it has to.
Run ==
    /\ walker.queue # <<>>
    /\ LET task == Head(walker.queue)
           w == [walker EXCEPT !.queue = Tail(@)]
       IN \/ task = "walk" /\ walker' \in checkCreatureWalk(w)
          \/ task = "go" /\ \E n \in Paths : walker' \in startAutoWalk(w, n)
          \/ task = "act" /\ walker' \in {w, Request(w)}

\* playerMove, playerAutoWalk
Go == \E n \in Paths : walker' \in startAutoWalk(walker, n)
Ask == walker' = Request(walker)
\* playerStopAutoWalk, and what else calls stopWalk
Stop == walker' = [walker EXCEPT !.cancelNextWalk = TRUE]
Chase == \E n \in 0..MaxSteps : walker.alive /\ walker' \in Follow(walker, n)
\* setFollowCreature
ChaseOther == walker.steps > 0 /\ walker' = Aborted(walker)
\* onCreatureMove by a teleport that is not a step
Teleport == walker' = stopEventWalk(walker)
ChangeSpeed ==
    \/ walker' = Slowed(walker)
    \/ walker.slow /\ walker' \in Speeded(walker)
SetNoMove == walker' = [walker EXCEPT !.noMove = ~@, !.cancelNextWalk = TRUE]
\* Without health a player is there until he is looked at, and may be healed.
Health == walker' = [walker EXCEPT !.alive = ~@]

Next ==
    /\ Fire \/ Run \/ Go \/ Ask \/ Stop \/ Chase \/ ChaseOther \/ Teleport
       \/ ChangeSpeed \/ SetNoMove \/ Health
    /\ walker'.stray <= MaxStray /\ Len(walker'.queue) <= MaxTasks

Spec == Init /\ [][Next]_walker

-----------------------------------------------------------------------------

\* A walk goes on: an id in eventWalk is that of an event that is still to come,
\* except when it came to the dead; steps that are left have an event, except those
\* given to one who may not move.  An action that waits for the end of a walk
\* waits for one that ends, except where the code forgets it.  And there is one
\* event at a time, and one more for each that was stopped too late.
\* (creature.cpp, onWalk, addEventWalk, stopEventWalk)
WalksGoOn ==
    LET w == walker IN
    /\ w.eventWalk # 0 /\ ~w.missed => w.eventWalk \in w.timed \/ Queued(w, "walk") > 0
    /\ w.steps > 0 => w.eventWalk # 0 \/ w.held
    /\ w.walkTask => w.eventWalk # 0 \/ Queued(w, "go") > 0 \/ w.forgotten
    /\ Cardinality(w.timed) + Queued(w, "walk") <= 1 + w.stray
=============================================================================
