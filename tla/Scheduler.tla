----------------------------- MODULE Scheduler ------------------------------
(***************************************************************************)
(* The scheduler (scheduler.cpp): a thread that hands events to the        *)
(* dispatcher when their time has come.  Callers get an event's id from    *)
(* addEvent and may cancel it with stopEvent, which only takes the id out  *)
(* of a set: the event stays on the queue until its time.                  *)
(*                                                                         *)
(* Time is counted in SCHEDULER_MINTICKS (50 ms).  A critical section on   *)
(* m_eventLock is one step; the test of the thread's loop, the signal of   *)
(* addEvent and the value addEvent returns are outside the lock.           *)
(***************************************************************************)
EXTENDS Naturals, FiniteSets

CONSTANTS
    Clients,  \* threads that call addEvent, stopEvent, stop and shutdown
    Events,   \* SchedulerTask objects, each added once
    Delays,   \* the delays asked for, in ticks
    MaxId,    \* 0xFFFFFFFF in the code: the last event id before the wrap
    MaxTime,  \* bound on the clock
    Spurious, \* whether a condition variable may wake without a signal
    NoEvent

ASSUME SchedulerAssumption ==
    /\ Delays \subseteq Nat /\ MaxId \in Nat \ {0} /\ MaxTime \in Nat
    /\ NoEvent \notin Events /\ Spurious \in BOOLEAN

VARIABLES
    status,      \* where each event is
    eventId,     \* m_eventId of each event, 0 before addEvent
    cycle,       \* m_expiration of each event
    eventIds,    \* m_eventIds
    lastEvent,   \* m_lastEvent
    threadState, \* m_threadState
    pc,          \* where the scheduler thread is
    deadline,    \* the time its timed_wait ends
    current,     \* the event it has popped
    adding,      \* the event each client has made and not yet got the id of
    stage,       \* where the client is in addEvent
    now,
    returned,    \* history: events whose own id addEvent returned
    stopped      \* history: events whose caller was told they are cancelled

clock == <<now>>
thread == <<pc, deadline, current>>
client == <<adding, stage, returned>>
vars == <<status, eventId, cycle, eventIds, lastEvent, threadState, pc, deadline,
          current, adding, stage, now, returned, stopped>>

\* The objects of the last three are deleted; the lost ones leak.
Statuses == {"new", "made", "queued", "taken", "handed", "executed", "dropped",
             "refused", "cleared", "lost"}
Freed == {"executed", "dropped"}
Queued == {e \in Events : status[e] = "queued"}
Accepted == {e \in Events : eventId[e] # 0}
PCs == {"top", "lock", "waiting", "timed", "signalled", "fire", "hand", "drop",
        "exited", "undefined"}

TypeOK ==
    /\ status \in [Events -> Statuses]
    /\ eventId \in [Events -> 0..MaxId]
    /\ cycle \in [Events -> 0..MaxTime]
    /\ eventIds \subseteq 1..MaxId
    /\ lastEvent \in 0..MaxId
    /\ threadState \in {"running", "closing", "terminated"}
    /\ pc \in PCs /\ deadline \in 0..MaxTime
    /\ current \in Events \cup {NoEvent}
    /\ adding \in [Clients -> Events \cup {NoEvent}]
    /\ stage \in [Clients -> {"idle", "made", "signal", "return"}]
    /\ now \in 0..MaxTime
    /\ returned \subseteq Events /\ stopped \subseteq Events
    /\ current # NoEvent <=> pc \in {"hand", "drop"}

Init ==
    /\ status = [e \in Events |-> "new"] /\ eventId = [e \in Events |-> 0]
    /\ cycle = [e \in Events |-> 0] /\ eventIds = {} /\ lastEvent = 0
    /\ threadState = "running" /\ pc = "top" /\ deadline = 0 /\ current = NoEvent
    /\ adding = [c \in Clients |-> NoEvent] /\ stage = [c \in Clients |-> "idle"]
    /\ now = 0 /\ returned = {} /\ stopped = {}

Tick ==
    /\ now < MaxTime /\ now' = now + 1
    /\ UNCHANGED <<status, eventId, cycle, eventIds, lastEvent, threadState,
                   thread, client, stopped>>

-----------------------------------------------------------------------------
(* addEvent and stopEvent                                                  *)

AtLeastOneTick(d) == IF d < 1 THEN 1 ELSE d

\* createSchedulerTask, before the lock: the cycle counts from here.
Create(c, e, d) ==
    /\ stage[c] = "idle" /\ status[e] = "new"
    /\ now + AtLeastOneTick(d) <= MaxTime
    /\ cycle' = [cycle EXCEPT ![e] = now + AtLeastOneTick(d)]
    /\ status' = [status EXCEPT ![e] = "made"]
    /\ adding' = [adding EXCEPT ![c] = e]
    /\ stage' = [stage EXCEPT ![c] = "made"]
    /\ UNCHANGED <<eventId, eventIds, lastEvent, threadState, thread, clock,
                   returned, stopped>>

NextId == IF lastEvent >= MaxId THEN 1 ELSE lastEvent + 1

\* push_heap puts a task on top only if it comes strictly before the others.
BecomesTop(e) == \A f \in Queued : cycle[e] < cycle[f]
SignalsFirstOnly(e) == Queued = {}
SignalsEarlierOnly(e) == Queued # {} /\ BecomesTop(e)
NeedsSignal(e) == BecomesTop(e)

Insert(c) ==
    LET e == adding[c] IN
    /\ stage[c] = "made"
    /\ \/ /\ threadState = "running"
          /\ eventId' = [eventId EXCEPT ![e] = NextId]
          /\ lastEvent' = NextId
          /\ eventIds' = eventIds \cup {NextId}
          /\ status' = [status EXCEPT ![e] = "queued"]
          /\ stage' = [stage EXCEPT ![c] = IF NeedsSignal(e) THEN "signal" ELSE "return"]
       \/ /\ threadState # "running"
          /\ status' = [status EXCEPT ![e] = "refused"]
          /\ stage' = [stage EXCEPT ![c] = "return"]
          /\ UNCHANGED <<eventId, lastEvent, eventIds>>
    /\ UNCHANGED <<cycle, threadState, thread, clock, adding, returned, stopped>>

\* notify_one: a thread in wait goes on with action = false, one in timed_wait
\* with action = true.
AfterSignal == [waiting |-> "fire", timed |-> "signalled"]

Signal(c) ==
    /\ stage[c] = "signal"
    /\ stage' = [stage EXCEPT ![c] = "return"]
    /\ pc' = IF pc \in DOMAIN AfterSignal THEN AfterSignal[pc] ELSE pc
    /\ UNCHANGED <<status, eventId, cycle, eventIds, lastEvent, threadState,
                   deadline, current, clock, adding, returned, stopped>>

\* The id is read from the task after the lock is released: if the dispatcher
\* has executed and deleted the task by then, the caller gets no usable id.
Return(c) ==
    /\ stage[c] = "return"
    /\ returned' = IF eventId[adding[c]] # 0 /\ status[adding[c]] \notin Freed
                   THEN returned \cup {adding[c]} ELSE returned
    /\ stage' = [stage EXCEPT ![c] = "idle"]
    /\ adding' = [adding EXCEPT ![c] = NoEvent]
    /\ UNCHANGED <<status, eventId, cycle, eventIds, lastEvent, threadState,
                   thread, clock, stopped>>

\* A stopEvent that answers true and leaves the id where it was.
StopEventKeepsId(e) ==
    /\ e \in returned
    /\ eventId[e] \in eventIds
    /\ stopped' = stopped \cup {e}
    /\ UNCHANGED <<status, eventId, cycle, eventIds, lastEvent, threadState,
                   thread, client, clock>>

StopEvent(e) ==
    /\ e \in returned
    /\ eventId[e] \in eventIds
    /\ eventIds' = eventIds \ {eventId[e]}
    /\ stopped' = stopped \cup {e}
    /\ UNCHANGED <<status, eventId, cycle, lastEvent, threadState, thread,
                   client, clock>>

\* Scheduler::stop, from setGameState; Scheduler::shutdown, from Game::shutdown.
Stop ==
    /\ threadState = "running" /\ threadState' = "closing"
    /\ UNCHANGED <<status, eventId, cycle, eventIds, lastEvent, thread, client,
                   clock, stopped>>

Shutdown ==
    /\ threadState # "terminated" /\ threadState' = "terminated"
    /\ status' = [e \in Events |-> IF e \in Queued THEN "cleared" ELSE status[e]]
    /\ eventIds' = {}
    /\ UNCHANGED <<eventId, cycle, lastEvent, thread, client, clock, stopped>>

-----------------------------------------------------------------------------
(* schedulerThread                                                         *)

ThreadKeeps ==
    UNCHANGED <<eventId, cycle, lastEvent, threadState, client, clock, stopped>>

\* The loop tests m_threadState without the lock: a shutdown may come between.
Loop ==
    /\ pc = "top"
    /\ pc' = IF threadState = "terminated" THEN "exited" ELSE "lock"
    /\ ThreadKeeps /\ UNCHANGED <<status, eventIds, deadline, current>>

Tops == {e \in Queued : \A f \in Queued : cycle[e] <= cycle[f]}

Sleep ==
    /\ pc = "lock"
    /\ \/ /\ Queued = {} /\ pc' = "waiting" /\ UNCHANGED deadline
       \/ \E e \in Tops : pc' = "timed" /\ deadline' = cycle[e]
    /\ ThreadKeeps /\ UNCHANGED <<status, eventIds, current>>

\* A wake-up that nobody signalled; a wait whose time is over times out instead.
SpuriousWake ==
    /\ Spurious /\ pc \in DOMAIN AfterSignal
    /\ pc = "timed" => now < deadline
    /\ pc' = AfterSignal[pc]
    /\ ThreadKeeps /\ UNCHANGED <<status, eventIds, deadline, current>>

Timeout ==
    /\ pc = "timed" /\ now >= deadline /\ pc' = "fire"
    /\ ThreadKeeps /\ UNCHANGED <<status, eventIds, deadline, current>>

Signalled ==
    /\ pc = "signalled" /\ pc' = "top"
    /\ ThreadKeeps /\ UNCHANGED <<status, eventIds, deadline, current>>

NotStopped(e) == eventId[e] \in eventIds

PopKeepsId(e) ==
    /\ status' = [status EXCEPT ![e] = "taken"]
    /\ current' = e
    /\ pc' = IF NotStopped(e) THEN "hand" ELSE "drop"
    /\ UNCHANGED eventIds

Pop(e) ==
    /\ status' = [status EXCEPT ![e] = "taken"]
    /\ current' = e
    /\ eventIds' = eventIds \ {eventId[e]}
    /\ pc' = IF NotStopped(e) THEN "hand" ELSE "drop"

\* The locked part after the wait.  top() of an empty queue is undefined: the
\* model follows the thread no further.
Fire ==
    /\ pc = "fire"
    /\ \/ threadState = "terminated" /\ pc' = "top" /\ UNCHANGED <<status, eventIds, current>>
       \/ threadState # "terminated" /\ \E e \in Tops : Pop(e)
       \/ /\ threadState # "terminated" /\ Queued = {} /\ pc' = "undefined"
          /\ UNCHANGED <<status, eventIds, current>>
    /\ ThreadKeeps /\ UNCHANGED deadline

Settle(s) ==
    /\ status' = [status EXCEPT ![current] = s]
    /\ current' = NoEvent /\ pc' = "top"
    /\ ThreadKeeps /\ UNCHANGED <<eventIds, deadline>>

\* Dispatcher::addTask; a dispatcher that is being stopped refuses the task.
Hand ==
    /\ pc = "hand"
    /\ \/ Settle("handed")
       \/ threadState # "running" /\ Settle("lost")

Drop == pc = "drop" /\ Settle("dropped")

\* The dispatcher executes and deletes a task it was handed.
Execute(e) ==
    /\ status[e] = "handed"
    /\ status' = [status EXCEPT ![e] = "executed"]
    /\ UNCHANGED <<eventId, cycle, eventIds, lastEvent, threadState, thread,
                   client, clock, stopped>>

Thread == Loop \/ Sleep \/ Timeout \/ Signalled \/ Fire \/ Hand \/ Drop

Next ==
    \/ Tick
    \/ \E c \in Clients, e \in Events, d \in Delays : Create(c, e, d)
    \/ \E c \in Clients : Insert(c) \/ Signal(c) \/ Return(c)
    \/ \E e \in Events : StopEvent(e) \/ Execute(e)
    \/ Stop \/ Shutdown
    \/ SpuriousWake
    \/ Thread

Spec == Init /\ [][Next]_vars

\* Threads are scheduled, time passes, and a call of addEvent that has begun
\* returns; nobody has to add, cancel or shut down.
FairSpec ==
    /\ Spec /\ WF_vars(Thread) /\ WF_vars(Tick)
    /\ \A c \in Clients : WF_vars(Insert(c) \/ Signal(c) \/ Return(c))

-----------------------------------------------------------------------------
(* Properties                                                              *)

\* While the thread sleeps towards the event that was on top, an event that is
\* due earlier has a signal on its way: addEvent signals after it unlocked, and
\* for a new top only.
NoLateWake ==
    /\ pc = "timed" => \/ \A e \in Queued : deadline <= cycle[e]
                       \/ \E c \in Clients : stage[c] = "signal"
    /\ pc = "waiting" => Queued = {} \/ \E c \in Clients : stage[c] = "signal"

\* Every id in the set of active events belongs to an event that is still on
\* the queue: a stopEvent that answers true has an event to cancel, even after
\* the counter has wrapped and ids are shared.
IdsAreQueued == eventIds \subseteq {eventId[e] : e \in Queued}

Shared(e) == eventId[e] # 0 /\ \E f \in Events \ {e} : eventId[f] = eventId[e]

\* The scheduler is a service of cancellable events: nothing but the wrap of its
\* counter, which gives an id to two events, makes it drop an event that no one
\* cancelled, or execute one whose caller was told that it is cancelled.
Fired(e) == status[e] \in {"handed", "executed"} \/ (status[e] = "taken" /\ pc = "hand")
serviceState ==
    [e \in Events |->
        CASE status[e] \in {"new", "made"} -> "idle"
          [] status[e] \in {"refused", "cleared", "lost"} -> "lost"
          [] status[e] = "dropped" /\ e \notin stopped -> "lost"
          [] Fired(e) -> IF e \in stopped THEN "both" ELSE "fired"
          [] OTHER -> IF e \in stopped THEN "cancelled" ELSE "pending"]

Service == INSTANCE TimedEvents WITH
    state <- serviceState, ambiguous <- {e \in Events : Shared(e)}
ImplementsService == Service!Spec

\* Every event on the queue leaves it, if the thread does not read the top of an
\* empty queue: no event is forgotten behind a wait for a later one.
EventsLeaveQueue ==
    \A e \in Events : status[e] = "queued" ~> (status[e] # "queued" \/ pc = "undefined")
=============================================================================
