--------------------------- MODULE ThreadsProofs ---------------------------
(***************************************************************************)
(* What holds of the scheduler for every set of clients and events, every  *)
(* delay and every width of the event id; and of the dispatcher for every  *)
(* set of clients and tasks.                                               *)
(***************************************************************************)
EXTENDS Threads, Sequences, TLAPS

-----------------------------------------------------------------------------
(* The scheduler                                                           *)

\* Every object has one owner: the client that made it, the queue, or the thread.
Owned ==
    /\ \A c \in Clients :
         /\ adding[c] = NoEvent <=> stage[c] = "idle"
         /\ stage[c] = "made" => status[adding[c]] = "made"
         /\ adding[c] # NoEvent => status[adding[c]] # "new"
    /\ \A c, d \in Clients : c # d /\ adding[c] = adding[d] => adding[c] = NoEvent
    /\ pc \in {"hand", "drop"} => status[current] = "taken"

\* The inductive invariant of the safety theorems.
IInv == TypeOK /\ NoLateWake /\ IdsAreQueued /\ Owned

LEMMA InitIInv == Init => IInv
<1> SUFFICES ASSUME Init PROVE IInv
  OBVIOUS
<1> USE SchedulerAssumption DEF Init
<1>1. TypeOK
  BY DEF TypeOK, Statuses, PCs
<1>2. NoLateWake
  BY DEF NoLateWake, Queued
<1>3. IdsAreQueued
  BY DEF IdsAreQueued
<1>4. Owned
  BY DEF Owned
<1>5. QED BY <1>1, <1>2, <1>3, <1>4 DEF IInv

-----------------------------------------------------------------------------
(* The steps of the clients.                                               *)

LEMMA CreateStep ==
    ASSUME IInv, NEW c \in Clients, NEW e \in Events, NEW d \in Delays, Create(c, e, d)
    PROVE  IInv'
<1> USE DEF Create, thread, clock
<1>0. now + AtLeastOneTick(d) \in 0..MaxTime
  BY SchedulerAssumption DEF IInv, TypeOK, AtLeastOneTick
<1>1. TypeOK'
  BY <1>0, SchedulerAssumption DEF IInv, TypeOK, Statuses
<1>2. Queued' = Queued /\ \A f \in Queued : cycle'[f] = cycle[f]
  BY DEF IInv, TypeOK, Queued
<1>3. NoLateWake'
  BY <1>2 DEF IInv, TypeOK, NoLateWake
<1>4. IdsAreQueued'
  BY <1>2 DEF IInv, IdsAreQueued
<1>5. Owned'
  BY SchedulerAssumption DEF IInv, TypeOK, Owned
<1>6. QED BY <1>1, <1>3, <1>4, <1>5 DEF IInv

LEMMA NextIdType ==
    ASSUME IInv
    PROVE  NextId \in 1..MaxId
BY SchedulerAssumption DEF IInv, TypeOK, NextId

LEMMA InsertStep ==
    ASSUME IInv, NEW c \in Clients, Insert(c)
    PROVE  IInv'
<1> DEFINE e == adding[c]
<1> USE DEF Insert, thread, clock
<1>0. e \in Events /\ status[e] = "made" /\ stage[c] = "made"
  BY DEF IInv, TypeOK, Owned
<1>1. CASE threadState = "running"
  <2>0. /\ eventId' = [eventId EXCEPT ![e] = NextId] /\ lastEvent' = NextId
        /\ eventIds' = eventIds \cup {NextId}
        /\ status' = [status EXCEPT ![e] = "queued"]
        /\ stage' = [stage EXCEPT ![c] = IF NeedsSignal(e) THEN "signal" ELSE "return"]
        /\ UNCHANGED <<cycle, threadState, pc, deadline, current, now, adding, returned, stopped>>
    BY <1>1
  <2>1. TypeOK'
    <3>1. NextId \in 1..MaxId /\ NextId \in 0..MaxId
      BY NextIdType, SchedulerAssumption
    <3> HIDE DEF NextId
    <3>2. /\ status' \in [Events -> Statuses] /\ eventId' \in [Events -> 0..MaxId]
          /\ eventIds' \subseteq 1..MaxId /\ lastEvent' \in 0..MaxId
          /\ stage' \in [Clients -> {"idle", "made", "signal", "return"}]
      BY <3>1, <2>0, <1>0 DEF IInv, TypeOK, Statuses
    <3>3. QED BY <3>2, <2>0 DEF IInv, TypeOK
  <2>2. Queued' = Queued \cup {e} /\ e \notin Queued
    BY <2>0, <1>0 DEF IInv, TypeOK, Queued
  <2>3. NoLateWake'
    <3>1. CASE BecomesTop(e)
      BY <2>0, <3>1 DEF NoLateWake, IInv, TypeOK, NeedsSignal
    <3>2. CASE ~BecomesTop(e)
      <4>1. PICK f \in Queued : ~(cycle[e] < cycle[f])
        BY <3>2 DEF BecomesTop
      <4>2. \A x \in Events : cycle[x] \in Nat
        BY DEF IInv, TypeOK
      <4>3. f \in Events /\ deadline \in Nat
        BY DEF Queued, IInv, TypeOK
      <4>4. CASE \E b \in Clients : stage[b] = "signal"
        BY <4>4, <2>0, <1>0 DEF NoLateWake, IInv, TypeOK
      <4>5. CASE pc = "timed" => \A x \in Queued : deadline <= cycle[x]
        <5>1. pc # "waiting" \/ \E b \in Clients : stage[b] = "signal"
          BY <4>1 DEF IInv, NoLateWake
        <5>2. pc = "timed" => \A x \in Queued' : deadline' <= cycle'[x]
          BY <4>1, <4>2, <4>3, <4>5, <2>0, <2>2, <1>0
        <5>3. QED BY <5>1, <5>2, <4>4, <2>0 DEF NoLateWake
      <4>6. QED BY <4>4, <4>5 DEF IInv, NoLateWake
    <3>3. QED BY <3>1, <3>2
  <2>4. IdsAreQueued'
    <3>1. eventId'[e] = NextId /\ \A f \in Queued : f \in Events /\ eventId'[f] = eventId[f]
      BY <2>0, <2>2, <1>0 DEF IInv, TypeOK, Queued
    <3>2. QED BY <3>1, <2>0, <2>2 DEF IInv, IdsAreQueued
  <2>5. Owned'
    BY <2>0, <1>0, SchedulerAssumption DEF IInv, Owned, TypeOK
  <2>6. QED BY <2>1, <2>3, <2>4, <2>5 DEF IInv
<1>2. CASE threadState # "running"
  <2>0. /\ status' = [status EXCEPT ![e] = "refused"]
        /\ stage' = [stage EXCEPT ![c] = "return"]
        /\ UNCHANGED <<eventId, lastEvent, eventIds, cycle, threadState, pc, deadline,
                       current, now, adding, returned, stopped>>
    BY <1>2
  <2>1. TypeOK'
    BY <2>0, <1>0 DEF IInv, TypeOK, Statuses
  <2>2. Queued' = Queued
    BY <2>0, <1>0 DEF IInv, TypeOK, Queued
  <2>3. NoLateWake'
    BY <2>0, <2>2, <1>0 DEF NoLateWake, IInv, TypeOK
  <2>4. IdsAreQueued'
    BY <2>0, <2>2 DEF IInv, IdsAreQueued
  <2>5. Owned'
    BY <2>0, <1>0, SchedulerAssumption DEF IInv, Owned, TypeOK
  <2>6. QED BY <2>1, <2>3, <2>4, <2>5 DEF IInv
<1>3. QED BY <1>1, <1>2

LEMMA SignalStep ==
    ASSUME IInv, NEW c \in Clients, Signal(c)
    PROVE  IInv'
<1> USE DEF Signal, clock
<1>0. /\ pc \notin {"waiting", "timed"} => pc' = pc
      /\ pc = "waiting" => pc' = "fire"
      /\ pc = "timed" => pc' = "signalled"
  <2>1. DOMAIN AfterSignal = {"waiting", "timed"}
    BY DEF AfterSignal
  <2>2. AfterSignal["waiting"] = "fire" /\ AfterSignal["timed"] = "signalled"
    BY DEF AfterSignal
  <2>3. QED BY <2>1, <2>2
<1>1. TypeOK'
  BY <1>0 DEF IInv, TypeOK, PCs
<1>2. NoLateWake'
  BY <1>0 DEF NoLateWake, IInv, TypeOK, PCs
<1>3. IdsAreQueued'
  BY DEF IInv, IdsAreQueued, Queued
<1>4. Owned'
  BY <1>0, SchedulerAssumption DEF IInv, Owned, TypeOK
<1>5. QED BY <1>1, <1>2, <1>3, <1>4 DEF IInv

LEMMA ReturnStep ==
    ASSUME IInv, NEW c \in Clients, Return(c)
    PROVE  IInv'
<1> USE DEF Return, clock, thread
<1>0. adding[c] \in Events
  BY DEF IInv, TypeOK, Owned
<1>1. TypeOK'
  BY <1>0 DEF IInv, TypeOK
<1>2. NoLateWake'
  BY DEF NoLateWake, IInv, TypeOK, Queued
<1>3. IdsAreQueued'
  BY DEF IInv, IdsAreQueued, Queued
<1>4. Owned'
  BY SchedulerAssumption DEF IInv, Owned, TypeOK
<1>5. QED BY <1>1, <1>2, <1>3, <1>4 DEF IInv

LEMMA ControlSteps ==
    ASSUME IInv, Tick \/ Stop \/ Shutdown \/ \E e \in Events : StopEvent(e)
    PROVE  IInv'
<1>1. CASE Tick
  <2> USE <1>1 DEF Tick, thread, client
  <2>1. TypeOK'
    BY SchedulerAssumption DEF IInv, TypeOK
  <2>2. NoLateWake' /\ IdsAreQueued' /\ Owned'
    BY DEF IInv, NoLateWake, IdsAreQueued, Owned, Queued
  <2>3. QED BY <2>1, <2>2 DEF IInv
<1>2. CASE Stop
  <2> USE <1>2 DEF Stop, thread, client, clock
  <2>1. TypeOK'
    BY DEF IInv, TypeOK
  <2>2. NoLateWake' /\ IdsAreQueued' /\ Owned'
    BY DEF IInv, NoLateWake, IdsAreQueued, Owned, Queued
  <2>3. QED BY <2>1, <2>2 DEF IInv
<1>3. CASE Shutdown
  <2> USE <1>3 DEF Shutdown, thread, client, clock
  <2>1. TypeOK'
    BY DEF IInv, TypeOK, Statuses
  <2>2. Queued' = {}
    BY DEF Queued, IInv, TypeOK
  <2>3. NoLateWake' /\ IdsAreQueued'
    BY <2>2 DEF NoLateWake, IdsAreQueued
  <2>4. Owned'
    BY SchedulerAssumption DEF IInv, Owned, TypeOK, Queued
  <2>5. QED BY <2>1, <2>3, <2>4 DEF IInv
<1>4. ASSUME NEW e \in Events, StopEvent(e) PROVE IInv'
  <2> USE <1>4 DEF StopEvent, thread, client, clock
  <2>1. TypeOK'
    BY DEF IInv, TypeOK
  <2>2. NoLateWake' /\ IdsAreQueued' /\ Owned'
    BY DEF IInv, NoLateWake, IdsAreQueued, Owned, Queued
  <2>3. QED BY <2>1, <2>2 DEF IInv
<1>5. QED BY <1>1, <1>2, <1>3, <1>4

-----------------------------------------------------------------------------
(* The steps of the scheduler thread.                                      *)

LEMMA WaitSteps ==
    ASSUME IInv, Loop \/ Sleep \/ SpuriousWake \/ Timeout \/ Signalled
    PROVE  IInv'
<1> USE DEF ThreadKeeps, client, clock
<1>0. UNCHANGED <<status, eventIds, current, eventId, cycle, lastEvent, threadState,
                  adding, stage, returned, now, stopped>>
  BY DEF Loop, Sleep, SpuriousWake, Timeout, Signalled
<1>1. pc' \in PCs \ {"hand", "drop"} /\ pc \notin {"hand", "drop"}
  BY DEF Loop, Sleep, SpuriousWake, Timeout, Signalled, AfterSignal, PCs
<1>2. pc' = "waiting" => Queued = {}
  BY DEF Loop, Sleep, SpuriousWake, Timeout, Signalled, AfterSignal
<1>3. deadline' \in 0..MaxTime /\ (pc' = "timed" => \A f \in Queued : deadline' <= cycle[f])
  <2>1. CASE Sleep
    BY <2>1 DEF Sleep, Tops, IInv, TypeOK, Queued
  <2>2. CASE ~Sleep
    BY <2>2 DEF Loop, SpuriousWake, Timeout, Signalled, AfterSignal, IInv, TypeOK
  <2>3. QED BY <2>1, <2>2
<1>4. TypeOK'
  BY <1>0, <1>1, <1>3 DEF IInv, TypeOK
<1>5. NoLateWake'
  BY <1>0, <1>2, <1>3 DEF NoLateWake, Queued
<1>6. IdsAreQueued' /\ Owned'
  BY <1>0, <1>1 DEF IInv, IdsAreQueued, Owned, Queued
<1>7. QED BY <1>4, <1>5, <1>6 DEF IInv

LEMMA FireStep ==
    ASSUME IInv, Fire
    PROVE  IInv'
<1> USE DEF Fire, ThreadKeeps, client, clock
<1>1. ASSUME NEW e \in Tops, Pop(e) PROVE IInv'
  <2> USE <1>1 DEF Pop
  <2>0. e \in Events /\ status[e] = "queued"
    BY DEF Tops, Queued
  <2>1. TypeOK'
    BY <2>0, SchedulerAssumption DEF IInv, TypeOK, Statuses, PCs
  <2>2. Queued' = Queued \ {e}
    BY <2>0 DEF IInv, TypeOK, Queued
  <2>3. NoLateWake'
    BY DEF NoLateWake
  <2>4. IdsAreQueued'
    BY <2>2 DEF IInv, IdsAreQueued
  <2>5. Owned'
    BY <2>0, SchedulerAssumption DEF IInv, Owned, TypeOK
  <2>6. QED BY <2>1, <2>3, <2>4, <2>5 DEF IInv
<1>2. CASE pc' \in {"top", "undefined"} /\ UNCHANGED <<status, eventIds, current>>
  <2>1. TypeOK'
    BY <1>2 DEF IInv, TypeOK, PCs
  <2>2. NoLateWake'
    BY <1>2 DEF NoLateWake
  <2>3. IdsAreQueued' /\ Owned'
    BY <1>2 DEF IInv, IdsAreQueued, Owned, Queued
  <2>4. QED BY <2>1, <2>2, <2>3 DEF IInv
<1>3. QED BY <1>1, <1>2

LEMMA SettleSteps ==
    ASSUME IInv, Hand \/ Drop \/ \E e \in Events : Execute(e)
    PROVE  IInv'
<1>1. ASSUME NEW s \in {"handed", "lost", "dropped"}, Settle(s), pc \in {"hand", "drop"}
      PROVE  IInv'
  <2> USE <1>1 DEF Settle, ThreadKeeps, client, clock
  <2>0. current \in Events /\ status[current] = "taken"
    BY DEF IInv, TypeOK, Owned
  <2>1. TypeOK'
    BY <2>0 DEF IInv, TypeOK, Statuses, PCs
  <2>2. Queued' = Queued
    BY <2>0 DEF IInv, TypeOK, Queued
  <2>3. NoLateWake'
    BY DEF NoLateWake
  <2>4. IdsAreQueued'
    BY <2>2 DEF IInv, IdsAreQueued
  <2>5. Owned'
    BY <2>0, SchedulerAssumption DEF IInv, Owned, TypeOK
  <2>6. QED BY <2>1, <2>3, <2>4, <2>5 DEF IInv
<1>2. ASSUME NEW e \in Events, Execute(e) PROVE IInv'
  <2> USE <1>2 DEF Execute, thread, client, clock
  <2>1. TypeOK'
    BY DEF IInv, TypeOK, Statuses
  <2>2. Queued' = Queued
    BY DEF IInv, TypeOK, Queued
  <2>3. NoLateWake'
    BY <2>2 DEF IInv, NoLateWake
  <2>4. IdsAreQueued'
    BY <2>2 DEF IInv, IdsAreQueued
  <2>5. Owned'
    BY SchedulerAssumption DEF IInv, Owned, TypeOK
  <2>6. QED BY <2>1, <2>3, <2>4, <2>5 DEF IInv
<1>3. CASE Hand
  BY <1>1, <1>3 DEF Hand
<1>4. CASE Drop
  BY <1>1, <1>4 DEF Drop
<1>5. QED BY <1>2, <1>3, <1>4

LEMMA IInvInductive == IInv /\ [Next]_vars => IInv'
<1> SUFFICES ASSUME IInv, [Next]_vars PROVE IInv'
  OBVIOUS
<1>1. ASSUME NEW c \in Clients, NEW e \in Events, NEW d \in Delays, Create(c, e, d) PROVE IInv'
  BY <1>1, CreateStep
<1>2. ASSUME NEW c \in Clients, Insert(c) \/ Signal(c) \/ Return(c) PROVE IInv'
  BY <1>2, InsertStep, SignalStep, ReturnStep
<1>3. CASE Tick \/ Stop \/ Shutdown \/ \E e \in Events : StopEvent(e)
  BY <1>3, ControlSteps
<1>4. CASE Loop \/ Sleep \/ SpuriousWake \/ Timeout \/ Signalled
  BY <1>4, WaitSteps
<1>5. CASE Fire
  BY <1>5, FireStep
<1>6. CASE Hand \/ Drop \/ \E e \in Events : Execute(e)
  BY <1>6, SettleSteps
<1>7. CASE UNCHANGED vars
  BY <1>7 DEF vars, IInv, TypeOK, NoLateWake, IdsAreQueued, Owned, Queued
<1>8. QED BY <1>1, <1>2, <1>3, <1>4, <1>5, <1>6, <1>7 DEF Next, Thread

LEMMA IInvHolds == Spec => []IInv
<1>1. QED BY InitIInv, IInvInductive, PTL DEF Spec

-----------------------------------------------------------------------------

\* The scheduler's state is well typed; the event id never leaves its width.
THEOREM TypeCorrect == Spec => []TypeOK
<1>1. IInv => TypeOK
  BY DEF IInv
<1>2. QED BY <1>1, IInvHolds, PTL

\* The thread never sleeps past an event that nobody is about to signal.
THEOREM NeverLate == Spec => []NoLateWake
<1>1. IInv => NoLateWake
  BY DEF IInv
<1>2. QED BY <1>1, IInvHolds, PTL

\* The set of active ids holds ids of queued events only.
THEOREM ActiveIdsQueued == Spec => []IdsAreQueued
<1>1. IInv => IdsAreQueued
  BY DEF IInv
<1>2. QED BY <1>1, IInvHolds, PTL

-----------------------------------------------------------------------------
(* The scheduler implements the service of cancellable events.             *)

\* An event has an id once it is accepted, and only an accepted one is ever
\* returned or stopped; an id that no other event was given is in the set as
\* long as its event is queued and not stopped; the thread holds the event it
\* has taken, and hands it over unless it was stopped.
IdsTrue ==
    /\ \A e \in Events : eventId[e] = 0 <=> status[e] \in {"new", "made", "refused"}
    /\ \A e \in returned \cup stopped : eventId[e] # 0
    /\ \A e \in Events : eventId[e] # 0 /\ ~Shared(e) =>
          (eventId[e] \in eventIds <=> status[e] = "queued" /\ e \notin stopped)
    /\ \A e \in Events : status[e] = "taken" => e = current
    /\ current # NoEvent /\ ~Shared(current) => (pc = "hand" <=> current \notin stopped)

\* The abstract state of one event.
StateOf(e) ==
    CASE status[e] \in {"new", "made"} -> "idle"
      [] status[e] \in {"refused", "cleared", "lost"} -> "lost"
      [] status[e] = "dropped" /\ e \notin stopped -> "lost"
      [] Fired(e) -> IF e \in stopped THEN "both" ELSE "fired"
      [] OTHER -> IF e \in stopped THEN "cancelled" ELSE "pending"

LEMMA ServiceStateIs == serviceState = [e \in Events |-> StateOf(e)]
BY DEF serviceState, StateOf

\* The state by cases.
LEMMA StateCases ==
    ASSUME NEW e \in Events, status[e] \in Statuses
    PROVE  /\ status[e] \in {"new", "made"} => StateOf(e) = "idle"
           /\ status[e] \in {"refused", "cleared", "lost"} => StateOf(e) = "lost"
           /\ status[e] = "dropped" =>
                StateOf(e) = IF e \in stopped THEN "cancelled" ELSE "lost"
           /\ status[e] \in {"handed", "executed"} \/ (status[e] = "taken" /\ pc = "hand") =>
                StateOf(e) = IF e \in stopped THEN "both" ELSE "fired"
           /\ status[e] = "queued" \/ (status[e] = "taken" /\ pc # "hand") =>
                StateOf(e) = IF e \in stopped THEN "cancelled" ELSE "pending"
BY DEF StateOf, Fired, Statuses

\* A step that moves one event and keeps the ids.
LEMMA OneMoves ==
    ASSUME NEW e \in Events, NEW to, StateOf(e)' = to,
           \A f \in Events \ {e} : StateOf(f)' = StateOf(f)
    PROVE  serviceState' = [serviceState EXCEPT ![e] = to] /\ serviceState[e] = StateOf(e)
<1>1. serviceState' = [f \in Events |-> StateOf(f)']
  BY DEF serviceState, StateOf
<1>2. QED BY <1>1, ServiceStateIs

\* Ids: the invariant holds initially and every step keeps it.
LEMMA IdsTrueInductive == IInv /\ IdsTrue /\ [Next]_vars => IdsTrue'
<1> SUFFICES ASSUME IInv, IdsTrue, [Next]_vars PROVE IdsTrue'
  OBVIOUS
<1> USE DEF thread, client, clock, ThreadKeeps
<1>0. TypeOK
  BY DEF IInv
<1>1. ASSUME UNCHANGED <<status, eventId, eventIds, stopped, current>>,
             pc = "hand" \/ pc' = "hand" => pc' = pc,
             returned' \subseteq returned \cup {e \in Events : eventId[e] # 0}
      PROVE  IdsTrue'
  <2>1. \A e : Shared(e)' <=> Shared(e)
    BY <1>1 DEF Shared
  <2>2. QED BY <1>1, <2>1 DEF IdsTrue
<1>2. ASSUME NEW c \in Clients, NEW e \in Events, NEW d \in Delays, Create(c, e, d) PROVE IdsTrue'
  <2>1. \A f : Shared(f)' <=> Shared(f)
    BY <1>2 DEF Shared, Create
  <2>2. \A f \in Events : f # e => status'[f] = status[f]
    BY <1>2, <1>0 DEF Create, TypeOK
  <2>3. status[e] = "new" /\ status'[e] = "made"
    BY <1>2, <1>0 DEF Create, TypeOK
  <2>4. QED BY <1>2, <2>1, <2>2, <2>3 DEF Create, IdsTrue
<1>3. ASSUME NEW c \in Clients, Insert(c) PROVE IdsTrue'
  <2> DEFINE e == adding[c]
  <2>0. e \in Events /\ status[e] = "made"
    BY <1>3, <1>0 DEF IInv, Owned, TypeOK, Insert
  <2>1. \A f \in Events : f # e => status'[f] = status[f]
    BY <1>3, <1>0, <2>0 DEF Insert, TypeOK
  <2>2. eventId[e] = 0 /\ e \notin stopped /\ e \notin returned /\ e # current
    <3>1. current # NoEvent => status[current] = "taken"
      BY <1>0 DEF IInv, Owned, TypeOK
    <3>2. QED BY <2>0, <3>1, SchedulerAssumption DEF IdsTrue
  <2>3. CASE threadState = "running"
    <3>1. /\ eventId' = [eventId EXCEPT ![e] = NextId]
          /\ eventIds' = eventIds \cup {NextId} /\ status'[e] = "queued"
          /\ UNCHANGED <<pc, current, returned, stopped>>
      BY <1>3, <2>3, <2>0, <1>0 DEF Insert, TypeOK
    <3>2. NextId \in 1..MaxId /\ 0 \notin 1..MaxId
      BY NextIdType
    <3> HIDE DEF e
    <3>3. eventId'[e] = NextId /\ NextId # 0 /\ \A f \in Events : f # e => eventId'[f] = eventId[f]
      BY <3>1, <3>2, <2>0, <1>0 DEF TypeOK
    <3>4. \A f \in Events : ~Shared(f)' /\ f # e => ~Shared(f) /\ eventId[f] # NextId
      BY <3>3, <2>0, <2>2 DEF Shared
    <3>5. ASSUME NEW f \in Events, eventId'[f] # 0, ~Shared(f)'
          PROVE  eventId'[f] \in eventIds' <=> status'[f] = "queued" /\ f \notin stopped'
      <4>1. CASE f = e
        BY <4>1, <3>1, <3>3, <2>2
      <4>2. CASE f # e
        <5>1. eventId'[f] = eventId[f] /\ eventId[f] # NextId /\ ~Shared(f) /\ status'[f] = status[f]
          BY <4>2, <3>3, <3>4, <3>5, <2>1
        <5>2. eventId[f] \in eventIds <=> status[f] = "queued" /\ f \notin stopped
          BY <5>1, <3>5 DEF IdsTrue
        <5>3. QED BY <5>1, <5>2, <3>1
      <4>3. QED BY <4>1, <4>2
    <3>6. \A f \in Events : eventId'[f] = 0 <=> status'[f] \in {"new", "made", "refused"}
      BY <2>1, <3>1, <3>3 DEF IdsTrue
    <3>7. \A f \in returned' \cup stopped' : eventId'[f] # 0
      BY <2>2, <3>1, <3>3, <1>0 DEF IdsTrue, TypeOK
    <3>8. \A f \in Events : status'[f] = "taken" => f = current'
      BY <2>1, <3>1 DEF IdsTrue
    <3>9. current' # NoEvent /\ ~Shared(current)' => (pc' = "hand" <=> current' \notin stopped')
      <4>1. current' # NoEvent => current' \in Events /\ current' # e
        BY <3>1, <2>2, <1>0 DEF TypeOK
      <4>2. QED BY <4>1, <3>1, <3>4 DEF IdsTrue, Shared
    <3>10. QED BY <3>5, <3>6, <3>7, <3>8, <3>9 DEF IdsTrue
  <2>4. CASE threadState # "running"
    <3>1. status'[e] = "refused" /\ UNCHANGED <<eventId, eventIds, pc, current, returned, stopped>>
      BY <1>3, <2>4, <2>0, <1>0 DEF Insert, TypeOK
    <3> HIDE DEF e
    <3>2. \A f : Shared(f)' <=> Shared(f)
      BY <3>1 DEF Shared
    <3>3. QED BY <2>0, <2>1, <2>2, <3>1, <3>2 DEF IdsTrue
  <2>5. QED BY <2>3, <2>4
<1>4. ASSUME NEW c \in Clients, Signal(c) PROVE IdsTrue'
  <2>1. pc = "hand" \/ pc' = "hand" => pc' = pc
    BY <1>4 DEF Signal, AfterSignal
  <2>2. QED BY <1>1, <1>4, <2>1 DEF Signal
<1>5. ASSUME NEW c \in Clients, Return(c) PROVE IdsTrue'
  <2>1. adding[c] \in Events
    BY <1>5, <1>0 DEF IInv, Owned, TypeOK, Return
  <2>2. QED BY <1>1, <1>5, <2>1 DEF Return
<1>6. ASSUME NEW e \in Events, StopEvent(e) PROVE IdsTrue'
  <2>1. \A f : Shared(f)' <=> Shared(f)
    BY <1>6 DEF Shared, StopEvent
  <2>2. eventId[e] # 0 /\ \A f \in Events : ~Shared(f) /\ f # e => eventId[f] # eventId[e]
    BY <1>6 DEF Shared, StopEvent, IdsTrue
  <2>3. current # NoEvent => status[current] = "taken" /\ current \in Events
    BY <1>0 DEF IInv, Owned, TypeOK
  <2>4. ~Shared(e) => status[e] = "queued"
    BY <1>6, <2>2 DEF IdsTrue, StopEvent
  <2>5. current # NoEvent /\ ~Shared(current) => current # e
    BY <2>3, <2>4
  <2>6. QED BY <1>6, <2>1, <2>2, <2>3, <2>5 DEF StopEvent, IdsTrue
<1>7. CASE Shutdown
  <2>1. \A f : Shared(f)' <=> Shared(f)
    BY <1>7 DEF Shared, Shutdown
  <2>2. \A f \in Events : status'[f] = IF status[f] = "queued" THEN "cleared" ELSE status[f]
    BY <1>7 DEF Shutdown, Queued
  <2>3. QED BY <1>7, <2>1, <2>2 DEF Shutdown, IdsTrue
<1>8. CASE Fire
  <2>1. ASSUME NEW e \in Tops, Pop(e) PROVE IdsTrue'
    <3>0. e \in Events /\ status[e] = "queued" /\ eventId[e] # 0
      BY <2>1 DEF Tops, Queued, IdsTrue
    <3>1. /\ status'[e] = "taken" /\ \A f \in Events : f # e => status'[f] = status[f]
          /\ UNCHANGED <<eventId, returned, stopped>> /\ current' = e
          /\ eventIds' = eventIds \ {eventId[e]}
          /\ pc' = "hand" <=> eventId[e] \in eventIds
      BY <2>1, <1>8, <3>0, <1>0 DEF Fire, Pop, TypeOK, NotStopped
    <3>2. \A f : Shared(f)' <=> Shared(f)
      BY <3>1 DEF Shared
    <3>3. \A f \in Events : ~Shared(f) /\ f # e => eventId[f] # eventId[e]
      BY <3>0 DEF Shared
    <3>4. \A f \in Events : status[f] # "taken"
      <4>1. pc = "fire"
        BY <1>8 DEF Fire
      <4>2. QED BY <4>1, <1>0, SchedulerAssumption DEF IdsTrue, TypeOK
    <3>5. QED BY <3>0, <3>1, <3>2, <3>3, <3>4 DEF IdsTrue
  <2>2. CASE UNCHANGED <<status, eventIds, current>> /\ pc' # "hand" /\ pc # "hand"
    BY <1>1, <1>8, <2>2 DEF Fire
  <2>3. QED BY <1>8, <2>1, <2>2 DEF Fire
<1>9. ASSUME NEW s \in {"handed", "lost", "dropped"}, Settle(s), pc \in {"hand", "drop"}
      PROVE  IdsTrue'
  <2>0. current \in Events /\ status[current] = "taken"
    BY <1>9, <1>0 DEF IInv, Owned, TypeOK
  <2>1. /\ status'[current] = s /\ \A f \in Events : f # current => status'[f] = status[f]
        /\ UNCHANGED <<eventId, eventIds, returned, stopped>> /\ current' = NoEvent
    BY <1>9, <2>0, <1>0 DEF Settle, TypeOK
  <2>2. \A f : Shared(f)' <=> Shared(f)
    BY <2>1 DEF Shared
  <2>3. QED BY <2>0, <2>1, <2>2 DEF IdsTrue
<1>10. ASSUME NEW e \in Events, Execute(e) PROVE IdsTrue'
  <2>1. status'[e] = "executed" /\ \A f \in Events : f # e => status'[f] = status[f]
    BY <1>10, <1>0 DEF Execute, TypeOK
  <2>2. \A f : Shared(f)' <=> Shared(f)
    BY <1>10 DEF Shared, Execute
  <2>3. QED BY <1>10, <2>1, <2>2 DEF IdsTrue, Execute
<1>11. CASE Tick \/ Stop \/ UNCHANGED vars
  BY <1>11, <1>1 DEF Tick, Stop, vars
<1>12. CASE Loop \/ Sleep \/ SpuriousWake \/ Timeout \/ Signalled
  <2>1. pc # "hand" /\ pc' # "hand"
    BY <1>12 DEF Loop, Sleep, SpuriousWake, Timeout, Signalled, AfterSignal
  <2>2. QED BY <1>12, <2>1, <1>1 DEF Loop, Sleep, SpuriousWake, Timeout, Signalled
<1>13. CASE Hand \/ Drop
  BY <1>13, <1>9 DEF Hand, Drop
<1>14. QED BY <1>2, <1>3, <1>4, <1>5, <1>6, <1>7, <1>8, <1>10, <1>11, <1>12, <1>13
            DEF Next, Thread

-----------------------------------------------------------------------------
(* Every step of the scheduler is a step of the service or none of it.     *)

\* A step that keeps what the service sees.
LEMMA Stutter ==
    ASSUME \A e \in Events : StateOf(e)' = StateOf(e), UNCHANGED eventId
    PROVE  UNCHANGED Service!vars
<1>1. serviceState' = serviceState
  BY DEF serviceState, StateOf
<1>2. {e \in Events : Shared(e)}' = {e \in Events : Shared(e)}
  BY DEF Shared
<1>3. QED BY <1>1, <1>2 DEF Service!vars

\* A step that moves one event as one of the service's actions does.
LEMMA ServiceMove ==
    ASSUME NEW e \in Events, UNCHANGED eventId,
           \A f \in Events \ {e} : StateOf(f)' = StateOf(f),
           \/ StateOf(e) = "idle" /\ StateOf(e)' = "lost"
           \/ StateOf(e) = "pending" /\ StateOf(e)' \in {"cancelled", "fired"}
           \/ StateOf(e) \in {"fired", "both"} /\ StateOf(e)' = "lost"
           \/ /\ Shared(e)
              /\ \/ StateOf(e) \in {"cancelled", "fired"} /\ StateOf(e)' = "both"
                 \/ StateOf(e) = "pending" /\ StateOf(e)' = "lost"
                 \/ StateOf(e) = "lost" /\ StateOf(e)' = "cancelled"
    PROVE  Service!Next
<1>1. /\ serviceState' = [serviceState EXCEPT ![e] = StateOf(e)']
      /\ serviceState[e] = StateOf(e)
  BY OneMoves
<1>2. {f \in Events : Shared(f)}' = {f \in Events : Shared(f)}
  BY DEF Shared
<1>3. Shared(e) => e \in {f \in Events : Shared(f)}
  OBVIOUS
<1>4. \/ Service!Refuse(e) \/ Service!Cancel(e) \/ Service!FireEvent(e)
      \/ Service!LoseFired(e) \/ Service!TakenForAnother(e)
  BY <1>1, <1>3 DEF Service!Refuse, Service!Cancel, Service!FireEvent, Service!LoseFired,
                    Service!TakenForAnother, Service!Move
<1>5. QED BY <1>2, <1>4 DEF Service!Next

\* Steps of clients and of the thread that change the status of one event at most.
LEMMA StepSimulation ==
    ASSUME IInv, IdsTrue, [Next]_vars
    PROVE  [Service!Next]_Service!vars
<1> USE DEF thread, client, clock, ThreadKeeps
<1>0. /\ TypeOK /\ \A f \in Events : status[f] \in Statuses
      /\ \A f \in Events : status[f] = "taken" => f = current
      /\ current # NoEvent <=> pc \in {"hand", "drop"}
  BY DEF IInv, TypeOK, IdsTrue
<1>1. ASSUME UNCHANGED <<status, stopped, eventId>>, pc = "hand" \/ pc' = "hand" => pc' = pc
      PROVE  UNCHANGED Service!vars
  <2>1. \A e \in Events : StateOf(e)' = StateOf(e)
    BY <1>1 DEF StateOf, Fired
  <2>2. QED BY <1>1, <2>1, Stutter
<1>2. ASSUME NEW c \in Clients, NEW e \in Events, NEW d \in Delays, Create(c, e, d)
      PROVE  UNCHANGED Service!vars
  <2>1. status[e] = "new" /\ status'[e] = "made" /\ \A f \in Events : f # e => status'[f] = status[f]
    BY <1>2, <1>0 DEF Create, TypeOK
  <2>2. \A f \in Events : StateOf(f)' = StateOf(f)
    BY <1>2, <2>1 DEF StateOf, Fired, Create
  <2>3. QED BY <1>2, <2>2, Stutter DEF Create
<1>3. ASSUME NEW c \in Clients, Insert(c) PROVE Service!Next
  <2>0. PICK e \in Events : e = adding[c] /\ status[e] = "made"
    BY <1>3, <1>0 DEF IInv, Owned, TypeOK, Insert
  <2>1. \A f \in Events : f # e => status'[f] = status[f]
    BY <1>3, <1>0, <2>0 DEF Insert, TypeOK
  <2>2. UNCHANGED <<pc, stopped>>
    BY <1>3 DEF Insert
  <2>3. \A f \in Events \ {e} : StateOf(f)' = StateOf(f)
    BY <2>1, <2>2 DEF StateOf, Fired
  <2>4. StateOf(e) = "idle"
    BY <2>0 DEF StateOf, Fired
  <2>5. CASE threadState = "running"
    <3>1. eventId' = [eventId EXCEPT ![e] = NextId] /\ status'[e] = "queued"
      BY <1>3, <2>5, <2>0, <1>0 DEF Insert, TypeOK
    <3>2. eventId[e] = 0 /\ e \notin stopped
      BY <2>0 DEF IdsTrue
    <3>3. StateOf(e)' = "pending"
      BY <3>1, <3>2, <2>2 DEF StateOf, Fired
    <3>4. {f \in Events : Shared(f)} \subseteq {f \in Events : Shared(f)}'
      <4>1. \A f \in Events : f # e => eventId'[f] = eventId[f]
        BY <3>1, <2>0, <1>0 DEF TypeOK
      <4>2. QED BY <4>1, <3>2, <2>0 DEF Shared
    <3>5. Service!Add(e)
      BY <3>3, <3>4, <2>0, <2>3, <2>4, OneMoves DEF Service!Add, Service!Move
    <3>6. QED BY <3>5, <2>0 DEF Service!Next
  <2>6. CASE threadState # "running"
    <3>1. UNCHANGED eventId /\ status'[e] = "refused"
      BY <1>3, <2>6, <2>0, <1>0 DEF Insert, TypeOK
    <3>2. StateOf(e)' = "lost"
      BY <3>1 DEF StateOf, Fired
    <3>3. QED BY <3>1, <3>2, <2>0, <2>3, <2>4, ServiceMove
  <2>7. QED BY <2>5, <2>6
<1>4. ASSUME NEW c \in Clients, Signal(c) \/ Return(c) PROVE UNCHANGED Service!vars
  BY <1>1, <1>4 DEF Signal, Return, AfterSignal
<1>5. ASSUME NEW e \in Events, StopEvent(e) PROVE Service!Next \/ UNCHANGED Service!vars
  <2>1. UNCHANGED <<status, pc, eventId>> /\ stopped' = stopped \cup {e} /\ eventId[e] \in eventIds
    BY <1>5 DEF StopEvent
  <2>2. \A f \in Events \ {e} : StateOf(f)' = StateOf(f)
    BY <2>1 DEF StateOf, Fired
  <2>3. CASE StateOf(e)' = StateOf(e)
    BY <2>1, <2>2, <2>3, Stutter
  <2>4. CASE StateOf(e)' # StateOf(e)
    <3>1. e \notin stopped /\ eventId[e] # 0
      BY <1>5, <2>1, <2>4 DEF StateOf, Fired, IdsTrue, StopEvent
    <3>2. status[e] \notin {"new", "made", "refused"}
      BY <3>1 DEF IdsTrue
    <3>3. status[e] \in {"handed", "executed", "taken", "dropped", "cleared", "lost"} => Shared(e)
      BY <3>1, <2>1 DEF IdsTrue
    <3>4. status[e] \in Statuses /\ e \in stopped' /\ status'[e] = status[e] /\ pc' = pc
      BY <1>0, <2>1
    <3>5. CASE status[e] \in {"handed", "executed"} \/ (status[e] = "taken" /\ pc = "hand")
      <4>1. StateOf(e) = "fired" /\ StateOf(e)' = "both"
        BY <3>1, <3>4, <3>5 DEF StateOf, Fired
      <4>2. QED BY <4>1, <3>3, <3>5, <2>1, <2>2, ServiceMove
    <3>6. CASE status[e] = "dropped"
      <4>1. StateOf(e) = "lost" /\ StateOf(e)' = "cancelled"
        BY <3>1, <3>4, <3>6 DEF StateOf, Fired
      <4>2. QED BY <4>1, <3>3, <3>6, <2>1, <2>2, ServiceMove
    <3>7. CASE status[e] = "queued" \/ (status[e] = "taken" /\ pc # "hand")
      <4>1. StateOf(e) = "pending" /\ StateOf(e)' = "cancelled"
        BY <3>1, <3>4, <3>7 DEF StateOf, Fired
      <4>2. QED BY <4>1, <2>1, <2>2, ServiceMove
    <3>8. CASE status[e] \in {"cleared", "lost"}
      BY <3>4, <3>8, <2>4 DEF StateOf, Fired
    <3>9. QED BY <3>2, <3>4, <3>5, <3>6, <3>7, <3>8 DEF Statuses
  <2>5. QED BY <2>3, <2>4
<1>6. CASE Shutdown
  <2>0. UNCHANGED <<pc, stopped, eventId>>
    BY <1>6 DEF Shutdown
  <2>1. \A f \in Events : status'[f] = IF status[f] = "queued" THEN "cleared" ELSE status[f]
    BY <1>6 DEF Shutdown, Queued
  <2>2. \A f \in Events : StateOf(f)' = IF f \in Queued THEN "lost" ELSE StateOf(f)
    BY <2>0, <2>1 DEF StateOf, Fired, Queued
  <2>3. \A f \in Queued : f \in Events /\ StateOf(f) \in {"pending", "cancelled"}
    BY DEF StateOf, Fired, Queued
  <2>4. serviceState' = [e \in Events |-> IF e \in Queued THEN "lost" ELSE serviceState[e]]
    <3>1. serviceState' = [e \in Events |-> StateOf(e)']
      BY DEF serviceState, StateOf
    <3>2. \A e \in Events : serviceState[e] = StateOf(e)
      BY ServiceStateIs
    <3>3. QED BY <3>1, <3>2, <2>2
  <2>5. \A f \in Queued : serviceState[f] \in {"pending", "cancelled"}
    BY <2>3, ServiceStateIs
  <2>6. {f \in Events : Shared(f)}' = {f \in Events : Shared(f)}
    BY <2>0 DEF Shared
  <2>7. Queued \in SUBSET Events
    BY DEF Queued
  <2>8. CASE Queued = {}
    BY <2>0, <2>2, <2>8, Stutter
  <2>9. CASE Queued # {}
    <3>1. Service!LosePending
      BY <2>4, <2>5, <2>7, <2>9 DEF Service!LosePending
    <3>2. QED BY <3>1, <2>6 DEF Service!Next
  <2>10. QED BY <2>8, <2>9
<1>7. CASE Fire
  <2>1. ASSUME NEW e \in Tops, Pop(e) PROVE Service!Next \/ UNCHANGED Service!vars
    <3>0. e \in Events /\ status[e] = "queued" /\ eventId[e] # 0 /\ pc = "fire"
      BY <2>1, <1>7 DEF Tops, Queued, IdsTrue, Fire
    <3>1. /\ status'[e] = "taken" /\ \A f \in Events : f # e => status'[f] = status[f]
          /\ UNCHANGED <<eventId, stopped>>
          /\ pc' = "hand" <=> eventId[e] \in eventIds
      BY <2>1, <1>7, <3>0, <1>0 DEF Fire, Pop, TypeOK, NotStopped
    <3>2. \A f \in Events : status[f] # "taken"
      BY <3>0, <1>0, SchedulerAssumption
    <3>3. \A f \in Events \ {e} : StateOf(f)' = StateOf(f)
      BY <3>1, <3>2 DEF StateOf, Fired
    <3>4. StateOf(e) = IF e \in stopped THEN "cancelled" ELSE "pending"
      BY <3>0 DEF StateOf, Fired
    <3>5. CASE pc' = "hand"
      <4>1. StateOf(e)' = IF e \in stopped THEN "both" ELSE "fired"
        BY <3>1, <3>5 DEF StateOf, Fired
      <4>2. e \in stopped => Shared(e)
        BY <3>0, <3>1, <3>5 DEF IdsTrue
      <4>3. QED BY <4>1, <4>2, <3>0, <3>1, <3>3, <3>4, ServiceMove
    <3>6. CASE pc' # "hand"
      <4>1. StateOf(e)' = StateOf(e)
        BY <3>1, <3>4, <3>6 DEF StateOf, Fired
      <4>2. QED BY <4>1, <3>1, <3>3, Stutter
    <3>7. QED BY <3>5, <3>6
  <2>2. CASE UNCHANGED <<status, eventIds, current>> /\ pc' # "hand" /\ pc # "hand"
    BY <1>1, <1>7, <2>2 DEF Fire
  <2>3. QED BY <1>7, <2>1, <2>2 DEF Fire
<1>8. ASSUME NEW s \in {"handed", "lost", "dropped"}, Settle(s), s # "dropped" => pc = "hand",
             s = "dropped" => pc = "drop"
      PROVE  Service!Next \/ UNCHANGED Service!vars
  <2>0. PICK e \in Events : e = current /\ status[e] = "taken" /\ e # NoEvent
    BY <1>8, <1>0 DEF IInv, Owned, TypeOK
  <2>1. /\ status'[e] = s /\ \A f \in Events : f # e => status'[f] = status[f]
        /\ UNCHANGED <<eventId, stopped>> /\ pc' = "top"
    BY <1>8, <2>0, <1>0 DEF Settle, TypeOK
  <2>2. \A f \in Events \ {e} : StateOf(f)' = StateOf(f)
    BY <2>0, <2>1, <1>0 DEF StateOf, Fired
  <2>3. CASE s = "handed"
    <3>1. StateOf(e)' = StateOf(e)
      BY <1>8, <2>0, <2>1, <2>3 DEF StateOf, Fired
    <3>2. QED BY <3>1, <2>1, <2>2, Stutter
  <2>4. CASE s = "lost"
    <3>1. StateOf(e) \in {"fired", "both"} /\ StateOf(e)' = "lost"
      BY <1>8, <2>0, <2>1, <2>4 DEF StateOf, Fired
    <3>2. QED BY <3>1, <2>1, <2>2, ServiceMove
  <2>5. CASE s = "dropped"
    <3>1. /\ StateOf(e) = (IF e \in stopped THEN "cancelled" ELSE "pending")
          /\ StateOf(e)' = (IF e \in stopped THEN "cancelled" ELSE "lost")
      BY <1>8, <2>0, <2>1, <2>5 DEF StateOf, Fired
    <3>2. e \notin stopped => Shared(e)
      BY <1>8, <2>0, <2>5 DEF IdsTrue
    <3>3. CASE e \in stopped
      BY <3>1, <3>3, <2>1, <2>2, Stutter
    <3>4. CASE e \notin stopped
      BY <3>1, <3>2, <3>4, <2>1, <2>2, ServiceMove
    <3>5. QED BY <3>3, <3>4
  <2>6. QED BY <2>3, <2>4, <2>5
<1>9. ASSUME NEW e \in Events, Execute(e) PROVE UNCHANGED Service!vars
  <2>1. /\ status[e] = "handed" /\ status'[e] = "executed"
        /\ \A f \in Events : f # e => status'[f] = status[f]
        /\ UNCHANGED <<pc, stopped, eventId>>
    BY <1>9, <1>0 DEF Execute, TypeOK
  <2>2. \A f \in Events : StateOf(f)' = StateOf(f)
    BY <2>1 DEF StateOf, Fired
  <2>3. QED BY <2>1, <2>2, Stutter
<1>10. CASE Tick \/ Stop \/ UNCHANGED vars
  BY <1>10, <1>1 DEF Tick, Stop, vars
<1>11. CASE Loop \/ Sleep \/ SpuriousWake \/ Timeout \/ Signalled
  <2>1. pc # "hand" /\ pc' # "hand"
    BY <1>11 DEF Loop, Sleep, SpuriousWake, Timeout, Signalled, AfterSignal
  <2>2. QED BY <1>11, <2>1, <1>1 DEF Loop, Sleep, SpuriousWake, Timeout, Signalled
<1>12. CASE Hand \/ Drop
  BY <1>12, <1>8 DEF Hand, Drop
<1>13. QED BY <1>2, <1>3, <1>4, <1>5, <1>6, <1>7, <1>9, <1>10, <1>11, <1>12 DEF Next, Thread

\* The scheduler is the service of cancellable events, for every number of
\* clients and events and every width of the id: only an event that was given
\* the id of another one is ever taken for it.
THEOREM SchedulerIsService == Spec => ImplementsService
<1>1. Init => IdsTrue /\ Service!Init
  <2> SUFFICES ASSUME Init PROVE IdsTrue /\ Service!Init
    OBVIOUS
  <2>1. \A e \in Events : status[e] = "new" /\ eventId[e] = 0 /\ ~Shared(e)
    BY DEF Init, Shared
  <2>2. IdsTrue
    BY <2>1, SchedulerAssumption DEF IdsTrue, Init
  <2>3. \A e \in Events : StateOf(e) = "idle"
    BY <2>1 DEF StateOf, Fired
  <2>4. QED BY <2>1, <2>2, <2>3, ServiceStateIs DEF Service!Init
<1>2. QED BY <1>1, IInvHolds, IdsTrueInductive, StepSimulation, PTL
          DEF Spec, ImplementsService, Service!Spec

-----------------------------------------------------------------------------
(* The dispatcher                                                          *)

\* A thread that has left the flush of a shutdown finds nothing on the list
\* and accepts nothing more; before the flush the thread is not terminated.
Terminated ==
    /\ taskState = "terminated" => place \in {"flush", "flushRun", "stuck", "top", "exited"}
    /\ taskState = "terminated" /\ place \in {"top", "exited"} => taskList = <<>>
    /\ place \in {"flush", "flushRun", "stuck", "exited"} => taskState = "terminated"

\* The inductive invariant of the safety theorems.
TasksInv == D!TypeOK /\ D!NoLostWakeup /\ Terminated /\ D!Conservation

LEMMA InitTasksInv == D!Init => TasksInv
<1> SUFFICES ASSUME D!Init PROVE TasksInv
  OBVIOUS
<1> USE DEF D!Init
<1>1. D!TypeOK
  BY DEF D!TypeOK, D!PCs, D!Flushing, D!Holding
<1>2. D!NoLostWakeup
  BY DEF D!NoLostWakeup
<1>3. Terminated
  BY DEF Terminated
<1>4. D!Conservation
  <2>1. D!Elems(<<>>) = {}
    BY DEF D!Elems
  <2>2. QED BY <2>1 DEF D!Conservation
<1>5. QED BY <1>1, <1>2, <1>3, <1>4 DEF TasksInv

-----------------------------------------------------------------------------
(* Sequences: what adding and taking an element does to Elems.             *)

LEMMA ElemsAppend ==
    ASSUME NEW s \in Seq(D!Tasks), NEW t \in D!Tasks
    PROVE  /\ Append(s, t) \in Seq(D!Tasks)
           /\ Len(Append(s, t)) = Len(s) + 1
           /\ D!Elems(Append(s, t)) = D!Elems(s) \cup {t}
<1>1. DOMAIN s = 1..Len(s) /\ DOMAIN Append(s, t) = 1..(Len(s) + 1) /\ Len(s) \in Nat
  OBVIOUS
<1>2. \A i \in 1..Len(s) : Append(s, t)[i] = s[i]
  OBVIOUS
<1>3. Append(s, t)[Len(s) + 1] = t
  OBVIOUS
<1>4. D!Elems(s) \cup {t} \subseteq D!Elems(Append(s, t))
  BY <1>1, <1>2, <1>3 DEF D!Elems
<1>5. D!Elems(Append(s, t)) \subseteq D!Elems(s) \cup {t}
  BY <1>1, <1>2, <1>3 DEF D!Elems
<1>6. QED BY <1>4, <1>5

LEMMA ElemsPrepend ==
    ASSUME NEW s \in Seq(D!Tasks), NEW t \in D!Tasks
    PROVE  /\ <<t>> \o s \in Seq(D!Tasks)
           /\ Len(<<t>> \o s) = Len(s) + 1
           /\ D!Elems(<<t>> \o s) = D!Elems(s) \cup {t}
<1> DEFINE r == <<t>> \o s
<1>1. r \in Seq(D!Tasks) /\ Len(r) = Len(s) + 1 /\ Len(s) \in Nat
  OBVIOUS
<1>2. DOMAIN s = 1..Len(s) /\ DOMAIN r = 1..(Len(s) + 1)
  BY <1>1
<1>3. r[1] = t /\ \A i \in 1..Len(s) : r[i + 1] = s[i]
  OBVIOUS
<1>4. \A i \in 2..(Len(s) + 1) : i - 1 \in 1..Len(s) /\ r[i] = s[i - 1]
  BY <1>1, <1>3
<1> HIDE DEF r
<1>5. D!Elems(s) \cup {t} \subseteq D!Elems(r)
  BY <1>1, <1>2, <1>3 DEF D!Elems
<1>6. D!Elems(r) \subseteq D!Elems(s) \cup {t}
  <2> SUFFICES ASSUME NEW i \in 1..(Len(s) + 1) PROVE r[i] \in D!Elems(s) \cup {t}
    BY <1>2 DEF D!Elems
  <2>1. CASE i = 1
    BY <2>1, <1>3
  <2>2. CASE i # 1
    BY <2>2, <1>1, <1>2, <1>4 DEF D!Elems
  <2>3. QED BY <2>1, <2>2
<1>7. QED BY <1>1, <1>5, <1>6 DEF r

LEMMA ElemsTake ==
    ASSUME NEW s \in Seq(D!Tasks), s # <<>>
    PROVE  /\ Head(s) \in D!Tasks /\ Tail(s) \in Seq(D!Tasks)
           /\ Len(Tail(s)) = Len(s) - 1
           /\ D!Elems(s) = D!Elems(Tail(s)) \cup {Head(s)}
<1>1. /\ Head(s) \in D!Tasks /\ Tail(s) \in Seq(D!Tasks)
      /\ Len(Tail(s)) = Len(s) - 1 /\ Len(s) \in Nat \ {0}
  OBVIOUS
<1>2. s = <<Head(s)>> \o Tail(s)
  OBVIOUS
<1>3. QED BY <1>1, <1>2, ElemsPrepend

-----------------------------------------------------------------------------
(* The three ways in which a step changes the list.                        *)

\* addTask: the task is queued and accepted, or refused and nothing queued.
LEMMA EnqueueLemma ==
    ASSUME TasksInv, NEW t \in D!Tasks, D!Enqueue(t)
    PROVE  /\ taskList' \in Seq(D!Tasks) /\ accepted' \in Seq(D!Tasks)
           /\ refused' \subseteq D!Tasks
           /\ Len(accepted') - Len(taskList') = Len(accepted) - Len(taskList)
           /\ Len(taskList') \in Nat /\ Len(accepted') \in Nat
           /\ \/ /\ D!Elems(accepted') = D!Elems(accepted) \cup {t}
                 /\ D!Elems(taskList') = D!Elems(taskList) \cup {t}
              \/ /\ UNCHANGED <<accepted, taskList>>
           /\ taskState # "running" => UNCHANGED <<accepted, taskList>>
           /\ taskList' = <<>> => taskList = <<>>
<1>1. /\ taskList \in Seq(D!Tasks) /\ accepted \in Seq(D!Tasks) /\ refused \subseteq D!Tasks
      /\ Len(taskList) \in Nat /\ Len(accepted) \in Nat
  BY DEF TasksInv, D!TypeOK
<1>2. CASE D!Accepts
  <2>1. taskList' = <<t>> \o taskList \/ taskList' = Append(taskList, t)
    BY <1>2 DEF D!Enqueue, D!Push
  <2>2. /\ taskList' \in Seq(D!Tasks) /\ Len(taskList') = Len(taskList) + 1
        /\ D!Elems(taskList') = D!Elems(taskList) \cup {t}
    BY <2>1, <1>1, ElemsAppend, ElemsPrepend
  <2>3. /\ accepted' \in Seq(D!Tasks) /\ Len(accepted') = Len(accepted) + 1
        /\ D!Elems(accepted') = D!Elems(accepted) \cup {t}
    BY <1>2, <1>1, ElemsAppend DEF D!Enqueue
  <2>4. refused' = refused /\ taskState = "running"
    BY <1>2 DEF D!Enqueue, D!Accepts
  <2>5. taskList' # <<>>
    BY <2>2, <1>1
  <2>6. QED BY <2>2, <2>3, <2>4, <2>5, <1>1
<1>3. CASE ~D!Accepts
  BY <1>1, <1>3 DEF D!Enqueue
<1>4. QED BY <1>2, <1>3

\* The loop or the flush takes a task.
LEMMA TakeLemma ==
    ASSUME TasksInv, NEW next \in D!PCs, D!Take(next), taskList # <<>>
    PROVE  /\ task' \in D!Tasks /\ task' # NoTask
           /\ taskList' \in Seq(D!Tasks)
           /\ Len(taskList') = Len(taskList) - 1 /\ Len(taskList') \in Nat
           /\ D!Elems(taskList) = D!Elems(taskList') \cup {task'}
           /\ place' = next
<1>1. taskList \in Seq(D!Tasks)
  BY DEF TasksInv, D!TypeOK
<1>2. NoTask \notin D!Tasks
  BY ThreadsAssumption DEF D!TaskAssumption
<1>3. QED BY <1>1, <1>2, ElemsTake DEF D!Take

\* A task is executed or dropped.
LEMMA FinishLemma ==
    ASSUME TasksInv, NEW next \in D!PCs, D!Finish(next), task # NoTask
    PROVE  /\ finished' \in Seq(D!Tasks) /\ task' = NoTask /\ place' = next
           /\ Len(finished') = Len(finished) + 1
           /\ D!Elems(finished') = D!Elems(finished) \cup {task}
BY ElemsAppend DEF TasksInv, D!TypeOK, D!Finish

-----------------------------------------------------------------------------
(* IInv is inductive: one step per action.                                 *)

\* Facts every step uses.
LEMMA TasksInvFacts ==
    ASSUME TasksInv
    PROVE  /\ taskList \in Seq(D!Tasks) /\ accepted \in Seq(D!Tasks) /\ finished \in Seq(D!Tasks)
           /\ Len(taskList) \in Nat /\ Len(accepted) \in Nat /\ Len(finished) \in Nat
           /\ taskList = <<>> <=> Len(taskList) = 0
           /\ place \in D!PCs
BY DEF TasksInv, D!TypeOK

LEMMA ClientSteps ==
    ASSUME TasksInv, NEW c \in Clients,
           (\E t \in D!Tasks : D!AddTask(c, t)) \/ D!Notify(c)
    PROVE  TasksInv'
<1>1. ASSUME NEW t \in D!Tasks, D!AddTask(c, t) PROVE TasksInv'
  <2> USE <1>1 DEF D!AddTask
  <2>1. D!Enqueue(t)
    OBVIOUS
  <2>2. D!TypeOK'
    BY <2>1, EnqueueLemma DEF TasksInv, D!TypeOK
  <2>3. D!NoLostWakeup'
    <3>1. CASE taskList = <<>>
      <4>1. CASE D!Accepts
        BY <3>1, <4>1 DEF D!NoLostWakeup, D!NeedsSignal
      <4>2. CASE ~D!Accepts
        BY <3>1, <4>2 DEF D!NoLostWakeup, D!Enqueue
      <4>3. QED BY <4>1, <4>2
    <3>2. CASE taskList # <<>>
      BY <3>2 DEF TasksInv, D!NoLostWakeup, D!NeedsSignal
    <3>3. QED BY <3>1, <3>2
  <2>4. Terminated'
    BY <2>1, EnqueueLemma DEF TasksInv, Terminated
  <2>5. D!Conservation'
    <3>1. /\ Len(accepted') - Len(taskList') = Len(accepted) - Len(taskList)
          /\ Len(taskList') \in Nat /\ Len(accepted') \in Nat
      BY <2>1, EnqueueLemma
    <3>2. Len(accepted) = Len(finished) + Len(taskList) + (IF task = NoTask THEN 0 ELSE 1)
      BY DEF TasksInv, D!Conservation
    <3>3. Len(accepted') = Len(finished') + Len(taskList') + (IF task' = NoTask THEN 0 ELSE 1)
      BY <3>1, <3>2, TasksInvFacts
    <3>4. D!Elems(accepted') = D!Elems(finished') \cup D!Elems(taskList') \cup ({task'} \ {NoTask})
      BY <2>1, EnqueueLemma DEF TasksInv, D!Conservation
    <3>5. QED BY <3>3, <3>4 DEF D!Conservation
  <2>6. QED BY <2>2, <2>3, <2>4, <2>5 DEF TasksInv
<1>2. CASE D!Notify(c)
  <2> USE <1>2 DEF D!Notify
  <2>1. D!TypeOK'
    BY DEF TasksInv, D!TypeOK, D!PCs, D!Holding, D!Flushing
  <2>2. D!NoLostWakeup'
    BY DEF D!NoLostWakeup
  <2>3. Terminated'
    BY DEF TasksInv, Terminated
  <2>4. D!Conservation'
    BY DEF TasksInv, D!Conservation
  <2>5. QED BY <2>1, <2>2, <2>3, <2>4 DEF TasksInv
<1>3. QED BY <1>1, <1>2

\* The steps that take a task from the list, or find none.
LEMMA TakeSteps ==
    ASSUME TasksInv, D!Loop \/ D!Woken \/ D!Flush
    PROVE  TasksInv'
<1> DEFINE Taken == \E next \in {"check", "flushRun"} : D!Take(next) /\ taskList # <<>>
<1>0. task = NoTask
  BY DEF TasksInv, D!TypeOK, D!Holding, D!Loop, D!Woken, D!Flush
<1>1. \/ D!Take("check") /\ taskList # <<>>
      \/ D!Take("flushRun") /\ taskList # <<>>
      \/ UNCHANGED <<taskList, task>>
  <2>1. CASE D!Loop
    BY <2>1 DEF D!Loop
  <2>2. CASE D!Woken
    BY <2>2 DEF D!Woken
  <2>3. CASE D!Flush
    BY <2>3 DEF D!Flush
  <2>4. QED BY <2>1, <2>2, <2>3
<1>2. UNCHANGED <<notifying, accepted, refused, taskState, gameState, finished>>
  BY DEF D!Loop, D!Woken, D!Flush, D!Keep
<1>3. CASE Taken
  <2> PICK next \in {"check", "flushRun"} : D!Take(next) /\ taskList # <<>>
    BY <1>3
  <2>1. next \in D!PCs
    BY DEF D!PCs, D!Flushing
  <2>2. /\ task' \in D!Tasks /\ task' # NoTask /\ taskList' \in Seq(D!Tasks)
        /\ Len(taskList') = Len(taskList) - 1 /\ Len(taskList') \in Nat
        /\ D!Elems(taskList) = D!Elems(taskList') \cup {task'} /\ place' = next
    BY <2>1, TakeLemma
  <2>3. D!TypeOK'
    BY <1>2, <2>2, <2>1 DEF TasksInv, D!TypeOK, D!Holding
  <2>4. D!NoLostWakeup'
    BY <2>2 DEF D!NoLostWakeup
  <2>5. Terminated'
    <3>1. taskState = "terminated" => next = "flushRun"
      BY <2>2 DEF D!Loop, D!Woken, D!Flush, D!Take
    <3>2. next = "flushRun" => taskState = "terminated"
      BY <2>2 DEF TasksInv, Terminated, D!Loop, D!Woken, D!Flush, D!Take
    <3>3. QED BY <3>1, <3>2, <2>2, <1>2 DEF Terminated
  <2>6. D!Conservation'
    <3>1. Len(accepted') = Len(finished') + Len(taskList') + 1
      BY <1>0, <1>2, <2>2, TasksInvFacts DEF TasksInv, D!Conservation
    <3>2. D!Elems(accepted') = D!Elems(finished') \cup D!Elems(taskList') \cup {task'}
      BY <1>0, <1>2, <2>2 DEF TasksInv, D!Conservation
    <3>3. QED BY <3>1, <3>2, <2>2 DEF D!Conservation
  <2>7. QED BY <2>3, <2>4, <2>5, <2>6 DEF TasksInv
<1>4. CASE ~Taken
  <2>1. UNCHANGED <<taskList, task>>
    BY <1>1, <1>4
  <2>2. /\ place' \in {"exited", "waiting", "top"}
        /\ place' = "exited" <=> place = "top" /\ taskState = "terminated"
        /\ place' = "waiting" => taskList = <<>> /\ taskState # "terminated"
        /\ place' = "top" => place = "woken" \/ (place = "flush" /\ taskList = <<>>)
    BY <1>4 DEF D!Loop, D!Woken, D!Flush
  <2>3. D!TypeOK'
    BY <1>0, <1>2, <2>1, <2>2 DEF TasksInv, D!TypeOK, D!PCs, D!Holding
  <2>4. D!NoLostWakeup'
    BY <2>1, <2>2 DEF D!NoLostWakeup
  <2>5. Terminated'
    BY <1>2, <2>1, <2>2 DEF TasksInv, Terminated
  <2>6. D!Conservation'
    BY <1>2, <2>1 DEF TasksInv, D!Conservation
  <2>7. QED BY <2>3, <2>4, <2>5, <2>6 DEF TasksInv
<1>5. QED BY <1>3, <1>4

\* The steps that finish a task.
LEMMA FinishSteps ==
    ASSUME TasksInv, NEW next \in {"top", "flush"}, D!Finish(next), task # NoTask,
           UNCHANGED <<taskList, notifying, accepted, refused, gameState>>,
           taskState' \in {"running", "closing", "terminated"},
           taskState' = "terminated" => next = "flush",
           next = "flush" => taskState' = "terminated"
    PROVE  TasksInv'
<1>1. next \in D!PCs
  BY DEF D!PCs, D!Flushing
<1>2. /\ finished' \in Seq(D!Tasks) /\ task' = NoTask /\ place' = next
      /\ Len(finished') = Len(finished) + 1
      /\ D!Elems(finished') = D!Elems(finished) \cup {task}
  BY <1>1, FinishLemma
<1>3. D!TypeOK'
  BY <1>1, <1>2 DEF TasksInv, D!TypeOK, D!Holding
<1>4. D!NoLostWakeup'
  BY <1>2 DEF D!NoLostWakeup
<1>5. Terminated'
  BY <1>2 DEF Terminated
<1>6. D!Conservation'
  <2>1. Len(accepted') = Len(finished') + Len(taskList')
    BY <1>2, TasksInvFacts DEF TasksInv, D!Conservation
  <2>2. D!Elems(accepted') = D!Elems(finished') \cup D!Elems(taskList')
    BY <1>2 DEF TasksInv, D!Conservation
  <2>3. QED BY <1>2, <2>1, <2>2, TasksInvFacts DEF D!Conservation
<1>7. QED BY <1>3, <1>4, <1>5, <1>6 DEF TasksInv

LEMMA WaitAndCheckSteps ==
    ASSUME TasksInv, D!SpuriousWake \/ D!Check
    PROVE  TasksInv'
<1>1. CASE D!SpuriousWake
  <2> USE <1>1 DEF D!SpuriousWake, D!Keep
  <2>1. D!TypeOK'
    BY DEF TasksInv, D!TypeOK, D!PCs, D!Holding, D!Flushing
  <2>2. D!NoLostWakeup'
    BY DEF D!NoLostWakeup
  <2>3. Terminated'
    BY DEF TasksInv, Terminated
  <2>4. D!Conservation'
    BY DEF TasksInv, D!Conservation
  <2>5. QED BY <2>1, <2>2, <2>3, <2>4 DEF TasksInv
<1>2. CASE D!Check /\ place' = "run"
  <2>0. /\ place = "check" /\ place' = "run" /\ task # NoTask
        /\ UNCHANGED <<taskList, taskState, gameState, notifying, accepted, refused>>
    BY <1>2 DEF D!Check, D!Keep, TasksInv, D!TypeOK, D!Holding
  <2>1. UNCHANGED <<task, finished>>
    BY <1>2 DEF D!Check, D!Finish
  <2>2. D!TypeOK'
    BY <2>0, <2>1 DEF TasksInv, D!TypeOK, D!PCs, D!Holding
  <2>3. D!NoLostWakeup'
    BY <2>0 DEF D!NoLostWakeup
  <2>4. Terminated'
    BY <2>0 DEF TasksInv, Terminated
  <2>5. D!Conservation'
    BY <2>0, <2>1 DEF TasksInv, D!Conservation
  <2>6. QED BY <2>2, <2>3, <2>4, <2>5 DEF TasksInv
<1>3. CASE D!Check /\ place' # "run"
  <2>1. D!Finish("top") /\ place = "check"
    BY <1>3 DEF D!Check
  <2>2. task # NoTask /\ taskState # "terminated"
    BY <2>1 DEF TasksInv, D!TypeOK, D!Holding, Terminated
  <2>3. UNCHANGED <<taskList, taskState, gameState, notifying, accepted, refused>>
    BY <1>3 DEF D!Check, D!Keep
  <2>4. taskState' \in {"running", "closing", "terminated"}
    BY <2>3 DEF TasksInv, D!TypeOK
  <2>5. QED BY <2>1, <2>2, <2>3, <2>4, FinishSteps
<1>4. QED BY <1>1, <1>2, <1>3

\* The steps of a running task: addTask, setGameState, stop, the end.
LEMMA RunSteps ==
    ASSUME TasksInv, (\E t \in Work : D!RunAdds(t)) \/ D!RunDone \/ D!RunClose \/ D!RunStop \/ D!RunShutdown
    PROVE  TasksInv'
<1>0. /\ place \in {"run", "stopping"} /\ task # NoTask /\ taskState # "terminated"
      /\ taskState \in {"running", "closing", "terminated"}
  BY DEF TasksInv, D!TypeOK, Terminated, D!Holding, D!RunAdds, D!RunDone, D!RunClose, D!RunStop, D!RunShutdown
<1>1. ASSUME NEW t \in D!Tasks, D!Enqueue(t) \/ UNCHANGED <<taskList, accepted, refused>>,
             place' \in {"run", "stopping"}, UNCHANGED <<taskState, task, notifying, finished>>,
             gameState' \in {"normal", "shutdown"}
      PROVE  TasksInv'
  <2>0. /\ taskList' \in Seq(D!Tasks) /\ accepted' \in Seq(D!Tasks) /\ refused' \subseteq D!Tasks
        /\ Len(accepted') - Len(taskList') = Len(accepted) - Len(taskList)
        /\ Len(taskList') \in Nat /\ Len(accepted') \in Nat
        /\ \/ /\ D!Elems(accepted') = D!Elems(accepted) \cup {t}
              /\ D!Elems(taskList') = D!Elems(taskList) \cup {t}
           \/ UNCHANGED <<accepted, taskList>>
    <3>1. CASE D!Enqueue(t)
      BY <3>1, EnqueueLemma
    <3>2. CASE UNCHANGED <<taskList, accepted, refused>>
      BY <3>2, TasksInvFacts DEF TasksInv, D!TypeOK
    <3>3. QED BY <1>1, <3>1, <3>2
  <2>1. D!TypeOK'
    BY <1>0, <1>1, <2>0 DEF TasksInv, D!TypeOK, D!PCs, D!Holding
  <2>2. D!NoLostWakeup'
    BY <1>1 DEF D!NoLostWakeup
  <2>3. Terminated'
    BY <1>0, <1>1 DEF Terminated
  <2>4. Len(accepted') = Len(finished') + Len(taskList') + (IF task' = NoTask THEN 0 ELSE 1)
    BY <1>1, <2>0, TasksInvFacts DEF TasksInv, D!Conservation
  <2>5. D!Elems(accepted') = D!Elems(finished') \cup D!Elems(taskList') \cup ({task'} \ {NoTask})
    BY <1>1, <2>0 DEF TasksInv, D!Conservation
  <2>6. QED BY <2>1, <2>2, <2>3, <2>4, <2>5 DEF TasksInv, D!Conservation
<1>2. ASSUME NEW t \in Work, D!RunAdds(t) PROVE TasksInv'
  <2>1. t \in D!Tasks /\ gameState' \in {"normal", "shutdown"}
    BY <1>2 DEF D!Tasks, D!RunAdds, TasksInv, D!TypeOK
  <2>2. QED BY <1>1, <1>2, <2>1 DEF D!RunAdds
<1>3. CASE D!RunDone
  BY <1>3, <1>0, FinishSteps DEF D!RunDone, D!Keep
<1>4. CASE D!RunClose
  <2>1. LastTask \in D!Tasks
    BY DEF D!Tasks, D!Shutdowns
  <2>2. D!Enqueue(LastTask) \/ UNCHANGED <<taskList, accepted, refused>>
    BY <1>4 DEF D!RunClose
  <2>3. QED BY <1>1, <1>4, <2>1, <2>2 DEF D!RunClose
<1>5. CASE D!RunStop
  <2> USE <1>5, <1>0 DEF D!RunStop, D!Keep
  <2>1. D!TypeOK'
    BY DEF TasksInv, D!TypeOK, D!PCs, D!Holding
  <2>2. D!NoLostWakeup'
    BY DEF D!NoLostWakeup
  <2>3. Terminated'
    BY DEF Terminated
  <2>4. D!Conservation'
    BY DEF TasksInv, D!Conservation
  <2>5. QED BY <2>1, <2>2, <2>3, <2>4 DEF TasksInv
<1>6. CASE D!RunShutdown
  BY <1>6, <1>0, FinishSteps DEF D!RunShutdown, D!Keep
<1>7. QED BY <1>2, <1>3, <1>4, <1>5, <1>6

LEMMA FlushSteps ==
    ASSUME TasksInv, D!FlushRun \/ D!FlushRelocks
    PROVE  TasksInv'
<1>0. place = "flushRun" /\ task # NoTask /\ taskState = "terminated"
  BY DEF TasksInv, D!TypeOK, Terminated, D!Holding, D!FlushRun, D!FlushRelocks
<1>1. CASE D!FlushRun
  BY <1>1, <1>0, FinishSteps DEF D!FlushRun, D!Keep
<1>2. CASE D!FlushRelocks
  <2> USE <1>2, <1>0 DEF D!FlushRelocks, D!Keep
  <2>1. D!TypeOK'
    BY DEF TasksInv, D!TypeOK, D!PCs, D!Holding, D!Flushing
  <2>2. D!NoLostWakeup'
    BY DEF D!NoLostWakeup
  <2>3. Terminated'
    BY DEF Terminated
  <2>4. D!Conservation'
    BY DEF TasksInv, D!Conservation
  <2>5. QED BY <2>1, <2>2, <2>3, <2>4 DEF TasksInv
<1>3. QED BY <1>1, <1>2

LEMMA TasksInvInductive == TasksInv /\ [D!Next]_(D!vars) => TasksInv'
<1> SUFFICES ASSUME TasksInv, [D!Next]_(D!vars) PROVE TasksInv'
  OBVIOUS
<1>1. ASSUME NEW c \in Clients, (\E t \in D!Tasks : D!AddTask(c, t)) \/ D!Notify(c) PROVE TasksInv'
  BY <1>1, ClientSteps
<1>2. CASE (\E t \in Work : D!RunAdds(t)) \/ D!RunDone \/ D!RunClose \/ D!RunStop \/ D!RunShutdown
  BY <1>2, RunSteps
<1>3. CASE D!SpuriousWake \/ D!Check
  BY <1>3, WaitAndCheckSteps
<1>4. CASE D!Loop \/ D!Woken \/ D!Flush
  BY <1>4, TakeSteps
<1>5. CASE D!FlushRun \/ D!FlushRelocks
  BY <1>5, FlushSteps
<1>6. CASE UNCHANGED D!vars
  BY <1>6 DEF D!vars, TasksInv, D!TypeOK, D!NoLostWakeup, Terminated, D!Conservation
<1>7. QED BY <1>1, <1>2, <1>3, <1>4, <1>5, <1>6 DEF D!Next, D!Thread

\* The invariant of the four theorems below.
LEMMA TasksInvHolds == D!Spec => []TasksInv
<1>1. QED BY InitTasksInv, TasksInvInductive, PTL DEF D!Spec

-----------------------------------------------------------------------------

\* The dispatcher's state is well typed: in particular the thread holds a task
\* exactly where the code holds a pointer to one.
THEOREM TasksTyped == D!Spec => []D!TypeOK
<1>1. TasksInv => D!TypeOK
  BY DEF TasksInv
<1>2. QED BY <1>1, TasksInvHolds, PTL

\* No wake-up is lost, for any number of threads that call addTask.
THEOREM WakeupsKept == D!Spec => []NoLostWakeup
<1>1. TasksInv => NoLostWakeup
  BY DEF TasksInv, NoLostWakeup
<1>2. QED BY <1>1, TasksInvHolds, PTL

\* Every accepted task is queued, held or finished, and none is executed twice.
THEOREM TasksConserved == D!Spec => []D!Conservation
<1>1. TasksInv => D!Conservation
  BY DEF TasksInv
<1>2. QED BY <1>1, TasksInvHolds, PTL

\* When the thread has ended, every task it ever accepted has been finished.
THEOREM ExitClean == D!Spec => []D!ExitLeavesNothing
<1>1. TasksInv => D!ExitLeavesNothing
  <2> SUFFICES ASSUME TasksInv, place = "exited" PROVE taskList = <<>> /\ D!Elems(accepted) = D!Elems(finished)
    BY DEF D!ExitLeavesNothing
  <2>1. taskList = <<>> /\ task = NoTask
    BY DEF TasksInv, Terminated, D!TypeOK, D!Holding
  <2>2. D!Elems(<<>>) = {}
    BY DEF D!Elems
  <2>3. QED BY <2>1, <2>2 DEF TasksInv, D!Conservation
<1>2. QED BY <1>1, TasksInvHolds, PTL

\* No task is lost, whichever way the thread ends.
THEOREM NothingIsLost == D!Spec => []NothingLost
BY TasksConserved, ExitClean, PTL DEF NothingLost, D!NothingLost

-----------------------------------------------------------------------------
(* What is left when a shutdown task runs was accepted after it.           *)

\* Every task in the set came onto the list after a did.
AllAfter(a, tasks) == \A b \in tasks : D!Before(accepted, a, b)

\* What stands behind a shutdown task on the list, whatever was pushed to the
\* front, was accepted after it; so was all that is left when it is taken, and
\* all that flush executes.
LateOrder ==
    /\ \A i, j \in DOMAIN taskList :
          i < j /\ taskList[i] \in D!Shutdowns => D!Before(accepted, taskList[i], taskList[j])
    /\ task \in D!Shutdowns /\ place \notin D!Flushing => AllAfter(task, D!Elems(taskList))
    /\ place \in D!Flushing =>
          \E a \in D!Shutdowns : AllAfter(a, D!Elems(taskList) \cup ({task} \ {NoTask}))

\* What was accepted before stays before, and a new task comes after all of it.
LEMMA BeforeAppend ==
    ASSUME NEW s \in Seq(D!Tasks), NEW t \in D!Tasks
    PROVE  /\ \A a, b : D!Before(s, a, b) => D!Before(Append(s, t), a, b)
           /\ \A a \in D!Elems(s) : D!Before(Append(s, t), a, t)
<1>1. DOMAIN s = 1..Len(s) /\ DOMAIN Append(s, t) = 1..(Len(s) + 1) /\ Len(s) \in Nat
  OBVIOUS
<1>2. \A i \in 1..Len(s) : Append(s, t)[i] = s[i]
  OBVIOUS
<1>3. Append(s, t)[Len(s) + 1] = t
  OBVIOUS
<1>4. ASSUME NEW a, NEW b, D!Before(s, a, b) PROVE D!Before(Append(s, t), a, b)
  <2>1. PICK i, j \in 1..Len(s) : i < j /\ s[i] = a /\ s[j] = b
    BY <1>1, <1>4 DEF D!Before
  <2>2. i \in DOMAIN Append(s, t) /\ j \in DOMAIN Append(s, t)
    BY <1>1, <2>1
  <2>3. QED BY <1>2, <2>1, <2>2 DEF D!Before
<1>5. ASSUME NEW a \in D!Elems(s) PROVE D!Before(Append(s, t), a, t)
  <2>1. PICK i \in 1..Len(s) : s[i] = a
    BY <1>1, <1>5 DEF D!Elems
  <2>2. i \in DOMAIN Append(s, t) /\ Len(s) + 1 \in DOMAIN Append(s, t) /\ i < Len(s) + 1
    BY <1>1, <2>1
  <2>3. QED BY <1>2, <1>3, <2>1, <2>2 DEF D!Before
<1>6. QED BY <1>4, <1>5

\* The second half of the order, when a task is pushed: nothing is flushed yet.
LEMMA EnqueueOrder ==
    ASSUME TasksInv, LateOrder, NEW t \in D!Tasks, D!Enqueue(t), place \notin D!Flushing,
           place' \notin D!Flushing, UNCHANGED task
    PROVE  LateOrder'
<1>0. /\ taskList \in Seq(D!Tasks) /\ accepted \in Seq(D!Tasks)
      /\ D!Elems(taskList) \subseteq D!Elems(accepted) /\ (task # NoTask => task \in D!Elems(accepted))
  BY DEF TasksInv, D!TypeOK, D!Conservation
<1>1. CASE ~D!Accepts
  BY <1>1 DEF D!Enqueue, LateOrder, AllAfter
<1>2. CASE D!Accepts
  <2>1. accepted' = Append(accepted, t) /\ taskList' = D!Push(t)
    BY <1>2 DEF D!Enqueue
  <2>2. \A a, b : D!Before(accepted, a, b) => D!Before(accepted', a, b)
    BY <1>0, <2>1, BeforeAppend
  <2>3. \A a \in D!Elems(accepted) : D!Before(accepted', a, t)
    BY <1>0, <2>1, BeforeAppend
  <2>4. D!Elems(taskList') = D!Elems(taskList) \cup {t}
    BY <1>0, <2>1, ElemsAppend, ElemsPrepend DEF D!Push
  <2>5. ASSUME NEW i \in DOMAIN taskList', NEW j \in DOMAIN taskList', i < j,
               taskList'[i] \in D!Shutdowns
        PROVE  D!Before(accepted', taskList'[i], taskList'[j])
    <3>0. Len(taskList) \in Nat /\ DOMAIN taskList = 1..Len(taskList)
      BY <1>0
    <3>1. CASE t \in Front
      <4>1. taskList' = <<t>> \o taskList
        BY <2>1, <3>1 DEF D!Push
      <4>2. DOMAIN taskList' = 1..(Len(taskList) + 1) /\ taskList'[1] = t
        BY <4>1, <1>0
      <4>3. \A k \in 1..Len(taskList) : taskList'[k + 1] = taskList[k]
        BY <4>1, <1>0
      <4>4. \A k \in 2..(Len(taskList) + 1) : k - 1 \in 1..Len(taskList) /\ taskList'[k] = taskList[k - 1]
        BY <4>3, <3>0
      <4>5. t \notin D!Shutdowns
        BY <3>1, ThreadsAssumption DEF D!TaskAssumption
      <4>6. i # 1 /\ i \in 2..(Len(taskList) + 1) /\ j \in 2..(Len(taskList) + 1)
        BY <4>2, <4>5, <2>5, <3>0
      <4>7. i - 1 < j - 1
        BY <4>6, <2>5, <3>0
      <4>8. QED BY <4>4, <4>6, <4>7, <3>0, <2>2, <2>5 DEF LateOrder
    <3>2. CASE t \notin Front
      <4>1. taskList' = Append(taskList, t)
        BY <2>1, <3>2 DEF D!Push
      <4>2. DOMAIN taskList' = 1..(Len(taskList) + 1) /\ taskList'[Len(taskList) + 1] = t
        BY <4>1, <1>0
      <4>3. \A k \in 1..Len(taskList) : taskList'[k] = taskList[k]
        BY <4>1, <1>0
      <4>4. i \in 1..Len(taskList) /\ j \in 1..(Len(taskList) + 1)
        BY <4>2, <2>5, <3>0
      <4>5. CASE j = Len(taskList) + 1
        <5>1. taskList'[i] \in D!Elems(accepted)
          BY <4>3, <4>4, <3>0, <1>0 DEF D!Elems
        <5>2. QED BY <5>1, <2>3, <4>2, <4>5
      <4>6. CASE j # Len(taskList) + 1
        <5>1. j \in 1..Len(taskList)
          BY <4>4, <4>6, <3>0
        <5>2. QED BY <5>1, <4>3, <4>4, <3>0, <2>2, <2>5 DEF LateOrder
      <4>7. QED BY <4>5, <4>6
    <3>3. QED BY <3>1, <3>2
  <2>6. ASSUME task' \in D!Shutdowns PROVE AllAfter(task, D!Elems(taskList))'
    <3>1. AllAfter(task, D!Elems(taskList)) /\ task # NoTask
      BY <2>6, ThreadsAssumption DEF LateOrder, D!Tasks, D!TaskAssumption
    <3>2. QED BY <3>1, <2>2, <2>3, <2>4, <1>0 DEF AllAfter
  <2>7. QED BY <2>5, <2>6 DEF LateOrder, D!Flushing
<1>3. QED BY <1>1, <1>2

\* Taking the first task keeps the order, and what is left comes after it when
\* it is a shutdown task.
LEMMA TakeOrder ==
    ASSUME TasksInv, LateOrder, taskList # <<>>, UNCHANGED accepted, task = NoTask,
           NEW next \in {"check", "flushRun"}, D!Take(next),
           next = "flushRun" <=> place \in D!Flushing
    PROVE  LateOrder'
<1>0. taskList \in Seq(D!Tasks) /\ Len(taskList) \in Nat /\ DOMAIN taskList = 1..Len(taskList)
  BY DEF TasksInv, D!TypeOK
<1>1. /\ task' = Head(taskList) /\ taskList' = Tail(taskList) /\ place' = next
      /\ taskList' \in Seq(D!Tasks) /\ task' = taskList[1]
      /\ D!Elems(taskList) = D!Elems(taskList') \cup {task'}
  BY <1>0, ElemsTake DEF D!Take
<1>2. /\ DOMAIN taskList' = 1..(Len(taskList) - 1)
      /\ \A k \in 1..(Len(taskList) - 1) : k + 1 \in 1..Len(taskList) /\ taskList'[k] = taskList[k + 1]
  BY <1>0, <1>1
<1>3. ASSUME NEW i \in DOMAIN taskList', NEW j \in DOMAIN taskList', i < j,
             taskList'[i] \in D!Shutdowns
      PROVE  D!Before(accepted', taskList'[i], taskList'[j])
  <2>1. i + 1 < j + 1
    BY <1>2, <1>3, <1>0
  <2>2. QED BY <2>1, <1>0, <1>2, <1>3 DEF LateOrder
<1>4. ASSUME task' \in D!Shutdowns PROVE AllAfter(task, D!Elems(taskList))'
  <2>1. ASSUME NEW k \in 1..(Len(taskList) - 1) PROVE D!Before(accepted, taskList[1], taskList[k + 1])
    <3>1. 1 \in 1..Len(taskList) /\ k + 1 \in 1..Len(taskList) /\ 1 < k + 1
      BY <1>0, <2>1
    <3>2. QED BY <3>1, <1>0, <1>1, <1>4 DEF LateOrder
  <2>2. \A b \in D!Elems(taskList') : \E k \in 1..(Len(taskList) - 1) : b = taskList[k + 1]
    BY <1>2 DEF D!Elems
  <2>3. QED BY <2>1, <2>2, <1>1 DEF AllAfter
<1>5. ASSUME place' \in D!Flushing
      PROVE  \E a \in D!Shutdowns : AllAfter(a, D!Elems(taskList) \cup ({task} \ {NoTask}))'
  <2>1. place \in D!Flushing
    BY <1>5, <1>1 DEF D!Flushing
  <2>2. PICK a \in D!Shutdowns : AllAfter(a, D!Elems(taskList) \cup ({task} \ {NoTask}))
    BY <2>1 DEF LateOrder
  <2>3. QED BY <2>2, <1>1 DEF AllAfter
<1>6. QED BY <1>3, <1>4, <1>5 DEF LateOrder

\* Every other step leaves the list and what was accepted as they are.
LEMMA LateOrderInductive == TasksInv /\ LateOrder /\ [D!Next]_(D!vars) => LateOrder'
<1> SUFFICES ASSUME TasksInv, LateOrder, [D!Next]_(D!vars) PROVE LateOrder'
  OBVIOUS
<1>1. ASSUME NEW c \in Clients, NEW t \in D!Tasks, D!AddTask(c, t) PROVE LateOrder'
  <2>1. D!Enqueue(t) /\ UNCHANGED <<place, task>> /\ place \notin D!Flushing
    BY <1>1 DEF D!AddTask, D!LockFree
  <2>2. QED BY <2>1, EnqueueOrder
<1>2. ASSUME UNCHANGED <<taskList, accepted>>,
             task' = task \/ task' = NoTask,
             place' \in D!Flushing => place \in D!Flushing \/ (task \in D!Shutdowns /\ task' = NoTask),
             place' \notin D!Flushing /\ place \in D!Flushing => task' = NoTask
      PROVE  LateOrder'
  <2>1. task' \in D!Shutdowns /\ place' \notin D!Flushing => AllAfter(task, D!Elems(taskList))'
    BY <1>2, ThreadsAssumption DEF LateOrder, AllAfter, D!Tasks, D!TaskAssumption
  <2>2. ASSUME place' \in D!Flushing
        PROVE  \E a \in D!Shutdowns : AllAfter(a, D!Elems(taskList) \cup ({task} \ {NoTask}))'
    <3>1. CASE place \in D!Flushing
      <4>1. PICK a \in D!Shutdowns : AllAfter(a, D!Elems(taskList) \cup ({task} \ {NoTask}))
        BY <3>1 DEF LateOrder
      <4>2. QED BY <4>1, <1>2 DEF AllAfter
    <3>2. CASE place \notin D!Flushing
      BY <3>2, <1>2, <2>2 DEF LateOrder, AllAfter
    <3>3. QED BY <3>1, <3>2
  <2>3. QED BY <1>2, <2>1, <2>2 DEF LateOrder
<1>3. ASSUME NEW t \in Work, D!RunAdds(t) PROVE LateOrder'
  <2>1. D!Enqueue(t) /\ UNCHANGED <<place, task>> /\ place \notin D!Flushing /\ t \in D!Tasks
    BY <1>3 DEF D!RunAdds, D!Flushing, D!Tasks
  <2>2. QED BY <2>1, EnqueueOrder
<1>4. CASE D!RunClose
  <2>0. /\ place = "run" /\ place' = "stopping" /\ UNCHANGED task /\ LastTask \in D!Tasks
    BY <1>4 DEF D!RunClose, D!Tasks, D!Shutdowns
  <2>1. CASE CloseInstance
    <3>1. D!Enqueue(LastTask)
      BY <1>4, <2>1 DEF D!RunClose
    <3>2. QED BY <3>1, <2>0, EnqueueOrder DEF D!Flushing
  <2>2. CASE ~CloseInstance
    BY <1>4, <2>0, <2>2, <1>2 DEF D!RunClose, D!Flushing
  <2>3. QED BY <2>1, <2>2
<1>5. CASE (D!Loop \/ D!Woken \/ D!Flush) /\ taskList # <<>> /\ UNCHANGED accepted
            /\ \E next \in {"check", "flushRun"} : D!Take(next)
  <2>1. task = NoTask
    BY <1>5 DEF TasksInv, D!TypeOK, D!Holding, D!Loop, D!Woken, D!Flush
  <2>2. PICK next \in {"check", "flushRun"} : D!Take(next)
    BY <1>5
  <2>3. next = "flushRun" <=> place \in D!Flushing
    BY <1>5, <2>2 DEF D!Loop, D!Woken, D!Flush, D!Take, D!Flushing
  <2>4. QED BY <1>5, <2>1, <2>2, <2>3, TakeOrder
<1>6. CASE (D!Loop \/ D!Woken \/ D!Flush) /\ UNCHANGED <<taskList, task, accepted>>
  <2>1. task = NoTask
    BY <1>6 DEF TasksInv, D!TypeOK, D!Holding, D!Loop, D!Woken, D!Flush
  <2>2. QED BY <1>2, <1>6, <2>1 DEF D!Loop, D!Woken, D!Flush, D!Take, D!Flushing
<1>7. CASE D!Loop \/ D!Woken \/ D!Flush
  BY <1>7, <1>5, <1>6 DEF D!Loop, D!Woken, D!Flush, D!Keep
<1>8. CASE D!SpuriousWake \/ D!Check \/ D!RunDone \/ D!RunStop
  BY <1>8, <1>2 DEF D!SpuriousWake, D!Check, D!RunDone, D!RunStop, D!Finish, D!Keep, D!Flushing
<1>9. CASE D!RunShutdown \/ D!FlushRun \/ D!FlushRelocks
  BY <1>9, <1>2 DEF D!RunShutdown, D!FlushRun, D!FlushRelocks, D!Finish, D!Keep, D!Flushing
<1>10. ASSUME NEW c \in Clients, D!Notify(c) PROVE LateOrder'
  BY <1>10, <1>2 DEF D!Notify, D!Flushing
<1>11. CASE UNCHANGED D!vars
  BY <1>11, <1>2 DEF D!vars
<1>12. QED BY <1>1, <1>3, <1>4, <1>7, <1>8, <1>9, <1>10, <1>11 DEF D!Next, D!Thread

\* The dispatcher blocks itself only over a task that was accepted after a
\* shutdown task: the condition under which it does is known for every number
\* of threads and tasks.
THEOREM StuckOnlyLate == D!Spec => []StuckNeedsLateTask
<1>1. D!Init => LateOrder
  <2>1. D!Init => taskList = <<>> /\ task = NoTask /\ place \notin D!Flushing
    BY DEF D!Init, D!Flushing
  <2>2. NoTask \notin D!Shutdowns
    BY ThreadsAssumption DEF D!Tasks, D!TaskAssumption
  <2>3. QED BY <2>1, <2>2 DEF LateOrder
<1>2. TasksInv /\ LateOrder => StuckNeedsLateTask
  <2> SUFFICES ASSUME TasksInv, LateOrder, place = "stuck"
               PROVE  \E a \in D!Shutdowns, b \in D!Tasks : D!Before(accepted, a, b)
    BY DEF StuckNeedsLateTask, D!StuckNeedsLateTask
  <2>1. task \in D!Tasks /\ task # NoTask
    BY ThreadsAssumption DEF TasksInv, D!TypeOK, D!Holding, D!TaskAssumption
  <2>2. QED BY <2>1 DEF LateOrder, AllAfter, D!Flushing
<1>3. QED BY <1>1, <1>2, TasksInvHolds, LateOrderInductive, PTL DEF D!Spec
=============================================================================
