------------------------------- MODULE Server -------------------------------
(***************************************************************************)
(* The life of the server process (otserv.cpp, server.cpp, game.cpp): how  *)
(* the main thread, the dispatcher, the scheduler and the network start,   *)
(* change the game's state on the operator's signals, save the world once  *)
(* a day and go down together.                                             *)
(*                                                                         *)
(* The main thread waits for the loader, then runs the network and, as     *)
(* long as it does, the signal handlers.  Dispatcher and Scheduler are     *)
(* modelled in detail in modules of those names; here a task is atomic.    *)
(***************************************************************************)
EXTENDS Naturals, Sequences, FiniteSets

CONSTANTS
    Players,
    Staff,          \* players who may always log in
    CloseInstance,  \* CLOSE_INSTANCE_ON_SHUTDOWN
    ShutdownAtSave, \* SHUTDOWN_AT_GLOBALSAVE
    Signals,        \* the signals the operator sends
    MaxSignals,     \* bound on the operator's signals
    MaxRequests     \* bound on the packets of players

ASSUME ServerAssumption ==
    /\ Staff \subseteq Players
    /\ CloseInstance \in BOOLEAN /\ ShutdownAtSave \in BOOLEAN
    /\ Signals \subseteq {"save", "close", "open", "quit", "down"}
    /\ MaxSignals \in Nat /\ MaxRequests \in Nat

VARIABLES
    main,      \* where the main thread is
    handler,   \* SIGUSR2 runs setGameState itself: between its test and its write
    ports,     \* m_acceptors of the ServiceManager: none or bound
    gameState,
    taskList, dispatcher,  \* the dispatcher's list and m_threadState
    dpc,       \* where its thread is
    events, scheduler,     \* the scheduler's queue and m_threadState
    spc,       \* where its thread is
    online,    \* players in the game
    unsaved,   \* those whose progress is not in the database
    asked,     \* history: the game was told to shut down
    signals, requests      \* counters for the bounds

threads == <<main, handler, dpc, spc>>
queues == <<taskList, dispatcher, events, scheduler>>
world == <<gameState, online, unsaved>>
vars == <<threads, ports, queues, world, asked, signals, requests>>

Minutes == {"save5", "save3", "save1", "save0"}
Events == Minutes \cup {"tick"}
Commands == {"otserv", "save", "close", "open", "quit", "down", "nobody"} \cup Events
Requests == [op : {"login", "play", "logout"}, who : Players]
Command(c) == [op |-> c, who |-> "operator"]

TypeOK ==
    /\ main \in {"loading", "woken", "serving", "joinDispatcher", "joinScheduler", "ended"}
    /\ handler \in {"none", "opening"} /\ ports \in {"none", "bound"}
    /\ gameState \in {"none", "startup", "init", "normal", "closing", "closed", "shutdown"}
    /\ taskList \in Seq({Command(c) : c \in Commands} \cup Requests)
    /\ dispatcher \in {"running", "closing", "terminated"}
    /\ scheduler \in {"running", "closing", "terminated"}
    /\ dpc \in {"idle", "binding", "starting", "flush", "stuck", "ended"}
    /\ events \in [Events -> 0..3]
    /\ spc \in {"test", "asleep", "timed", "ended"}
    /\ unsaved \subseteq online /\ online \subseteq Players
    /\ asked \in {"no", "yes"} /\ signals \in 0..MaxSignals /\ requests \in 0..MaxRequests

Init ==
    /\ main = "loading" /\ handler = "none" /\ ports = "none" /\ gameState = "none"
    /\ taskList = <<Command("otserv")>> /\ dispatcher = "running" /\ dpc = "idle"
    /\ events = [e \in Events |-> 0] /\ scheduler = "running" /\ spc = "asleep"
    /\ online = {} /\ unsaved = {} /\ asked = "no" /\ signals = 0 /\ requests = 0

-----------------------------------------------------------------------------
(* What the tasks are made of                                              *)

\* Dispatcher::addTask and Scheduler::addEvent refuse once they are stopped.
Added(q, ts) == IF dispatcher = "running" THEN q \o ts ELSE q
Scheduled(es, e) == IF scheduler = "running" THEN [es EXCEPT ![e] = @ + 1] ELSE es

\* Everybody is saved; saveGameState leaves the game state as it found it.
SaveGameState == unsaved' = {}

\* A task finds its player by the id of a creature, which no later one bears:
\* the tasks of a player who has left stay queued, and find nobody.
TasksFindSuccessor(q, gone) == q
TasksFindNobody(q, gone) ==
    [i \in DOMAIN q |-> IF q[i].op = "play" /\ q[i].who \in gone
                       THEN Command("nobody") ELSE q[i]]

Reached(q) == taskList' = q /\ UNCHANGED <<events, dispatcher, scheduler>>

\* Slips: the queues are closed before the last task is added, and the players
\* are kicked without being saved.
ShutDownStopsFirst(q) ==
    /\ gameState' = "shutdown" /\ asked' = "yes"
    /\ online' = {} /\ SaveGameState /\ taskList' = q
    /\ scheduler' = "closing" /\ dispatcher' = "closing"
    /\ UNCHANGED events

CloseGameUnsaved(q) ==
    /\ gameState' = "closed" /\ online' = online \cap Staff
    /\ Reached(q) /\ UNCHANGED <<unsaved, asked>>

\* setGameState(GAMESTATE_SHUTDOWN): everyone is kicked, which saves him, the
\* world is saved, and both queues are closed behind the last task.
ShutDown(q) ==
    IF gameState = "shutdown"
    THEN Reached(q) /\ UNCHANGED <<world, asked>>
    ELSE /\ gameState' = "shutdown" /\ asked' = "yes"
         /\ online' = {} /\ SaveGameState
         /\ LET left == TasksFindNobody(q, online) IN
            taskList' = IF CloseInstance THEN Added(left, <<Command("down")>>) ELSE left
         /\ scheduler' = "closing" /\ dispatcher' = "closing"
         /\ UNCHANGED events

\* setGameState(GAMESTATE_CLOSED): only the staff stays.
CloseGame(q) ==
    /\ IF gameState \in {"shutdown", "closed"}
       THEN Reached(q) /\ UNCHANGED world
       ELSE /\ gameState' = "closed"
            /\ online' = online \cap Staff /\ SaveGameState
            /\ Reached(TasksFindNobody(q, online \ Staff))
    /\ UNCHANGED asked

OpenGame(q) ==
    /\ gameState' = IF gameState = "shutdown" THEN gameState ELSE "normal"
    /\ Reached(q) /\ UNCHANGED <<online, unsaved, asked>>

\* Game::shutdown: the scheduler forgets its events, the dispatcher flushes its
\* tasks; services->stop does nothing, since running is set after the run only.
GoDown(q) ==
    /\ scheduler' = "terminated" /\ events' = [e \in Events |-> 0]
    /\ dispatcher' = "terminated" /\ taskList' = q
    /\ UNCHANGED <<world, asked>>

\* prepareGlobalSave(5, 3, 1) announces the save and schedules the next call.
PrepareTwice(e, q) ==
    /\ taskList' = q /\ events' = Scheduled(Scheduled(events, e), e)
    /\ UNCHANGED <<gameState, online, unsaved, asked, dispatcher, scheduler>>
Prepare(e, q) ==
    /\ gameState' = IF e = "save3" /\ gameState # "shutdown" THEN "closing" ELSE gameState
    /\ events' = Scheduled(events, e)
    /\ taskList' = q
    /\ UNCHANGED <<online, unsaved, asked, dispatcher, scheduler>>

\* A slip: the game is not opened again.
GlobalSaveStaysClosed(q) ==
    /\ taskList' = Added(q, <<Command("close")>>)
    /\ events' = Scheduled(events, "save5")
    /\ UNCHANGED <<world, asked, dispatcher, scheduler>>

\* globalSave: closing and opening, or shutting down, are tasks of their own.
GlobalSave(q) ==
    /\ IF ShutdownAtSave
       THEN taskList' = Added(q, <<Command("quit")>>) /\ UNCHANGED events
       ELSE /\ taskList' = Added(q, <<Command("close"), Command("open")>>)
            /\ events' = Scheduled(events, "save5")
    /\ UNCHANGED <<world, asked, dispatcher, scheduler>>

-----------------------------------------------------------------------------
(* Players' tasks: login, what they do in the game, logout                 *)

MayEnterAlways(p) == TRUE
MayEnter(p) == p \in Staff \/ gameState \notin {"closing", "closed"}

Play(t, q) ==
    /\ CASE t.op = "login" ->
              /\ online' = IF MayEnter(t.who) THEN online \cup {t.who} ELSE online
              /\ Reached(q) /\ UNCHANGED unsaved
         [] t.op = "play" ->
              /\ unsaved' = IF t.who \in online THEN unsaved \cup {t.who} ELSE unsaved
              /\ Reached(q) /\ UNCHANGED online
         [] t.op = "logout" ->
              /\ online' = online \ {t.who} /\ unsaved' = unsaved \ {t.who}
              /\ Reached(TasksFindNobody(q, {t.who}))
    /\ UNCHANGED <<gameState, asked>>

\* Does the task take the dispatcher's lock?  Closing a connection does.
Adds(t) ==
    \/ t.op \in {"save0", "logout", "down"}
    \/ t.op = "login" /\ ~MayEnter(t.who)
    \/ t.op = "close" /\ gameState \notin {"shutdown", "closed"} /\ ~(online \subseteq Staff)
    \/ t.op = "quit" /\ gameState # "shutdown" /\ (CloseInstance \/ online # {})

Execute(t, q) ==
    CASE t.op = "quit" -> ShutDown(q)
      [] t.op = "close" -> CloseGame(q)
      [] t.op = "open" -> OpenGame(q)
      [] t.op = "down" -> GoDown(q)
      [] t.op = "save5" -> Prepare("save3", q)
      [] t.op = "save3" -> Prepare("save1", q)
      [] t.op = "save1" -> Prepare("save0", q)
      [] t.op = "save0" -> GlobalSave(q)
      [] t.op = "tick" -> /\ taskList' = q /\ events' = Scheduled(events, "tick")
                          /\ UNCHANGED <<world, asked, dispatcher, scheduler>>
      [] t.op = "save" -> SaveGameState /\ Reached(q) /\ UNCHANGED <<gameState, online, asked>>
      [] t.op = "nobody" -> Reached(q) /\ UNCHANGED <<world, asked>>
      [] t.op \in {"login", "play", "logout"} -> Play(t, q)

-----------------------------------------------------------------------------
(* The dispatcher thread                                                   *)

\* otserv, its first task: STARTUP, then the services bind, then the events
\* start and the game opens.
LoadGame ==
    /\ dpc = "idle" /\ taskList # <<>> /\ Head(taskList).op = "otserv"
    /\ gameState' = "startup" /\ dpc' = "binding" /\ taskList' = Tail(taskList)
    /\ UNCHANGED <<main, handler, spc, ports, dispatcher, events, scheduler, online,
                   unsaved, asked, signals, requests>>

BindServices ==
    /\ dpc = "binding" /\ dpc' = "starting" /\ ports' \in {"none", "bound"}
    /\ gameState' = "init"
    /\ UNCHANGED <<main, handler, spc, queues, online, unsaved, asked, signals, requests>>

\* The last step notifies the main thread if it waits.
StartGame ==
    /\ dpc = "starting" /\ dpc' = "idle"
    /\ events' = [events EXCEPT !["tick"] = 1, !["save5"] = 1]
    /\ gameState' \in {"normal", "closed"}
    /\ main' = IF main = "loading" THEN "woken" ELSE main
    /\ UNCHANGED <<handler, spc, ports, taskList, dispatcher, scheduler, online, unsaved,
                   asked, signals, requests>>

RunTask ==
    /\ dpc = "idle" /\ dispatcher # "terminated"
    /\ taskList # <<>> /\ Head(taskList).op # "otserv"
    /\ Execute(Head(taskList), Tail(taskList))
    /\ dpc' = IF Head(taskList).op = "down" THEN "flush" ELSE "idle"
    /\ UNCHANGED <<main, handler, spc, ports, signals, requests>>

\* Dispatcher::shutdown executes what is left with the lock held: a task that
\* adds another one waits for itself.
Flush ==
    /\ dpc = "flush"
    /\ IF taskList = <<>> THEN dpc' = "ended" /\ UNCHANGED <<queues, world, asked>>
       ELSE IF Adds(Head(taskList))
            THEN dpc' = "stuck" /\ UNCHANGED <<queues, world, asked>>
            ELSE Execute(Head(taskList), Tail(taskList)) /\ UNCHANGED dpc
    /\ UNCHANGED <<main, handler, spc, ports, signals, requests>>

-----------------------------------------------------------------------------
(* The scheduler thread                                                    *)

Queued == {e \in Events : events[e] > 0}
Locked == dpc \in {"flush", "stuck"}

\* It tests its state, then waits: for the first event's time, or for a signal.
TestState ==
    /\ spc = "test"
    /\ spc' = IF scheduler = "terminated" THEN "ended"
              ELSE IF Queued = {} THEN "asleep" ELSE "timed"
    /\ UNCHANGED <<main, handler, dpc, ports, queues, world, asked, signals, requests>>

\* An event came into the empty queue: its signal wakes the thread.
WakeScheduler ==
    /\ spc = "asleep" /\ Queued # {} /\ spc' = "timed"
    /\ UNCHANGED <<main, handler, dpc, ports, queues, world, asked, signals, requests>>

FireEvent ==
    /\ spc = "timed" /\ spc' = "test"
    /\ IF scheduler = "terminated" THEN UNCHANGED <<events, taskList>>
       ELSE \E e \in Queued :
              /\ ~Locked
              /\ events' = [events EXCEPT ![e] = @ - 1]
              /\ taskList' = Added(taskList, <<Command(e)>>)
    /\ UNCHANGED <<main, handler, dpc, ports, dispatcher, scheduler, world, asked,
                   signals, requests>>

-----------------------------------------------------------------------------
(* The main thread, its network and its signals                            *)

\* g_loaderSignal.wait may also return although nobody has notified it.
WakeSpuriously ==
    /\ main = "loading" /\ main' = "woken"
    /\ UNCHANGED <<handler, dpc, spc, ports, queues, world, asked, signals, requests>>

StartServices ==
    /\ main = "woken"
    /\ main' = IF ports = "bound" THEN "serving" ELSE "joinDispatcher"
    /\ UNCHANGED <<handler, dpc, spc, ports, queues, world, asked, signals, requests>>

\* An exception leaves io_service.run, for one from ServicePort::handle.
NetworkFails ==
    /\ main = "serving" /\ handler = "none" /\ main' = "joinDispatcher"
    /\ UNCHANGED <<handler, dpc, spc, ports, queues, world, asked, signals, requests>>

Join ==
    /\ \/ main = "joinDispatcher" /\ dpc = "ended" /\ main' = "joinScheduler"
       \/ main = "joinScheduler" /\ spc = "ended" /\ main' = "ended"
    /\ UNCHANGED <<handler, dpc, spc, ports, queues, world, asked, signals, requests>>

\* parseFirstPacket and parsePacket look at the game state before they add a task.
Request(r) ==
    /\ main = "serving" /\ handler = "none" /\ ~Locked
    /\ requests < MaxRequests /\ requests' = requests + 1
    /\ gameState \notin {"startup", "shutdown"}
    /\ r.op # "login" => r.who \in online
    /\ taskList' = Added(taskList, <<r>>)
    /\ UNCHANGED <<threads, ports, dispatcher, events, scheduler, world, asked, signals>>

\* SIGHUP, SIGUSR1, SIGQUIT and SIGTERM add a task.
Signal(c) ==
    /\ main = "serving" /\ handler = "none" /\ ~Locked
    /\ signals < MaxSignals /\ signals' = signals + 1
    /\ taskList' = Added(taskList, <<Command(c)>>)
    /\ UNCHANGED <<threads, ports, dispatcher, events, scheduler, world, asked, requests>>

\* SIGUSR2 calls setGameState(GAMESTATE_NORMAL): a test, then a write.
SignalOpen ==
    /\ main = "serving" /\ handler = "none" /\ "open" \in Signals
    /\ signals < MaxSignals /\ signals' = signals + 1
    /\ handler' = IF gameState \in {"shutdown", "normal"} THEN "none" ELSE "opening"
    /\ UNCHANGED <<main, dpc, spc, ports, queues, world, asked, requests>>

WriteOpen ==
    /\ handler = "opening" /\ handler' = "none"
    /\ gameState' = "normal"
    /\ UNCHANGED <<main, dpc, spc, ports, queues, online, unsaved, asked, signals, requests>>

-----------------------------------------------------------------------------
DispatcherThread == LoadGame \/ BindServices \/ StartGame \/ RunTask \/ Flush
SchedulerThread == TestState \/ WakeScheduler \/ FireEvent
MainThread == StartServices \/ Join \/ WriteOpen

Next ==
    \/ DispatcherThread \/ SchedulerThread \/ MainThread
    \/ WakeSpuriously \/ NetworkFails
    \/ \E r \in Requests : Request(r)
    \/ \E c \in Signals \ {"open"} : Signal(c)
    \/ SignalOpen

Spec == Init /\ [][Next]_vars

\* The three threads are scheduled, and every event has its turn.
FairSpec ==
    /\ Spec /\ WF_vars(DispatcherThread) /\ WF_vars(SchedulerThread) /\ WF_vars(MainThread)
    /\ \A e \in Events : SF_vars(FireEvent /\ events'[e] < events[e])

-----------------------------------------------------------------------------
(* Properties                                                              *)

\* Nobody but the staff is in a closed game, whatever was queued when it closed.
ClosedKeepsOut == gameState = "closed" => online \subseteq Staff

\* A shutdown that was asked for loses nobody's progress: what players had
\* queued before it does nothing to them afterwards.
QuitSaves == asked = "yes" => unsaved = {}

Chain(e) == events[e] + Cardinality({i \in DOMAIN taskList : taskList[i].op = e})

\* There is one global save under way or scheduled, never two.
OneGlobalSave == Chain("save5") + Chain("save3") + Chain("save1") + Chain("save0") <= 1

\* A game that is closing for a global save opens again, unless the server is
\* brought down meanwhile.
ClosingEnds == gameState = "closing" ~> (gameState = "normal" \/ dispatcher # "running")

\* Once the queues are closed, the last task brings the dispatcher down.
QuitEndsDispatcher == dispatcher = "closing" ~> dpc = "ended"

\* otserv.cpp: SIGQUIT is "save & shutdown".
QuitEndsServer == asked = "yes" ~> main = "ended"
=============================================================================
