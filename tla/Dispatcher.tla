----------------------------- MODULE Dispatcher -----------------------------
(***************************************************************************)
(* The dispatcher (dispatcher.cpp): one thread that executes, in order,    *)
(* the tasks that every other thread hands to it.  All game state is       *)
(* touched by that thread only, so its queue is the one synchronisation    *)
(* point between the network threads, the scheduler thread, the signal     *)
(* handlers and the game.                                                  *)
(*                                                                         *)
(* Every critical section on m_taskLock is one atomic step, but for        *)
(* Dispatcher::shutdown, which executes the left-over tasks with the lock  *)
(* held: while pc is in Flushing no other thread can take the lock.        *)
(***************************************************************************)
EXTENDS Naturals, Sequences, FiniteSets

CONSTANTS
    Clients,       \* the other threads that call addTask
    Work,          \* ordinary tasks; each is a fresh object, added once
    Front,         \* those of Work that are added with front = true
    Timed,         \* those of Work created with an expiration
    CloseTasks,    \* Game::setGameState(GAMESTATE_SHUTDOWN): SIGQUIT, scripts
    TermTasks,     \* Game::shutdown added by SIGTERM
    LastTask,      \* the Game::shutdown task added by setGameState
    CloseInstance, \* CLOSE_INSTANCE_ON_SHUTDOWN
    NoTask

Shutdowns == TermTasks \cup {LastTask}
Tasks == Work \cup CloseTasks \cup Shutdowns

TaskAssumption ==
    /\ Front \subseteq Work /\ Timed \subseteq Work
    /\ Work \cap CloseTasks = {} /\ Work \cap Shutdowns = {}
    /\ CloseTasks \cap Shutdowns = {} /\ LastTask \notin TermTasks
    /\ NoTask \notin Tasks
    /\ CloseInstance \in BOOLEAN

VARIABLES
    taskList,    \* m_taskList
    threadState, \* m_threadState
    pc,          \* where the dispatcher thread is
    current,     \* the task it holds
    notifying,   \* clients that released the lock and have yet to notify_one
    gameState,   \* Game::gameState, shutdown or not
    accepted,    \* history: the tasks put on the list, in that order
    finished,    \* history: the tasks executed or dropped as expired, in order
    refused      \* history: the tasks addTask leaked, the thread not running

vars == <<taskList, threadState, pc, current, notifying, gameState,
          accepted, finished, refused>>

Flushing == {"flush", "flushRun", "stuck"}
PCs == {"top", "waiting", "woken", "check", "run", "stopping", "exited"} \cup Flushing

\* Where the thread holds a task it has taken from the list.
Holding == {"check", "run", "stopping", "flushRun", "stuck"}

Elems(s) == {s[i] : i \in DOMAIN s}
Known == Elems(accepted) \cup refused

TypeOK ==
    /\ taskList \in Seq(Tasks)
    /\ threadState \in {"running", "closing", "terminated"}
    /\ pc \in PCs
    /\ current \in Tasks \cup {NoTask}
    /\ notifying \subseteq Clients
    /\ gameState \in {"normal", "shutdown"}
    /\ accepted \in Seq(Tasks) /\ finished \in Seq(Tasks)
    /\ refused \subseteq Tasks
    /\ (current # NoTask) <=> (pc \in Holding)

Init ==
    /\ taskList = <<>> /\ threadState = "running" /\ pc = "top"
    /\ current = NoTask /\ notifying = {} /\ gameState = "normal"
    /\ accepted = <<>> /\ finished = <<>> /\ refused = {}

-----------------------------------------------------------------------------
(* addTask: the locked part, shared by every caller.                       *)

LockIgnored == TRUE
LockFree == pc \notin Flushing

\* Slips a change to addTask could make; the properties below tell each apart.
PushFrontAlways(t) == <<t>> \o taskList
SignalAfterPush == threadState = "running" /\ Len(taskList) = 1

Push(t) == IF t \in Front THEN <<t>> \o taskList ELSE Append(taskList, t)
Accepts == threadState = "running"
NeedsSignal == Accepts /\ taskList = <<>>

Enqueue(t) ==
    \/ /\ Accepts
       /\ taskList' = Push(t)
       /\ accepted' = Append(accepted, t)
       /\ UNCHANGED refused
    \/ /\ ~Accepts
       /\ refused' = refused \cup {t}
       /\ UNCHANGED <<taskList, accepted>>

\* Another thread calls addTask; it signals after it has released the lock,
\* and only if the list was empty.
AddTask(c, t) ==
    /\ LockFree /\ c \notin notifying
    /\ t \notin Known /\ t # LastTask
    /\ Enqueue(t)
    /\ notifying' = IF NeedsSignal THEN notifying \cup {c} ELSE notifying
    /\ UNCHANGED <<threadState, pc, current, gameState, finished>>

Notify(c) ==
    /\ c \in notifying
    /\ notifying' = notifying \ {c}
    /\ pc' = IF pc = "waiting" THEN "woken" ELSE pc
    /\ UNCHANGED <<taskList, threadState, current, gameState, accepted,
                   finished, refused>>

-----------------------------------------------------------------------------
(* dispatcherThread                                                        *)

TakeWithoutPop(next) ==
    /\ current' = Head(taskList)
    /\ pc' = next
    /\ UNCHANGED taskList

Take(next) ==
    /\ current' = Head(taskList)
    /\ taskList' = Tail(taskList)
    /\ pc' = next

Keep == UNCHANGED <<notifying, accepted, refused>>

\* The loop test, and the locked part up to the wait or the pop.
Loop ==
    /\ pc = "top"
    /\ \/ /\ threadState = "terminated" /\ pc' = "exited"
          /\ UNCHANGED <<taskList, current>>
       \/ /\ threadState # "terminated" /\ taskList = <<>>
          /\ pc' = "waiting" /\ UNCHANGED <<taskList, current>>
       \/ /\ threadState # "terminated" /\ taskList # <<>>
          /\ Take("check")
    /\ Keep /\ UNCHANGED <<threadState, gameState, finished>>

\* boost::condition_variable::wait may return without a notification.
SpuriousWake ==
    /\ pc = "waiting" /\ pc' = "woken"
    /\ Keep /\ UNCHANGED <<taskList, threadState, current, gameState, finished>>

Woken ==
    /\ pc = "woken"
    /\ \/ /\ taskList # <<>> /\ threadState # "terminated" /\ Take("check")
       \/ /\ taskList = <<>> \/ threadState = "terminated"
          /\ pc' = "top" /\ UNCHANGED <<taskList, current>>
    /\ Keep /\ UNCHANGED <<threadState, gameState, finished>>

Finish(next) ==
    /\ finished' = Append(finished, current)
    /\ current' = NoTask
    /\ pc' = next

\* hasExpired: the clock is not modelled, a timed task may have expired.
Check ==
    /\ pc = "check"
    /\ \/ /\ pc' = "run" /\ UNCHANGED <<current, finished>>
       \/ /\ current \in Timed /\ Finish("top")
    /\ Keep /\ UNCHANGED <<taskList, threadState, gameState>>

\* The running task, or the sendAll after it, calls addTask.
RunAdds(t) ==
    /\ pc = "run" /\ current \in Work \cup CloseTasks
    /\ t \in Work \ Known
    /\ Enqueue(t)
    /\ UNCHANGED <<threadState, pc, current, notifying, gameState, finished>>

RunDone ==
    /\ pc = "run"
    /\ current \in Work \/ (current \in CloseTasks /\ gameState = "shutdown")
    /\ Finish("top")
    /\ Keep /\ UNCHANGED <<taskList, threadState, gameState>>

\* setGameState(GAMESTATE_SHUTDOWN) adds the Game::shutdown task ...
RunClose ==
    /\ pc = "run" /\ current \in CloseTasks /\ gameState # "shutdown"
    /\ gameState' = "shutdown" /\ pc' = "stopping"
    /\ IF CloseInstance
       THEN Enqueue(LastTask) ELSE UNCHANGED <<taskList, accepted, refused>>
    /\ UNCHANGED <<threadState, current, notifying, finished>>

\* ... and only then stops the dispatcher: other threads run in between.
RunStop ==
    /\ pc = "stopping"
    /\ threadState' = "closing" /\ pc' = "run"
    /\ Keep /\ UNCHANGED <<taskList, current, gameState, finished>>

\* Game::shutdown: the lock is taken and kept while flush runs the rest.
RunShutdown ==
    /\ pc = "run" /\ current \in Shutdowns
    /\ threadState' = "terminated"
    /\ Finish("flush")
    /\ Keep /\ UNCHANGED <<taskList, gameState>>

Flush ==
    /\ pc = "flush"
    /\ \/ taskList # <<>> /\ Take("flushRun")
       \/ taskList = <<>> /\ pc' = "top" /\ UNCHANGED <<taskList, current>>
    /\ Keep /\ UNCHANGED <<threadState, gameState, finished>>

\* flush executes without asking hasExpired.
FlushRun ==
    /\ pc = "flushRun"
    /\ current \in Work \/ (current \in CloseTasks /\ gameState = "shutdown")
    /\ Finish("flush")
    /\ Keep /\ UNCHANGED <<taskList, threadState, gameState>>

\* A task flush executes calls addTask, stop or shutdown: it waits for the
\* lock its own thread holds (boost::mutex is not recursive).
FlushRelocks ==
    /\ pc = "flushRun"
    /\ current \in CloseTasks => gameState # "shutdown"
    /\ pc' = "stuck"
    /\ gameState' = IF current \in CloseTasks THEN "shutdown" ELSE gameState
    /\ Keep /\ UNCHANGED <<taskList, threadState, current, finished>>

Thread ==
    \/ Loop \/ Woken \/ Check \/ RunDone \/ RunClose \/ RunStop \/ RunShutdown
    \/ Flush \/ FlushRun \/ FlushRelocks

Next ==
    \/ \E c \in Clients, t \in Tasks : AddTask(c, t)
    \/ \E c \in Clients : Notify(c)
    \/ \E t \in Work : RunAdds(t)
    \/ SpuriousWake
    \/ Thread

Spec == Init /\ [][Next]_vars

\* The dispatcher thread is scheduled, and a thread that has released the
\* lock reaches its notify_one; nobody is obliged to add a task.
FairSpec == Spec /\ WF_vars(Thread) /\ \A c \in Clients : WF_vars(Notify(c))

-----------------------------------------------------------------------------
(* Properties                                                              *)

\* The condition variable loses no wake-up: while the dispatcher sleeps on a
\* list that is not empty, some thread that signals is on its way, although
\* addTask signals after it has unlocked and only for the first task of a list.
NoLostWakeup == pc = "waiting" /\ taskList # <<>> => notifying # {}

\* No accepted task is lost or executed twice, whatever the loop, the expiry
\* and the flush of a shutdown do: it is queued, held, or finished.
Conservation ==
    /\ Len(accepted) = Len(finished) + Len(taskList)
                       + (IF current = NoTask THEN 0 ELSE 1)
    /\ Elems(accepted) = Elems(finished) \cup Elems(taskList)
                         \cup ({current} \ {NoTask})

\* Before(s, a, b): a stands before b in s.
Before(s, a, b) == \E i, j \in DOMAIN s : i < j /\ s[i] = a /\ s[j] = b

\* flush executes tasks with m_taskLock held, and a task that calls addTask
\* there blocks its own thread.  That takes a task accepted after the shutdown
\* task: nothing that was queued before it is left when it runs.
StuckNeedsLateTask ==
    pc = "stuck" =>
        \E a \in Shutdowns, b \in Tasks : Before(accepted, a, b)

\* The thread ends with nothing left on the list: every task accepted up to
\* the moment of the shutdown has been executed, none slips in behind the flush.
ExitLeavesNothing ==
    pc = "exited" => taskList = <<>> /\ Elems(accepted) = Elems(finished)

\* So no task is lost, whichever way the thread ends.
NothingLost == Conservation /\ ExitLeavesNothing

\* Every accepted task is executed or dropped as expired in the end, unless the
\* dispatcher has blocked itself: no wake-up is missed and none is starved.
TasksFinish ==
    \A t \in Tasks :
        t \in Elems(accepted) ~> (t \in Elems(finished) \/ pc = "stuck")
=============================================================================
