------------------------------ MODULE Threads -------------------------------
(***************************************************************************)
(* The two threads of the server beside each other: the dispatcher moves   *)
(* or the scheduler does, from the choice of a part at the start, while    *)
(* the other keeps still.  The scheduler is the component Scheduler, the   *)
(* dispatcher an instance; the same clients call both.                     *)
(***************************************************************************)
EXTENDS Scheduler

CONSTANTS
    Work, Front, Timed, CloseTasks, TermTasks, LastTask, CloseInstance, NoTask  \* of Dispatcher

VARIABLES
    part,
    taskList, taskState, place, task, notifying, gameState, accepted, finished, refused

taskVars == <<taskList, taskState, place, task, notifying, gameState, accepted, finished, refused>>

D == INSTANCE Dispatcher WITH threadState <- taskState, pc <- place, current <- task

ASSUME ThreadsAssumption == D!TaskAssumption

Dispatches == part = "dispatcher"
Schedules == part = "scheduler"

ThreadsInit == part \in {"dispatcher", "scheduler"} /\ D!Init /\ Init

ThreadsNext ==
    /\ UNCHANGED part
    /\ \/ Dispatches /\ D!Next /\ UNCHANGED vars
       \/ Schedules /\ Next /\ UNCHANGED taskVars

\* The fairness that each module states, for the part that moves.
ThreadsSpec ==
    /\ ThreadsInit /\ [][ThreadsNext]_<<part, vars, taskVars>>
    /\ WF_taskVars(Dispatches /\ D!Thread) /\ \A c \in Clients : WF_taskVars(Dispatches /\ D!Notify(c))
    /\ WF_vars(Schedules /\ Thread) /\ WF_vars(Schedules /\ Tick)
    /\ \A c \in Clients : WF_vars(Schedules /\ (Insert(c) \/ Signal(c) \/ Return(c)))

-----------------------------------------------------------------------------
(* The properties of the dispatcher, of which its module tells             *)

\* The dispatcher does not sleep on tasks without a signal to come.
NoLostWakeup == D!NoLostWakeup
\* Every accepted task is queued, held or finished, and finished when the thread ends.
NothingLost == D!NothingLost
\* The dispatcher blocks itself only over a task accepted after a shutdown task.
StuckNeedsLateTask == D!StuckNeedsLateTask
\* An accepted task is executed or expires, unless the dispatcher has blocked itself.
TasksFinish == D!TasksFinish
=============================================================================
