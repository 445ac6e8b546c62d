SPECIFICATION ThreadsSpec
INVARIANTS NoLostWakeup NothingLost StuckNeedsLateTask
PROPERTIES TasksFinish 
CONSTANTS
    Clients = {c1, c2}
    Events = {e1, e2}
    Delays = {0, 1}
    MaxId = 2
    MaxTime = 1
    Spurious = TRUE
    NoEvent = NoEvent
    Work = {w1, w2, f1}
    Front = {f1}
    Timed = {w1}
    CloseTasks = {q1}
    TermTasks = {t1}
    LastTask = last
    CloseInstance = TRUE
    NoTask = NoTask
CHECK_DEADLOCK FALSE
