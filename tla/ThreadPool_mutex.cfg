\* A second destroy overlaps the first.
CONSTANTS
    ThreadCount = 1
    QueueSize = 1
    Main = main
    Callers = {main, c1}
    Tasks = {t1}
    MayFail = {}
    Overlap = TRUE
    Nested = FALSE
    NoThread = NoThread
    NoTask = NoTask
SPECIFICATION Spec
INVARIANT LockReleased
CHECK_DEADLOCK FALSE
