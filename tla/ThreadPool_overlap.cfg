\* Calls may overlap a destroy: what still holds then.
\* A second destroy keeps the mutex and stops everybody: no deadlock check.
CONSTANTS
    ThreadCount = 2
    QueueSize = 2
    Main = main
    Callers = {main, c1}
    Tasks = {t1, t2}
    MayFail = {}
    Overlap = TRUE
    Nested = FALSE
    NoThread = NoThread
    NoTask = NoTask
SPECIFICATION Spec
INVARIANTS
    OneDestroyer
CHECK_DEADLOCK FALSE
