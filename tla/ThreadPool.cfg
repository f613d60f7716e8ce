\* One caller and tasks that add tasks, two workers, a ring of two slots.
CONSTANTS
    ThreadCount = 2
    QueueSize = 2
    Main = main
    Callers = {main}
    Tasks = {t1, t2, t3}
    MayFail = {"pool", "queue", "spawn"}
    Overlap = FALSE
    Nested = TRUE
    NoThread = NoThread
    NoTask = NoTask
SPECIFICATION FairSpec
INVARIANTS
    TypeOK
    MutualExclusion
    LockReleased
    BufferHoldsPending
    NoLostWakeup
    NoUseAfterFree
    Reclaimed
PROPERTIES
    ImplementsTaskPool
    EveryTaskRuns
    DestroyReturns
