\* Three tasks, as many as the queue holds; with the smaller packet a draw
\* may fail.
CONSTANTS
    ThreadCount = 2
    QueueSize = 3
    Main = main
    Callers = {main}
    Tasks = {t1, t2, t3}
    MayFail = {}
    Overlap = FALSE
    Nested = FALSE
    NoThread = NoThread
    NoTask = NoTask
    Totals = {120, 130}
SPECIFICATION PacketSpec
INVARIANTS
    AssertsHold
    NothingDropped
    MoneyLeft
PROPERTY EveryoneServed
