----------------------------- MODULE ThreadPool -----------------------------
(***************************************************************************)
(* The thread pool of pthread_pool/threadpool.c: a bounded ring buffer of  *)
(* tasks, one mutex (lock), one condition variable (notify), a fixed set   *)
(* of worker threads, and the three API calls threadpool_create,           *)
(* threadpool_add and threadpool_destroy with the private threadpool_free. *)
(*                                                                         *)
(* Every access to the pool is one step per stretch of code between two    *)
(* points where another thread can observe it: taking the mutex, reading   *)
(* under it, writing and releasing it are separate steps, so that the      *)
(* mutex is what keeps them apart and not the grain of the model.          *)
(*                                                                         *)
(* A task function may itself call threadpool_add: it runs with the mutex  *)
(* released.                                                               *)
(***************************************************************************)
EXTENDS Integers, Sequences, FiniteSets

CONSTANTS
    ThreadCount,    \* argument thread_count of threadpool_create
    QueueSize,      \* argument queue_size of threadpool_create
    Callers,        \* threads of the program that use the pool
    Main,           \* the caller that creates it
    Tasks,          \* the tasks the program may submit, each at most once
    MayFail,        \* the steps of threadpool_create that can fail
    Overlap,        \* may the program's calls overlap a threadpool_destroy?
    Nested,         \* may a task call threadpool_add?
    NoThread,       \* the owner of a free mutex
    NoTask          \* an empty slot

Workers == 1..ThreadCount
Procs   == Callers \cup Workers
Parts   == {"pool", "threads", "queue", "lock", "notify"}

(* The limits of threadpool_create, as threadpool.h has them.              *)
MAX_THREADS == 64
MAX_QUEUE   == 65536

ASSUME SizeAssumption  == /\ ThreadCount \in 1..MAX_THREADS
                          /\ QueueSize \in 1..MAX_QUEUE
ASSUME NamesAssumption == /\ Main \in Callers
                          /\ Callers \cap Workers = {}
                          /\ NoThread \notin Procs
                          /\ NoTask \notin Tasks
ASSUME UseAssumption   == /\ MayFail \subseteq Parts \cup {"spawn"}
                          /\ Overlap \in BOOLEAN
                          /\ Nested \in BOOLEAN

VARIABLES
    lock,           \* owner of pool->lock
    pc,             \* where each thread is
    queue, head, tail, count,                      \* the ring buffer
    shutdown, started, thread_count,               \* the other pool fields
    mem,            \* what of the pool is "none", "live" or "gone"
    handle,         \* what the program holds: "none", "ok", "null", "gone"
    arg,            \* the task a thread in threadpool_add is submitting
    next,           \* the local variable next of threadpool_add
    flags,          \* the argument flags of threadpool_destroy
    ret,            \* what the last call returned
    job,            \* the local variable task of threadpool_thread
    accepted,       \* every task ever enqueued, in order
    taken,          \* how many of them a worker has dequeued
    runs,           \* how often each task has been executed to its end
    todo            \* the tasks that can still be submitted

buffer == <<queue, head, tail, count>>
fields == <<shutdown, started, thread_count>>
memory == <<mem, handle>>
calls  == <<arg, next, flags, ret>>
hist   == <<accepted, taken, runs, todo>>
vars   == <<lock, pc, buffer, fields, memory, calls, job, hist>>

-----------------------------------------------------------------------------
(* head and tail wrap at queue_size; Slot(i) is the index of the i-th      *)
(* pending task.                                                           *)
WrapLate(i) == IF i <= QueueSize THEN i ELSE i - QueueSize      \* a mutant
Wrap(i) == IF i < QueueSize THEN i ELSE i - QueueSize
Slot(i) == Wrap(head + i)

(* What the code at each location reads or writes of the pool.             *)
Touches(l) ==
    CASE l \in {"add_lock", "add", "dst_lock", "lock", "take"} -> {"pool", "lock"}
      [] l = "check" -> {"pool", "lock", "notify", "queue"}
      [] l \in {"dst", "wait", "free_lock"} -> {"pool", "lock", "notify"}
      [] l \in {"spawn", "count", "join"} -> {"pool", "threads"}
      [] l = "free" -> {"pool"}
      [] OTHER -> {}

(* Thread p is at location l and what it touches there is initialised and  *)
(* not yet freed; otherwise Undefined is its only step.                    *)
At(p, l) == pc[p] = l /\ \A m \in Touches(l) : mem[m] = "live"

Goto(p, l) == pc' = [pc EXCEPT ![p] = l]

(* Where a call returns to, and its result.                                *)
Return(p, r) == /\ Goto(p, IF p \in Workers THEN "run" ELSE "idle")
                /\ ret' = [ret EXCEPT ![p] = r]

Waiting == {w \in Workers : pc[w] = "wait"}

(* pthread_cond_signal wakes one waiter, if there is one, and              *)
(* pthread_cond_broadcast all; p, which calls it, goes on at l.            *)
NoSignal(p, l) == Goto(p, l)                                    \* a mutant
SignalInside(p, l) ==                                           \* a mutant
    IF Waiting = {} THEN Goto(p, l)
    ELSE \E w \in Waiting : pc' = [pc EXCEPT ![p] = l, ![w] = "check"]

AfterSignal(p, l) ==
    IF Waiting = {} THEN Goto(p, l)
    ELSE \E w \in Waiting : pc' = [pc EXCEPT ![p] = l, ![w] = "lock"]

AfterBroadcast(p, l) ==
    pc' = [q \in Procs |-> IF q = p THEN l
                           ELSE IF q \in Waiting THEN "lock" ELSE pc[q]]

(* The tests the code makes under the mutex.                               *)
FullLate  == count > QueueSize                                  \* a mutant
FullEarly == count + 1 = QueueSize                              \* a mutant
Full      == count = QueueSize
ShutDown  == shutdown # "no"
MustWait  == count = 0 /\ ~ShutDown
ExitEarly == ShutDown                                           \* a mutant
MustExit  == \/ shutdown = "immediate"
             \/ shutdown = "graceful" /\ count = 0
JoinFewer == \A i \in 1..thread_count-1 : pc[i] = "dead"        \* a mutant
Joined    == \A i \in 1..thread_count : pc[i] = "dead"

-----------------------------------------------------------------------------
Init ==
    /\ lock = NoThread
    /\ pc = [p \in Procs |-> IF p = Main THEN "create"
                             ELSE IF p \in Callers THEN "idle" ELSE "unborn"]
    /\ queue = [i \in 0..QueueSize-1 |-> NoTask]
    /\ head = 0 /\ tail = 0 /\ count = 0
    /\ shutdown = "no" /\ started = 0 /\ thread_count = 0
    /\ mem = [m \in Parts |-> "none"]
    /\ handle = "none"
    /\ arg = [p \in Procs |-> NoTask]
    /\ next = [p \in Procs |-> 0]
    /\ flags = [c \in Callers |-> "immediate"]
    /\ ret = [p \in Procs |-> "ok"]
    /\ job = [w \in Workers |-> NoTask]
    /\ accepted = <<>> /\ taken = 0
    /\ runs = [t \in Tasks |-> 0]
    /\ todo = Tasks

-----------------------------------------------------------------------------
(* threadpool_create, as far as the spawn loop.  F is what fails.  The     *)
(* condition variable is initialised only if the mutex was.                *)
CreateFails(F) ==
    \/ /\ "pool" \in F
       /\ handle' = "null"
       /\ Goto(Main, "idle")
       /\ UNCHANGED mem
    \/ /\ "pool" \notin F
       /\ F # {}
       /\ mem' = [m \in Parts |->
                    IF m \in F \/ (m = "notify" /\ "lock" \in F)
                    THEN "none" ELSE "live"]
       /\ Goto(Main, "free")
       /\ UNCHANGED handle

Create ==
    /\ pc[Main] = "create"
    /\ \/ \E F \in SUBSET (MayFail \ {"spawn"}) : CreateFails(F)
       \/ /\ mem' = [m \in Parts |-> "live"]
          /\ Goto(Main, "spawn")
          /\ UNCHANGED handle
    /\ UNCHANGED <<lock, buffer, fields, calls, job, hist>>

(* pthread_create for the next thread; on failure the pool is destroyed.   *)
Spawn ==
    /\ At(Main, "spawn")
    /\ \/ /\ pc' = [pc EXCEPT ![Main] = "count", ![thread_count + 1] = "lock"]
          /\ UNCHANGED flags
       \/ /\ "spawn" \in MayFail
          /\ Goto(Main, "dst_lock")
          /\ flags' = [flags EXCEPT ![Main] = "immediate"]
    /\ UNCHANGED <<lock, buffer, fields, memory, arg, next, ret, job, hist>>

(* The counters are advanced after pthread_create, without the mutex.      *)
CountThread ==
    /\ At(Main, "count")
    /\ thread_count' = thread_count + 1
    /\ started' = started + 1
    /\ IF thread_count + 1 < ThreadCount
       THEN Goto(Main, "spawn") /\ UNCHANGED handle
       ELSE Goto(Main, "idle") /\ handle' = "ok"
    /\ UNCHANGED <<lock, buffer, shutdown, mem, calls, job, hist>>

-----------------------------------------------------------------------------
Destroying == {c \in Callers :
                 pc[c] \in {"dst_lock", "dst", "join", "free", "free_lock"}}

(* The program calls threadpool_add with a task it has not submitted yet.  *)
AddCall(p, t) ==
    /\ \/ /\ p \in Callers
          /\ pc[p] = "idle"
          /\ handle = "ok"
          /\ Overlap \/ Destroying = {}
       \/ Nested /\ p \in Workers /\ pc[p] = "run"
    /\ t \in todo
    /\ todo' = todo \ {t}
    /\ arg' = [arg EXCEPT ![p] = t]
    /\ Goto(p, "add_lock")
    /\ UNCHANGED <<lock, buffer, fields, memory, next, flags, ret, job,
                   accepted, taken, runs>>

(* Take the mutex and compute the index that follows tail.                 *)
AddLock(p) ==
    /\ At(p, "add_lock")
    /\ lock = NoThread
    /\ lock' = p
    /\ next' = [next EXCEPT ![p] = Wrap(tail + 1)]
    /\ Goto(p, "add")
    /\ UNCHANGED <<buffer, fields, memory, arg, flags, ret, job, hist>>

(* The outcomes of threadpool_add; each one releases the mutex.            *)
AddRefuse(p, r) ==
    /\ At(p, "add")
    /\ \/ Full /\ r = "queue_full"
       \/ ~Full /\ ShutDown /\ r = "shutdown"
    /\ lock' = NoThread
    /\ Return(p, r)
    /\ todo' = todo \cup {arg[p]}
    /\ UNCHANGED <<buffer, fields, memory, arg, next, flags, job,
                   accepted, taken, runs>>

AddStore(p) ==
    /\ At(p, "add")
    /\ ~Full /\ ~ShutDown
    /\ queue' = [queue EXCEPT ![tail] = arg[p]]
    /\ tail' = next[p]
    /\ count' = count + 1
    /\ AfterSignal(p, IF p \in Workers THEN "run" ELSE "idle")
    /\ ret' = [ret EXCEPT ![p] = "ok"]
    /\ lock' = NoThread
    /\ accepted' = Append(accepted, arg[p])
    /\ UNCHANGED <<head, fields, memory, arg, next, flags, job,
                   taken, runs, todo>>

-----------------------------------------------------------------------------
(* The program calls threadpool_destroy; f is the kind of shutdown the     *)
(* flags ask for.  Unless Overlap, no other thread of the program is in a  *)
(* call then, and none starts one.                                         *)
DestroyCall(c, f) ==
    /\ pc[c] = "idle"
    /\ handle = "ok"
    /\ Overlap \/ \A d \in Callers : pc[d] = "idle"
    /\ flags' = [flags EXCEPT ![c] = f]
    /\ Goto(c, "dst_lock")
    /\ UNCHANGED <<lock, buffer, fields, memory, arg, next, ret, job, hist>>

DestroyLock(c) ==
    /\ At(c, "dst_lock")
    /\ lock = NoThread
    /\ lock' = c
    /\ Goto(c, "dst")
    /\ UNCHANGED <<buffer, fields, memory, calls, job, hist>>

(* Somebody else is shutting the pool down: return, the mutex still held.  *)
NotAsked    == FALSE                                            \* a mutant
AlreadyDown == ShutDown

DestroyAgain(c) ==
    /\ At(c, "dst")
    /\ AlreadyDown
    /\ Return(c, "shutdown")
    /\ UNCHANGED <<lock, buffer, fields, memory, arg, next, flags, job, hist>>

(* Set the flag, wake every waiter, release the mutex.                     *)
DestroyBegin(c) ==
    /\ At(c, "dst")
    /\ ~AlreadyDown
    /\ shutdown' = flags[c]
    /\ AfterBroadcast(c, "join")
    /\ lock' = NoThread
    /\ UNCHANGED <<buffer, started, thread_count, memory, calls, job, hist>>

DestroyJoin(c) ==
    /\ At(c, "join")
    /\ Joined
    /\ Goto(c, "free")
    /\ UNCHANGED <<lock, buffer, fields, memory, calls, job, hist>>

(* threadpool_free: nothing if a thread is still counted; otherwise the    *)
(* arrays go first, and only the pool if threads was never allocated.      *)
(* What create or destroy then returns depends on who called it.           *)
Released(M) == [m \in Parts |->
                  IF m \in M /\ mem[m] = "live" THEN "gone" ELSE mem[m]]
KeepPool(c) == /\ Return(c, "ok")                               \* a mutant
               /\ handle' = IF handle = "none" THEN "ok" ELSE "gone"
Leave(c) == /\ Return(c, "ok")
            /\ handle' = IF handle = "none" THEN "null" ELSE "gone"

FreeArrays(c) ==
    /\ At(c, "free")
    /\ IF started > 0 THEN Leave(c) /\ UNCHANGED mem
       ELSE IF mem["threads"] = "none"
            THEN Leave(c) /\ mem' = Released({"pool"})
            ELSE /\ mem' = Released({"threads", "queue"})
                 /\ Goto(c, "free_lock")
                 /\ UNCHANGED <<ret, handle>>
    /\ UNCHANGED <<lock, buffer, fields, arg, next, flags, job, hist>>

FreeRest(c) ==
    /\ At(c, "free_lock")
    /\ lock = NoThread
    /\ mem' = Released({"lock", "notify", "pool"})
    /\ Leave(c)
    /\ UNCHANGED <<lock, buffer, fields, arg, next, flags, job, hist>>

-----------------------------------------------------------------------------
(* threadpool_thread.  Waking from pthread_cond_wait takes the mutex and   *)
(* tests the condition again, which is what entering the loop does.        *)
WorkerLock(w) ==
    /\ At(w, "lock")
    /\ lock = NoThread
    /\ lock' = w
    /\ Goto(w, "check")
    /\ UNCHANGED <<buffer, fields, memory, calls, job, hist>>

WorkerWait(w) ==
    /\ At(w, "check")
    /\ MustWait
    /\ lock' = NoThread
    /\ Goto(w, "wait")
    /\ UNCHANGED <<buffer, fields, memory, calls, job, hist>>

ExitLocked(w) ==                                                \* a mutant
    /\ At(w, "check") /\ ~MustWait /\ MustExit
    /\ started' = started - 1
    /\ Goto(w, "dead")
    /\ UNCHANGED <<lock, buffer, shutdown, thread_count, memory, calls, job,
                   hist>>

WorkerExit(w) ==
    /\ At(w, "check")
    /\ ~MustWait /\ MustExit
    /\ started' = started - 1
    /\ lock' = NoThread
    /\ Goto(w, "dead")
    /\ UNCHANGED <<buffer, shutdown, thread_count, memory, calls, job, hist>>

WorkerGrab(w) ==
    /\ At(w, "check")
    /\ ~MustWait /\ ~MustExit
    /\ job' = [job EXCEPT ![w] = queue[head]]
    /\ Goto(w, "take")
    /\ UNCHANGED <<lock, buffer, fields, memory, calls, hist>>

WorkerTake(w) ==
    /\ At(w, "take")
    /\ head' = Wrap(head + 1)
    /\ count' = count - 1
    /\ lock' = NoThread
    /\ taken' = taken + 1
    /\ Goto(w, "run")
    /\ UNCHANGED <<queue, tail, fields, memory, calls, job,
                   accepted, runs, todo>>

(* The task function returns.                                              *)
WorkerDone(w) ==
    /\ At(w, "run")
    /\ runs' = [runs EXCEPT ![job[w]] = @ + 1]
    /\ Goto(w, "lock")
    /\ UNCHANGED <<lock, buffer, fields, memory, calls, job,
                   accepted, taken, todo>>

(* pthread_cond_wait may return without a signal.                          *)
SpuriousWakeup(w) ==
    /\ At(w, "wait")
    /\ Goto(w, "lock")
    /\ UNCHANGED <<lock, buffer, fields, memory, calls, job, hist>>

(* A thread touches what is not initialised or already freed.              *)
Undefined(p) ==
    /\ \E m \in Touches(pc[p]) : mem[m] # "live"
    /\ Goto(p, "ub")
    /\ UNCHANGED <<lock, buffer, fields, memory, calls, job, hist>>

(* The program has no pool and makes no further call.                      *)
Terminated ==
    /\ handle \in {"null", "gone"}
    /\ \A c \in Callers : pc[c] = "idle"
    /\ UNCHANGED vars

-----------------------------------------------------------------------------
AddStep(p)     == AddLock(p) \/ AddStore(p)
                    \/ \E r \in {"queue_full", "shutdown"} : AddRefuse(p, r)
DestroyStep(c) == \/ DestroyLock(c) \/ DestroyAgain(c) \/ DestroyBegin(c)
                  \/ DestroyJoin(c) \/ FreeArrays(c) \/ FreeRest(c)
WorkerStep(w)  == \/ WorkerLock(w) \/ WorkerWait(w) \/ WorkerExit(w)
                  \/ WorkerGrab(w) \/ WorkerTake(w) \/ WorkerDone(w)

Next ==
    \/ Create \/ Spawn \/ CountThread
    \/ \E p \in Procs : \/ \E t \in Tasks : AddCall(p, t)
                        \/ AddStep(p)
                        \/ Undefined(p)
    \/ \E c \in Callers : \/ \E f \in {"immediate", "graceful"} : DestroyCall(c, f)
                          \/ DestroyStep(c)
    \/ \E w \in Workers : WorkerStep(w) \/ SpuriousWakeup(w)
    \/ Terminated

(* The scheduler runs every thread that can run, and a mutex released again *)
(* and again is not denied to one thread for ever; a task ends, however     *)
(* many calls of threadpool_add it makes.                                   *)
Fairness ==
    /\ WF_vars(Create \/ Spawn \/ CountThread)
    /\ \A p \in Procs : SF_vars(AddStep(p))
    /\ \A c \in Callers : SF_vars(DestroyStep(c))
    /\ \A w \in Workers : SF_vars(WorkerStep(w))

Spec     == Init /\ [][Next]_vars
FairSpec == Spec /\ Fairness

-----------------------------------------------------------------------------
Locations == {"create", "spawn", "count", "idle", "add_lock", "add",
              "dst_lock", "dst", "join", "free", "free_lock", "unborn",
              "lock", "check", "wait", "take", "run", "dead", "ub"}

TypeOK ==
    /\ lock \in Procs \cup {NoThread}
    /\ pc \in [Procs -> Locations]
    /\ queue \in [0..QueueSize-1 -> Tasks \cup {NoTask}]
    /\ head \in 0..QueueSize-1 /\ tail \in 0..QueueSize-1
    /\ count \in 0..QueueSize
    /\ shutdown \in {"no", "immediate", "graceful"}
    /\ started \in Int /\ thread_count \in Nat
    /\ mem \in [Parts -> {"none", "live", "gone"}]
    /\ handle \in {"none", "ok", "null", "gone"}
    /\ arg \in [Procs -> Tasks \cup {NoTask}]
    /\ next \in [Procs -> 0..QueueSize-1]
    /\ flags \in [Callers -> {"immediate", "graceful"}]
    /\ ret \in [Procs -> {"ok", "queue_full", "shutdown"}]
    /\ job \in [Workers -> Tasks \cup {NoTask}]
    /\ accepted \in Seq(Tasks) /\ taken \in Nat
    /\ runs \in [Tasks -> Nat]
    /\ todo \subseteq Tasks

(* The locations at which the code holds the mutex.                        *)
Critical == {"add", "dst", "check", "take"}

(* No two threads are between pthread_mutex_lock and the matching unlock,  *)
(* whatever the calls that overlap (threadpool.c:94-142, 158-180, 232-263).*)
MutualExclusion == \A p \in Procs : pc[p] \in Critical => lock = p

(* The mutex is not left behind: whoever owns it is in a critical section, *)
(* as the author's remark at threadpool.c:275 asks for.                    *)
LockReleased == lock # NoThread => pc[lock] \in Critical

(* The ring buffer holds exactly the tasks enqueued and not yet dequeued,  *)
(* in the order they were added: nothing is lost, doubled or overwritten   *)
(* where head and tail wrap (threadpool.c:99-100, 119-123, 251-256).       *)
BufferHoldsPending ==
    /\ count = Len(accepted) - taken
    /\ tail = Slot(count)
    /\ \A i \in 0..QueueSize-1 :
          i < count => queue[Slot(i)] = accepted[taken + 1 + i]

(* While a worker sleeps, at least as many workers as there are pending    *)
(* tasks are awake and on their way to the queue; once the pool is shut    *)
(* down none sleeps.  So one signal per task is enough (threadpool.c:131,  *)
(* 176, 237-240).                                                          *)
Fetching == {w \in Workers : pc[w] \in {"lock", "check", "take"}}

NoLostWakeup ==
    Waiting # {} => shutdown = "no" /\ count <= Cardinality(Fetching)

(* No thread touches a pool, an array, a mutex or a condition variable     *)
(* that is not initialised or already freed (threadpool.c:193-221).        *)
NoUseAfterFree == \A p \in Procs : pc[p] # "ub"

(* When the program is left without a pool, by a failed creation or a      *)
(* destroy, every part was freed and every worker has ended.               *)
Reclaimed ==
    handle \in {"null", "gone"} =>
        /\ \A m \in Parts : mem[m] # "live"
        /\ \A w \in Workers : pc[w] \in {"unborn", "dead"}

(* Of the threads that call threadpool_destroy at most one gets as far as  *)
(* joining the workers and freeing the pool (threadpool.c:165-168).        *)
OneDestroyer ==
    \A c, d \in Callers :
        {pc[c], pc[d]} \subseteq {"join", "free", "free_lock"} => c = d

(* A task that was accepted is executed, unless the pool is shut down the  *)
(* immediate way; in particular a graceful shutdown executes it.           *)
EveryTaskRuns ==
    \A t \in Tasks :
        (\E i \in DOMAIN accepted : accepted[i] = t)
            ~> (runs[t] > 0 \/ shutdown = "immediate")

(* A call of threadpool_destroy returns.                                   *)
DestroyReturns == \A c \in Callers : pc[c] = "dst_lock" ~> pc[c] = "idle"

(* The pool is a queue of tasks served by ThreadCount servers.             *)
TP == INSTANCE TaskPool WITH
        Capacity  <- QueueSize,
        Servers   <- ThreadCount,
        running   <- {job[w] : w \in {v \in Workers :
                                       pc[v] \in {"run", "add_lock", "add"}}},
        completed <- {t \in Tasks : runs[t] > 0},
        mode      <- IF mem["pool"] = "gone" THEN "closed"
                     ELSE IF shutdown = "no" THEN "open"
                     ELSE shutdown
ImplementsTaskPool == TP!Spec
=============================================================================
