------------------------------- MODULE PoolProofs -----------------------------
(***************************************************************************)
(* Proofs about ThreadPool for any number of workers, slots, callers and   *)
(* tasks, and whatever may fail, overlap or nest, and about the programs   *)
(* that use it.                                                            *)
(*                                                                         *)
(* The inductive invariant is IInv: the types, MutualExclusion, and        *)
(* BufferInv, which adds to BufferHoldsPending what a thread between two   *)
(* steps of a critical section relies on.  Mutual exclusion is what keeps  *)
(* the index a thread computed, and the task a worker read, valid until    *)
(* it uses them.                                                           *)
(*                                                                         *)
(* The second part is about the life of a pool, from threadpool_create to  *)
(* threadpool_free.  LifeInv adds to IInv where each thread can be, that   *)
(* started counts the workers that live, and that nobody can be waiting    *)
(* for work at a pool that is being taken apart; with these OneDestroyer   *)
(* and NoLostWakeup are inductive.                                         *)
(*                                                                         *)
(* The third part is about a program that keeps to Calm.  Its invariant    *)
(* CalmInv says which parts of the pool are live at each stage of its      *)
(* life, from which follow LockReleased, NoUseAfterFree and Reclaimed.     *)
(*                                                                         *)
(* The fourth part is that the pool implements TaskPool.  TaskInv relates  *)
(* the history of the tasks to the threads: a task is in the hands of one  *)
(* thread at a time, from threadpool_add through the queue to the worker   *)
(* that runs it.                                                           *)
(*                                                                         *)
(* The fifth part is about the programs (PoolMain and RedPacket), for any  *)
(* number of threads, slots and tasks that fit in the queue, and for any   *)
(* amount of money.  A step of the program is a step of the pool or leaves *)
(* the pool alone, so that all that is proved about the pool holds in the  *)
(* program too; the invariant PInv adds what main knows at each of its     *)
(* stages, and that the tasks a worker has dequeued are those it counted   *)
(* and those it is still to count.                                         *)
(***************************************************************************)
EXTENDS RedPacket, FiniteSetTheorems, TLAPS

CtlType    == lock \in Procs \cup {NoThread} /\ pc \in [Procs -> Locations]
BufferType == /\ queue \in [0..QueueSize-1 -> Tasks \cup {NoTask}]
              /\ head \in 0..QueueSize-1 /\ tail \in 0..QueueSize-1
              /\ count \in Int
FieldsType == /\ shutdown \in {"no", "immediate", "graceful"}
              /\ started \in Int /\ thread_count \in Nat
MemoryType == /\ mem \in [Parts -> {"none", "live", "gone"}]
              /\ handle \in {"none", "ok", "null", "gone"}
CallsType  == /\ arg \in [Procs -> Tasks \cup {NoTask}]
              /\ next \in [Procs -> 0..QueueSize-1]
              /\ flags \in [Callers -> {"immediate", "graceful"}]
              /\ ret \in [Procs -> {"ok", "queue_full", "shutdown"}]
JobType    == job \in [Workers -> Tasks \cup {NoTask}]
HistType   == /\ accepted \in Seq(Tasks) /\ taken \in Nat
              /\ runs \in [Tasks -> Nat]
              /\ todo \subseteq Tasks
ArgInv     == \A p \in Procs : pc[p] \in {"add_lock", "add"} => arg[p] \in Tasks

Types == /\ CtlType /\ BufferType /\ FieldsType /\ MemoryType
         /\ CallsType /\ JobType /\ HistType /\ ArgInv

-----------------------------------------------------------------------------
(* The queue has at least one slot, and there is at least one worker.      *)
LEMMA SizeFact == QueueSize \in Nat /\ QueueSize > 0
  BY SizeAssumption
LEMMA CountFact == ThreadCount \in Nat /\ ThreadCount > 0
  BY SizeAssumption

(* The elements of Locations, so that the set need not be expanded.        *)
LEMMA LocationsFact ==
    /\ "idle" \in Locations /\ "spawn" \in Locations /\ "count" \in Locations
    /\ "add_lock" \in Locations /\ "add" \in Locations /\ "dst" \in Locations
    /\ "dst_lock" \in Locations /\ "join" \in Locations /\ "free" \in Locations
    /\ "free_lock" \in Locations /\ "lock" \in Locations /\ "ub" \in Locations
    /\ "check" \in Locations /\ "wait" \in Locations /\ "take" \in Locations
    /\ "run" \in Locations /\ "dead" \in Locations /\ "create" \in Locations
    /\ "unborn" \in Locations
  BY DEF Locations

(* A group of variables that does not change keeps its type.               *)
LEMMA Frame ==
    /\ BufferType /\ UNCHANGED buffer => BufferType'
    /\ FieldsType /\ UNCHANGED fields => FieldsType'
    /\ MemoryType /\ UNCHANGED memory => MemoryType'
    /\ CallsType /\ UNCHANGED calls => CallsType'
    /\ JobType /\ UNCHANGED job => JobType'
    /\ HistType /\ UNCHANGED hist => HistType'
  BY DEF BufferType, FieldsType, MemoryType, CallsType, JobType, HistType,
         buffer, fields, memory, calls, hist

(* The index after tail or head is an index.                               *)
LEMMA WrapType ==
    ASSUME NEW i \in 0..QueueSize-1
    PROVE  Wrap(i + 1) \in 0..QueueSize-1
  BY SizeFact DEF Wrap

(* Counting up one value of a function to Nat, in its domain or not.       *)
LEMMA CountUp ==
    ASSUME NEW S, NEW f \in [S -> Nat], NEW x
    PROVE  [f EXCEPT ![x] = @ + 1] \in [S -> Nat]
<1>1. CASE x \in S
  <2>1. f[x] + 1 \in Nat
    BY <1>1
  <2>2. QED
    BY <2>1
<1>2. CASE x \notin S
  <2>1. [f EXCEPT ![x] = f[x] + 1] = f
    BY <1>2
  <2>2. QED
    BY <2>1
<1>3. QED
  BY <1>1, <1>2

(* The initial state is well typed.                                        *)
LEMMA TypesInit == Init => Types
<1> SUFFICES ASSUME Init PROVE Types
  OBVIOUS
<1>1. CtlType
  <2>1. lock = NoThread
    BY DEF Init
  <2>2. pc \in [Procs -> Locations]
    BY LocationsFact DEF Init
  <2>3. QED
    BY <2>1, <2>2 DEF CtlType
<1>2. BufferType
  <2>1. head = 0 /\ tail = 0 /\ count = 0
    BY DEF Init
  <2>2. queue \in [0..QueueSize-1 -> Tasks \cup {NoTask}]
    BY DEF Init
  <2>3. QED
    BY <2>1, <2>2, SizeFact DEF BufferType
<1> USE DEF Init
<1>3. FieldsType
  BY DEF FieldsType
<1>4. MemoryType
  BY DEF MemoryType
<1>5. JobType
  BY DEF JobType
<1>6. HistType
  BY DEF HistType
<1>7. CallsType
  BY SizeFact DEF CallsType
<1>8. ArgInv
  BY DEF ArgInv
<1>9. QED
  BY <1>1, <1>2, <1>3, <1>4, <1>5, <1>6, <1>7, <1>8 DEF Types

(* Every step keeps the types: one step per action, and under it one step  *)
(* for the locations and one for each group of variables it changes.       *)
LEMMA TypesStep == Types /\ [Next]_vars => Types'
<1> SUFFICES ASSUME Types, [Next]_vars PROVE Types'
  OBVIOUS
<1> USE NamesAssumption
<1>1. CASE UNCHANGED vars
  <2>1. CtlType' /\ ArgInv'
    BY <1>1 DEF Types, CtlType, ArgInv, vars, calls
  <2>2. QED
    BY <1>1, <2>1, Frame DEF Types, vars
<1>2. CASE Create
  <2>1. CtlType'
    BY <1>2, LocationsFact DEF Types, CtlType, Create, CreateFails, Goto, Procs
  <2>2. ArgInv'
    BY <1>2 DEF Types, CtlType, CallsType, ArgInv, Create, CreateFails, Goto, Procs, calls
  <2>3. MemoryType'
    BY <1>2 DEF Types, MemoryType, Create, CreateFails
  <2>4. QED
    BY <1>2, <2>1, <2>2, <2>3, Frame DEF Types, Create
<1>3. CASE Spawn
  <2>1. CtlType'
    BY <1>3, LocationsFact DEF Types, CtlType, Spawn, Goto, Procs
  <2>2. ArgInv'
    BY <1>3 DEF Types, CtlType, CallsType, ArgInv, Spawn, Goto, Procs
  <2>3. CallsType'
    BY <1>3 DEF Types, CallsType, Spawn
  <2>4. QED
    BY <1>3, <2>1, <2>2, <2>3, Frame DEF Types, Spawn
<1>4. CASE CountThread
  <2>1. CtlType'
    BY <1>4, LocationsFact DEF Types, CtlType, CountThread, Goto, Procs
  <2>2. ArgInv'
    BY <1>4 DEF Types, CtlType, CallsType, ArgInv, CountThread, Goto, Procs, calls
  <2>3. FieldsType'
    BY <1>4 DEF Types, FieldsType, CountThread
  <2>4. MemoryType'
    BY <1>4 DEF Types, MemoryType, CountThread
  <2>5. QED
    BY <1>4, <2>1, <2>2, <2>3, <2>4, Frame DEF Types, CountThread
<1>5. ASSUME NEW p \in Procs, NEW t \in Tasks, AddCall(p, t) PROVE Types'
  <2>1. CtlType'
    BY <1>5, LocationsFact DEF Types, CtlType, AddCall, Goto, Procs
  <2>2. ArgInv'
    BY <1>5 DEF Types, CtlType, CallsType, ArgInv, AddCall, Goto, Procs
  <2>3. CallsType'
    BY <1>5 DEF Types, CallsType, AddCall
  <2>4. HistType'
    BY <1>5 DEF Types, HistType, AddCall
  <2>5. QED
    BY <1>5, <2>1, <2>2, <2>3, <2>4, Frame DEF Types, AddCall
<1>6. ASSUME NEW p \in Procs, AddLock(p) PROVE Types'
  <2>1. CtlType'
    BY <1>6, LocationsFact DEF Types, CtlType, AddLock, At, Goto, Procs
  <2>2. ArgInv'
    BY <1>6 DEF Types, CtlType, CallsType, ArgInv, AddLock, At, Goto, Procs
  <2>3. CallsType'
    BY <1>6, WrapType DEF Types, CallsType, AddLock, BufferType
  <2>4. QED
    BY <1>6, <2>1, <2>2, <2>3, Frame DEF Types, AddLock
<1>7. ASSUME NEW p \in Procs, NEW r \in {"queue_full", "shutdown"}, AddRefuse(p, r) PROVE Types'
  <2>1. CtlType'
    BY <1>7, LocationsFact DEF Types, CtlType, AddRefuse, At, Return, Goto, Procs
  <2>2. ArgInv'
    BY <1>7 DEF Types, CtlType, CallsType, ArgInv, AddRefuse, At, Return, Goto, Procs
  <2>3. CallsType'
    BY <1>7 DEF Types, CallsType, AddRefuse, Return
  <2>4. HistType'
    BY <1>7 DEF Types, HistType, AddRefuse, ArgInv, At
  <2>5. QED
    BY <1>7, <2>1, <2>2, <2>3, <2>4, Frame DEF Types, AddRefuse
<1>8. ASSUME NEW p \in Procs, AddStore(p) PROVE Types'
  <2>1. CtlType'
    BY <1>8, LocationsFact DEF Types, CtlType, AddStore, At, AfterSignal, Waiting, Goto, Procs
  <2>2. ArgInv'
    BY <1>8 DEF Types, CtlType, CallsType, ArgInv, AddStore, At, AfterSignal, Waiting, Goto, Procs
  <2>3. BufferType'
    BY <1>8 DEF Types, BufferType, AddStore, CallsType
  <2>4. CallsType'
    BY <1>8 DEF Types, CallsType, AddStore
  <2>5. HistType'
    BY <1>8 DEF Types, HistType, AddStore, ArgInv, At
  <2>6. QED
    BY <1>8, <2>1, <2>2, <2>3, <2>4, <2>5, Frame DEF Types, AddStore
<1>9. ASSUME NEW c \in Callers, NEW f \in {"immediate", "graceful"}, DestroyCall(c, f) PROVE Types'
  <2>1. CtlType'
    BY <1>9, LocationsFact DEF Types, CtlType, DestroyCall, Goto, Procs
  <2>2. ArgInv'
    BY <1>9 DEF Types, CtlType, CallsType, ArgInv, DestroyCall, Goto, Procs
  <2>3. CallsType'
    BY <1>9 DEF Types, CallsType, DestroyCall
  <2>4. QED
    BY <1>9, <2>1, <2>2, <2>3, Frame DEF Types, DestroyCall
<1>10. ASSUME NEW c \in Callers, DestroyLock(c) PROVE Types'
  <2>1. CtlType'
    BY <1>10, LocationsFact DEF Types, CtlType, DestroyLock, At, Goto, Procs
  <2>2. ArgInv'
    BY <1>10 DEF Types, CtlType, CallsType, ArgInv, DestroyLock, At, Goto, Procs, calls
  <2>3. QED
    BY <1>10, <2>1, <2>2, Frame DEF Types, DestroyLock
<1>11. ASSUME NEW c \in Callers, DestroyAgain(c) PROVE Types'
  <2>1. CtlType'
    BY <1>11, LocationsFact DEF Types, CtlType, DestroyAgain, At, Return, Goto, Procs
  <2>2. ArgInv'
    BY <1>11 DEF Types, CtlType, CallsType, ArgInv, DestroyAgain, At, Return, Goto, Procs
  <2>3. CallsType'
    BY <1>11 DEF Types, CallsType, DestroyAgain, Return
  <2>4. QED
    BY <1>11, <2>1, <2>2, <2>3, Frame DEF Types, DestroyAgain
<1>12. ASSUME NEW c \in Callers, DestroyBegin(c) PROVE Types'
  <2>1. CtlType'
    BY <1>12, LocationsFact DEF Types, CtlType, DestroyBegin, At, AfterBroadcast, Procs
  <2>2. ArgInv'
    BY <1>12 DEF Types, CtlType, CallsType, ArgInv, DestroyBegin, At, AfterBroadcast, Procs, calls
  <2>3. FieldsType'
    BY <1>12 DEF Types, FieldsType, DestroyBegin, CallsType
  <2>4. QED
    BY <1>12, <2>1, <2>2, <2>3, Frame DEF Types, DestroyBegin
<1>13. ASSUME NEW c \in Callers, DestroyJoin(c) PROVE Types'
  <2>1. CtlType'
    BY <1>13, LocationsFact DEF Types, CtlType, DestroyJoin, At, Goto, Procs
  <2>2. ArgInv'
    BY <1>13 DEF Types, CtlType, CallsType, ArgInv, DestroyJoin, At, Goto, Procs, calls
  <2>3. QED
    BY <1>13, <2>1, <2>2, Frame DEF Types, DestroyJoin
<1>14. ASSUME NEW c \in Callers, FreeArrays(c) PROVE Types'
  <2>1. CtlType'
    BY <1>14, LocationsFact DEF Types, CtlType, FreeArrays, At, Leave, Return, Goto, Procs
  <2>2. ArgInv'
    BY <1>14 DEF Types, CtlType, CallsType, ArgInv, FreeArrays, At, Leave, Return, Goto, Procs
  <2>3. MemoryType'
    BY <1>14 DEF Types, MemoryType, FreeArrays, Leave, Return, Released
  <2>4. CallsType'
    BY <1>14 DEF Types, CallsType, FreeArrays, Leave, Return
  <2>5. QED
    BY <1>14, <2>1, <2>2, <2>3, <2>4, Frame DEF Types, FreeArrays
<1>15. ASSUME NEW c \in Callers, FreeRest(c) PROVE Types'
  <2>1. CtlType'
    BY <1>15, LocationsFact DEF Types, CtlType, FreeRest, At, Leave, Return, Goto, Procs
  <2>2. ArgInv'
    BY <1>15 DEF Types, CtlType, CallsType, ArgInv, FreeRest, At, Leave, Return, Goto, Procs
  <2>3. MemoryType'
    BY <1>15 DEF Types, MemoryType, FreeRest, Leave, Return, Released
  <2>4. CallsType'
    BY <1>15 DEF Types, CallsType, FreeRest, Leave, Return
  <2>5. QED
    BY <1>15, <2>1, <2>2, <2>3, <2>4, Frame DEF Types, FreeRest
<1>16. ASSUME NEW w \in Workers, WorkerLock(w) PROVE Types'
  <2>1. CtlType'
    BY <1>16, LocationsFact DEF Types, CtlType, WorkerLock, At, Goto, Procs
  <2>2. ArgInv'
    BY <1>16 DEF Types, CtlType, CallsType, ArgInv, WorkerLock, At, Goto, Procs, calls
  <2>3. QED
    BY <1>16, <2>1, <2>2, Frame DEF Types, WorkerLock
<1>17. ASSUME NEW w \in Workers, WorkerWait(w) PROVE Types'
  <2>1. CtlType'
    BY <1>17, LocationsFact DEF Types, CtlType, WorkerWait, At, Goto, Procs
  <2>2. ArgInv'
    BY <1>17 DEF Types, CtlType, CallsType, ArgInv, WorkerWait, At, Goto, Procs, calls
  <2>3. QED
    BY <1>17, <2>1, <2>2, Frame DEF Types, WorkerWait
<1>18. ASSUME NEW w \in Workers, WorkerExit(w) PROVE Types'
  <2>1. CtlType'
    BY <1>18, LocationsFact DEF Types, CtlType, WorkerExit, At, Goto, Procs
  <2>2. ArgInv'
    BY <1>18 DEF Types, CtlType, CallsType, ArgInv, WorkerExit, At, Goto, Procs, calls
  <2>3. FieldsType'
    BY <1>18 DEF Types, FieldsType, WorkerExit
  <2>4. QED
    BY <1>18, <2>1, <2>2, <2>3, Frame DEF Types, WorkerExit
<1>19. ASSUME NEW w \in Workers, WorkerGrab(w) PROVE Types'
  <2>1. CtlType'
    BY <1>19, LocationsFact DEF Types, CtlType, WorkerGrab, At, Goto, Procs
  <2>2. ArgInv'
    BY <1>19 DEF Types, CtlType, CallsType, ArgInv, WorkerGrab, At, Goto, Procs, calls
  <2>3. JobType'
    BY <1>19 DEF Types, JobType, WorkerGrab, BufferType
  <2>4. QED
    BY <1>19, <2>1, <2>2, <2>3, Frame DEF Types, WorkerGrab
<1>20. ASSUME NEW w \in Workers, WorkerTake(w) PROVE Types'
  <2>1. CtlType'
    BY <1>20, LocationsFact DEF Types, CtlType, WorkerTake, At, Goto, Procs
  <2>2. ArgInv'
    BY <1>20 DEF Types, CtlType, CallsType, ArgInv, WorkerTake, At, Goto, Procs, calls
  <2>3. BufferType'
    BY <1>20, WrapType DEF Types, BufferType, WorkerTake
  <2>4. HistType'
    BY <1>20 DEF Types, HistType, WorkerTake
  <2>5. QED
    BY <1>20, <2>1, <2>2, <2>3, <2>4, Frame DEF Types, WorkerTake
<1>21. ASSUME NEW w \in Workers, WorkerDone(w) PROVE Types'
  <2>1. CtlType'
    BY <1>21, LocationsFact DEF Types, CtlType, WorkerDone, At, Goto, Procs
  <2>2. ArgInv'
    BY <1>21 DEF Types, CtlType, CallsType, ArgInv, WorkerDone, At, Goto, Procs, calls
  <2>3. HistType'
    BY <1>21, CountUp DEF Types, HistType, WorkerDone
  <2>4. QED
    BY <1>21, <2>1, <2>2, <2>3, Frame DEF Types, WorkerDone
<1>22. ASSUME NEW w \in Workers, SpuriousWakeup(w) PROVE Types'
  <2>1. CtlType'
    BY <1>22, LocationsFact DEF Types, CtlType, SpuriousWakeup, At, Goto, Procs
  <2>2. ArgInv'
    BY <1>22 DEF Types, CtlType, CallsType, ArgInv, SpuriousWakeup, At, Goto, Procs, calls
  <2>3. QED
    BY <1>22, <2>1, <2>2, Frame DEF Types, SpuriousWakeup
<1>23. ASSUME NEW p \in Procs, Undefined(p) PROVE Types'
  <2>1. CtlType'
    BY <1>23, LocationsFact DEF Types, CtlType, Undefined, Goto, Procs
  <2>2. ArgInv'
    BY <1>23 DEF Types, CtlType, CallsType, ArgInv, Undefined, Goto, Procs, calls
  <2>3. QED
    BY <1>23, <2>1, <2>2, Frame DEF Types, Undefined
<1>24. CASE Terminated
  BY <1>1, <1>24 DEF Terminated
<1>25. QED
  BY <1>1, <1>2, <1>3, <1>4, <1>5, <1>6, <1>7, <1>8, <1>9, <1>10, <1>11, <1>12, <1>13, <1>14, <1>15, <1>16, <1>17, <1>18, <1>19, <1>20, <1>21, <1>22, <1>23, <1>24
  DEF Next, AddStep, DestroyStep, WorkerStep

-----------------------------------------------------------------------------
(* No thread is in a critical section at first.                            *)
LEMMA MutualExclusionInit == Init => MutualExclusion
  BY DEF Init, MutualExclusion, Critical

(* Every step keeps mutual exclusion: a thread enters a critical section   *)
(* only by taking the free mutex, and a woken waiter only asks for it.     *)
LEMMA MutualExclusionStep ==
    Types /\ MutualExclusion /\ [Next]_vars => MutualExclusion'
<1> SUFFICES ASSUME Types, MutualExclusion, [Next]_vars PROVE MutualExclusion'
  OBVIOUS
<1> USE NamesAssumption DEF Types, CtlType, MutualExclusion, Critical
<1>1. CASE UNCHANGED vars
  BY <1>1 DEF vars
<1>2. CASE Create
  BY <1>2 DEF Create, CreateFails, Goto, Procs
<1>3. CASE Spawn
  BY <1>3 DEF Spawn, At, Goto, Procs
<1>4. CASE CountThread
  BY <1>4 DEF CountThread, At, Goto, Procs
<1>5. ASSUME NEW p \in Procs, NEW t \in Tasks, AddCall(p, t) PROVE MutualExclusion'
  BY <1>5 DEF AddCall, Goto, Procs
<1>6. ASSUME NEW p \in Procs, AddLock(p) PROVE MutualExclusion'
  BY <1>6 DEF AddLock, At, Goto, Procs
<1>7. ASSUME NEW p \in Procs, NEW r \in {"queue_full", "shutdown"}, AddRefuse(p, r) PROVE MutualExclusion'
  BY <1>7 DEF AddRefuse, At, Return, Goto, Procs
<1>8. ASSUME NEW p \in Procs, AddStore(p) PROVE MutualExclusion'
  BY <1>8 DEF AddStore, At, AfterSignal, Waiting, Goto, Procs
<1>9. ASSUME NEW c \in Callers, NEW f \in {"immediate", "graceful"}, DestroyCall(c, f) PROVE MutualExclusion'
  BY <1>9 DEF DestroyCall, Goto, Procs
<1>10. ASSUME NEW c \in Callers, DestroyLock(c) PROVE MutualExclusion'
  BY <1>10 DEF DestroyLock, At, Goto, Procs
<1>11. ASSUME NEW c \in Callers, DestroyAgain(c) PROVE MutualExclusion'
  BY <1>11 DEF DestroyAgain, At, Return, Goto, Procs
<1>12. ASSUME NEW c \in Callers, DestroyBegin(c) PROVE MutualExclusion'
  BY <1>12 DEF DestroyBegin, At, AfterBroadcast, Procs
<1>13. ASSUME NEW c \in Callers, DestroyJoin(c) PROVE MutualExclusion'
  BY <1>13 DEF DestroyJoin, At, Goto, Procs
<1>14. ASSUME NEW c \in Callers, FreeArrays(c) PROVE MutualExclusion'
  BY <1>14 DEF FreeArrays, At, Leave, Return, Goto, Procs
<1>15. ASSUME NEW c \in Callers, FreeRest(c) PROVE MutualExclusion'
  BY <1>15 DEF FreeRest, At, Leave, Return, Goto, Procs
<1>16. ASSUME NEW w \in Workers, WorkerLock(w) PROVE MutualExclusion'
  BY <1>16 DEF WorkerLock, At, Goto, Procs
<1>17. ASSUME NEW w \in Workers, WorkerWait(w) PROVE MutualExclusion'
  BY <1>17 DEF WorkerWait, At, Goto, Procs
<1>18. ASSUME NEW w \in Workers, WorkerExit(w) PROVE MutualExclusion'
  BY <1>18 DEF WorkerExit, At, Goto, Procs
<1>19. ASSUME NEW w \in Workers, WorkerGrab(w) PROVE MutualExclusion'
  BY <1>19 DEF WorkerGrab, At, Goto, Procs
<1>20. ASSUME NEW w \in Workers, WorkerTake(w) PROVE MutualExclusion'
  BY <1>20 DEF WorkerTake, At, Goto, Procs
<1>21. ASSUME NEW w \in Workers, WorkerDone(w) PROVE MutualExclusion'
  BY <1>21 DEF WorkerDone, At, Goto, Procs
<1>22. ASSUME NEW w \in Workers, SpuriousWakeup(w) PROVE MutualExclusion'
  BY <1>22 DEF SpuriousWakeup, At, Goto, Procs
<1>23. ASSUME NEW p \in Procs, Undefined(p) PROVE MutualExclusion'
  BY <1>23 DEF Undefined, Goto, Procs
<1>24. CASE Terminated
  BY <1>1, <1>24 DEF Terminated
<1>25. QED
  BY <1>1, <1>2, <1>3, <1>4, <1>5, <1>6, <1>7, <1>8, <1>9, <1>10, <1>11, <1>12, <1>13, <1>14, <1>15, <1>16, <1>17, <1>18, <1>19, <1>20, <1>21, <1>22, <1>23, <1>24
  DEF Next, AddStep, DestroyStep, WorkerStep

-----------------------------------------------------------------------------
(* BufferHoldsPending, the bounds of count, and what a thread between two  *)
(* steps of its critical section knows.                                    *)
LocalInv == /\ \A p \in Procs : pc[p] = "add" => next[p] = Wrap(tail + 1)
            /\ \A w \in Workers :
                 pc[w] = "take" => count > 0 /\ job[w] = queue[head]

BufferInv == BufferHoldsPending /\ 0 <= count /\ count <= QueueSize /\ LocalInv

(* The ring is empty at first.                                             *)
LEMMA BufferInvInit == Init => BufferInv
<1> SUFFICES ASSUME Init PROVE BufferInv
  OBVIOUS
<1>1. head = 0 /\ tail = 0 /\ count = 0 /\ accepted = <<>> /\ taken = 0
  BY DEF Init
<1>2. BufferHoldsPending
  BY <1>1, SizeFact DEF BufferHoldsPending, Slot, Wrap
<1>3. \A p \in Procs : pc[p] # "add" /\ pc[p] # "take"
  BY DEF Init
<1>4. LocalInv
  BY <1>3 DEF LocalInv, Procs
<1>5. QED
  BY <1>1, <1>2, <1>4, SizeFact DEF BufferInv

(* A step that leaves the ring alone and lets no thread reach one of the   *)
(* two locations that rely on it.                                          *)
LEMMA BufferInvQuiet ==
    ASSUME BufferInv, UNCHANGED <<buffer, accepted, taken, next, job>>,
           \A p \in Procs : pc'[p] \in {"add", "take"} => pc'[p] = pc[p]
    PROVE  BufferInv'
<1>1. BufferHoldsPending'
  BY DEF BufferInv, BufferHoldsPending, Slot, Wrap, buffer
<1>2. \A p \in Procs : pc'[p] = "add" => next'[p] = Wrap(tail + 1)'
  BY DEF BufferInv, LocalInv, Wrap, buffer
<1>3. \A w \in Workers : pc'[w] = "take" => count' > 0 /\ job'[w] = queue'[head']
  BY DEF BufferInv, LocalInv, buffer, Procs
<1>4. 0 <= count' /\ count' <= QueueSize
  BY DEF BufferInv, buffer
<1>5. QED
  BY <1>1, <1>2, <1>3, <1>4 DEF BufferInv, LocalInv

(* Writing the slot after n pending tasks leaves those n alone.            *)
LEMMA SlotsDiffer ==
    ASSUME NEW i \in 0..QueueSize-1, NEW n \in 0..QueueSize-1, i < n,
           head \in 0..QueueSize-1
    PROVE  Slot(i) # Slot(n)
  BY SizeFact DEF Slot, Wrap

LEMMA SlotType ==
    ASSUME NEW i \in 0..QueueSize-1, head \in 0..QueueSize-1
    PROVE  Slot(i) \in 0..QueueSize-1
  BY SizeFact DEF Slot, Wrap

(* Enqueueing: the slot at tail is the first free one.                     *)
LEMMA BufferInvStore ==
    ASSUME Types, MutualExclusion, BufferInv, NEW p \in Procs, AddStore(p)
    PROVE  BufferInv'
<1>1. /\ queue \in [0..QueueSize-1 -> Tasks \cup {NoTask}]
      /\ head \in 0..QueueSize-1 /\ tail \in 0..QueueSize-1
      /\ accepted \in Seq(Tasks) /\ taken \in Nat
  BY DEF Types, BufferType, HistType
<1>2. arg[p] \in Tasks
  BY DEF Types, ArgInv, AddStore, At
<1>3. count \in 0..QueueSize-1
  BY SizeFact DEF AddStore, Full, BufferInv, Types, BufferType
<1>4. /\ head' = head /\ count' = count + 1 /\ taken' = taken
      /\ queue' = [queue EXCEPT ![tail] = arg[p]]
      /\ accepted' = Append(accepted, arg[p])
  BY DEF AddStore
<1>5. tail' = Wrap(tail + 1)
  BY DEF AddStore, At, BufferInv, LocalInv
<1>6. tail = Slot(count) /\ count = Len(accepted) - taken
  BY DEF BufferInv, BufferHoldsPending
<1>7. tail' = Slot(count)'
  BY <1>1, <1>3, <1>4, <1>5, <1>6, SizeFact, SMTT(30) DEF Slot, Wrap
<1>8. Len(accepted) \in Nat /\ Len(accepted') = Len(accepted) + 1
  BY <1>1, <1>2, <1>4
<1>9. ASSUME NEW i \in 0..QueueSize-1, i < count'
      PROVE  queue'[Slot(i)'] = accepted'[taken' + 1 + i]
  <2>1. Slot(i)' = Slot(i) /\ Slot(i) \in 0..QueueSize-1
    BY <1>1, <1>4, SlotType DEF Slot, Wrap
  <2>2. CASE i = count
    <3>1. queue'[tail] = arg[p]
      BY <1>1, <1>4
    <3>2. taken' + 1 + i = Len(accepted) + 1
      BY <1>1, <1>3, <1>4, <1>6, <1>8, <2>2
    <3>3. accepted'[Len(accepted) + 1] = arg[p]
      BY <1>1, <1>2, <1>4
    <3>4. QED
      BY <1>6, <2>1, <2>2, <3>1, <3>2, <3>3
  <2>3. CASE i < count
    <3>1. Slot(i) # tail
      BY <1>1, <1>3, <1>6, <2>3, SlotsDiffer
    <3>2. queue[Slot(i)] = accepted[taken + 1 + i]
      BY <2>3 DEF BufferInv, BufferHoldsPending
    <3>3. taken + 1 + i \in 1..Len(accepted)
      BY <1>1, <1>3, <1>6, <1>8, <2>3
    <3>4. accepted'[taken + 1 + i] = accepted[taken + 1 + i]
      BY <1>1, <1>2, <1>4, <3>3
    <3>5. queue'[Slot(i)] = queue[Slot(i)]
      BY <1>1, <1>4, <2>1, <3>1
    <3>6. QED
      BY <1>4, <2>1, <3>2, <3>4, <3>5
  <2>4. i = count \/ i < count
    BY <1>3, <1>4, <1>9
  <2>5. QED
    BY <2>2, <2>3, <2>4
<1>10. BufferHoldsPending'
  <2>1. count' = Len(accepted') - taken'
    BY <1>1, <1>3, <1>4, <1>6, <1>8
  <2>2. QED
    BY <1>7, <1>9, <2>1 DEF BufferHoldsPending
<1>11. \A q \in Procs : pc'[q] # "add" /\ pc'[q] # "take"
  <2>1. \A q \in Procs : q # p => pc[q] # "add" /\ pc[q] # "take"
    BY DEF MutualExclusion, Critical, AddStore, At
  <2>2. QED
    BY <2>1 DEF Types, CtlType, AddStore, AfterSignal, Goto, Waiting
<1>12. LocalInv'
  BY <1>11 DEF LocalInv, Procs
<1>13. QED
  BY <1>3, <1>4, <1>10, <1>12, SizeFact DEF BufferInv

(* Dequeueing: the slot at head is the oldest pending task.                *)
LEMMA BufferInvTake ==
    ASSUME Types, MutualExclusion, BufferInv, NEW w \in Workers, WorkerTake(w)
    PROVE  BufferInv'
<1>1. /\ head \in 0..QueueSize-1 /\ tail \in 0..QueueSize-1
      /\ accepted \in Seq(Tasks) /\ taken \in Nat
  BY DEF Types, BufferType, HistType
<1>2. count \in 1..QueueSize
  BY SizeFact DEF WorkerTake, At, BufferInv, LocalInv, Types, BufferType
<1>3. /\ head' = Wrap(head + 1) /\ tail' = tail /\ count' = count - 1
      /\ queue' = queue /\ accepted' = accepted /\ taken' = taken + 1
  BY DEF WorkerTake
<1>4. tail = Slot(count) /\ count = Len(accepted) - taken
  BY DEF BufferInv, BufferHoldsPending
<1>5. tail' = Slot(count)'
  BY <1>1, <1>2, <1>3, <1>4, SizeFact DEF Slot, Wrap
<1>6. ASSUME NEW i \in 0..QueueSize-1, i < count'
      PROVE  queue'[Slot(i)'] = accepted'[taken' + 1 + i]
  <2>1. i + 1 \in 0..QueueSize-1 /\ i + 1 < count
    BY <1>2, <1>3, <1>6, SizeFact
  <2>2. Slot(i)' = Slot(i + 1)
    BY <1>1, <1>3, <2>1, SizeFact DEF Slot, Wrap
  <2>3. queue[Slot(i + 1)] = accepted[taken + 1 + (i + 1)]
    BY <2>1 DEF BufferInv, BufferHoldsPending
  <2>4. taken' + 1 + i = taken + 1 + (i + 1)
    BY <1>1, <1>3
  <2>5. QED
    BY <1>3, <2>2, <2>3, <2>4
<1>7. BufferHoldsPending'
  <2>1. Len(accepted) \in Nat
    BY <1>1
  <2>2. count' = Len(accepted') - taken'
    BY <1>1, <1>2, <1>3, <1>4, <2>1
  <2>3. QED
    BY <1>5, <1>6, <2>2 DEF BufferHoldsPending
<1>8. \A q \in Procs : pc'[q] # "add" /\ pc'[q] # "take"
  <2>1. \A q \in Procs : q # w => pc[q] # "add" /\ pc[q] # "take"
    BY DEF MutualExclusion, Critical, WorkerTake, At, Procs
  <2>2. QED
    BY <2>1 DEF Types, CtlType, WorkerTake, Goto
<1>9. LocalInv'
  BY <1>8 DEF LocalInv, Procs
<1>10. QED
  BY <1>2, <1>3, <1>7, <1>9, SizeFact DEF BufferInv

(* Computing next under the mutex.                                         *)
LEMMA BufferInvLock ==
    ASSUME Types, MutualExclusion, BufferInv, NEW p \in Procs, AddLock(p)
    PROVE  BufferInv'
<1>1. \A q \in Procs : q # p => pc[q] # "add" /\ pc[q] # "take"
  BY NamesAssumption DEF MutualExclusion, Critical, AddLock
<1>2. pc'[p] = "add" /\ \A q \in Procs : q # p => pc'[q] = pc[q]
  BY DEF Types, CtlType, AddLock, Goto
<1>3. next'[p] = Wrap(tail + 1)
  BY DEF Types, CallsType, AddLock
<1>4. UNCHANGED buffer /\ UNCHANGED <<accepted, taken>>
  BY DEF AddLock, hist
<1>5. BufferHoldsPending' /\ 0 <= count' /\ count' <= QueueSize
  BY <1>4 DEF BufferInv, BufferHoldsPending, Slot, Wrap, buffer
<1>6. LocalInv'
  BY <1>1, <1>2, <1>3, <1>4 DEF LocalInv, Wrap, buffer, Procs
<1>7. QED
  BY <1>5, <1>6 DEF BufferInv

(* Reading the task at head under the mutex.                               *)
LEMMA BufferInvGrab ==
    ASSUME Types, MutualExclusion, BufferInv, NEW w \in Workers, WorkerGrab(w)
    PROVE  BufferInv'
<1>1. \A q \in Procs : q # w => pc[q] # "add" /\ pc[q] # "take"
  BY DEF MutualExclusion, Critical, WorkerGrab, At, Procs
<1>2. pc'[w] = "take" /\ \A q \in Procs : q # w => pc'[q] = pc[q]
  BY DEF Types, CtlType, WorkerGrab, Goto, Procs
<1>3. job'[w] = queue[head]
  BY DEF Types, JobType, WorkerGrab
<1>4. UNCHANGED buffer /\ UNCHANGED <<accepted, taken>>
  BY DEF WorkerGrab, hist
<1>5. count > 0
  BY DEF Types, BufferType, FieldsType, BufferInv, WorkerGrab, MustWait,
         MustExit, ShutDown
<1>6. BufferHoldsPending' /\ 0 <= count' /\ count' <= QueueSize
  BY <1>4 DEF BufferInv, BufferHoldsPending, Slot, Wrap, buffer
<1>7. LocalInv'
  BY <1>1, <1>2, <1>3, <1>4, <1>5 DEF LocalInv, buffer, Procs
<1>8. QED
  BY <1>6, <1>7 DEF BufferInv

(* Every step keeps BufferInv.                                             *)
LEMMA BufferInvStep ==
    Types /\ MutualExclusion /\ BufferInv /\ [Next]_vars => BufferInv'
<1> SUFFICES ASSUME Types, MutualExclusion, BufferInv, [Next]_vars
             PROVE  BufferInv'
  OBVIOUS
<1>1. CASE UNCHANGED vars
  BY <1>1, BufferInvQuiet DEF vars, calls, hist
<1>2. CASE Create
  <2>1. \A q \in Procs : pc'[q] \in {"add", "take"} => pc'[q] = pc[q]
    BY <1>2 DEF Types, CtlType, Create, CreateFails, Goto, Procs
  <2>2. QED
    BY <1>2, <2>1, BufferInvQuiet DEF Create, calls, hist
<1>3. CASE Spawn
  <2>1. \A q \in Procs : pc'[q] \in {"add", "take"} => pc'[q] = pc[q]
    BY <1>3 DEF Types, CtlType, Spawn, Goto, Procs
  <2>2. QED
    BY <1>3, <2>1, BufferInvQuiet DEF Spawn, hist
<1>4. CASE CountThread
  <2>1. \A q \in Procs : pc'[q] \in {"add", "take"} => pc'[q] = pc[q]
    BY <1>4 DEF Types, CtlType, CountThread, Goto, Procs
  <2>2. QED
    BY <1>4, <2>1, BufferInvQuiet DEF CountThread, calls, hist
<1>5. ASSUME NEW p \in Procs, NEW t \in Tasks, AddCall(p, t) PROVE BufferInv'
  <2>1. \A q \in Procs : pc'[q] \in {"add", "take"} => pc'[q] = pc[q]
    BY <1>5 DEF Types, CtlType, AddCall, Goto, Procs
  <2>2. QED
    BY <1>5, <2>1, BufferInvQuiet DEF AddCall
<1>6. ASSUME NEW p \in Procs, AddLock(p) PROVE BufferInv'
  BY <1>6, BufferInvLock
<1>7. ASSUME NEW p \in Procs, NEW r \in {"queue_full", "shutdown"}, AddRefuse(p, r) PROVE BufferInv'
  <2>1. \A q \in Procs : pc'[q] \in {"add", "take"} => pc'[q] = pc[q]
    BY <1>7 DEF Types, CtlType, AddRefuse, At, Return, Goto, Procs
  <2>2. QED
    BY <1>7, <2>1, BufferInvQuiet DEF AddRefuse
<1>8. ASSUME NEW p \in Procs, AddStore(p) PROVE BufferInv'
  BY <1>8, BufferInvStore
<1>9. ASSUME NEW c \in Callers, NEW f \in {"immediate", "graceful"}, DestroyCall(c, f) PROVE BufferInv'
  <2>1. \A q \in Procs : pc'[q] \in {"add", "take"} => pc'[q] = pc[q]
    BY <1>9 DEF Types, CtlType, DestroyCall, Goto, Procs
  <2>2. QED
    BY <1>9, <2>1, BufferInvQuiet DEF DestroyCall, hist
<1>10. ASSUME NEW c \in Callers, DestroyLock(c) PROVE BufferInv'
  <2>1. \A q \in Procs : pc'[q] \in {"add", "take"} => pc'[q] = pc[q]
    BY <1>10 DEF Types, CtlType, DestroyLock, At, Goto, Procs
  <2>2. QED
    BY <1>10, <2>1, BufferInvQuiet DEF DestroyLock, calls, hist
<1>11. ASSUME NEW c \in Callers, DestroyAgain(c) PROVE BufferInv'
  <2>1. \A q \in Procs : pc'[q] \in {"add", "take"} => pc'[q] = pc[q]
    BY <1>11 DEF Types, CtlType, DestroyAgain, At, Return, Goto, Procs
  <2>2. QED
    BY <1>11, <2>1, BufferInvQuiet DEF DestroyAgain, hist
<1>12. ASSUME NEW c \in Callers, DestroyBegin(c) PROVE BufferInv'
  <2>1. \A q \in Procs : pc'[q] \in {"add", "take"} => pc'[q] = pc[q]
    BY <1>12 DEF Types, CtlType, DestroyBegin, At, AfterBroadcast, Procs
  <2>2. QED
    BY <1>12, <2>1, BufferInvQuiet DEF DestroyBegin, calls, hist
<1>13. ASSUME NEW c \in Callers, DestroyJoin(c) PROVE BufferInv'
  <2>1. \A q \in Procs : pc'[q] \in {"add", "take"} => pc'[q] = pc[q]
    BY <1>13 DEF Types, CtlType, DestroyJoin, At, Goto, Procs
  <2>2. QED
    BY <1>13, <2>1, BufferInvQuiet DEF DestroyJoin, calls, hist
<1>14. ASSUME NEW c \in Callers, FreeArrays(c) PROVE BufferInv'
  <2>1. \A q \in Procs : pc'[q] \in {"add", "take"} => pc'[q] = pc[q]
    BY <1>14 DEF Types, CtlType, FreeArrays, At, Leave, Return, Goto, Procs
  <2>2. QED
    BY <1>14, <2>1, BufferInvQuiet DEF FreeArrays, hist
<1>15. ASSUME NEW c \in Callers, FreeRest(c) PROVE BufferInv'
  <2>1. \A q \in Procs : pc'[q] \in {"add", "take"} => pc'[q] = pc[q]
    BY <1>15 DEF Types, CtlType, FreeRest, At, Leave, Return, Goto, Procs
  <2>2. QED
    BY <1>15, <2>1, BufferInvQuiet DEF FreeRest, hist
<1>16. ASSUME NEW w \in Workers, WorkerLock(w) PROVE BufferInv'
  <2>1. \A q \in Procs : pc'[q] \in {"add", "take"} => pc'[q] = pc[q]
    BY <1>16 DEF Types, CtlType, WorkerLock, At, Goto, Procs
  <2>2. QED
    BY <1>16, <2>1, BufferInvQuiet DEF WorkerLock, calls, hist
<1>17. ASSUME NEW w \in Workers, WorkerWait(w) PROVE BufferInv'
  <2>1. \A q \in Procs : pc'[q] \in {"add", "take"} => pc'[q] = pc[q]
    BY <1>17 DEF Types, CtlType, WorkerWait, At, Goto, Procs
  <2>2. QED
    BY <1>17, <2>1, BufferInvQuiet DEF WorkerWait, calls, hist
<1>18. ASSUME NEW w \in Workers, WorkerExit(w) PROVE BufferInv'
  <2>1. \A q \in Procs : pc'[q] \in {"add", "take"} => pc'[q] = pc[q]
    BY <1>18 DEF Types, CtlType, WorkerExit, At, Goto, Procs
  <2>2. QED
    BY <1>18, <2>1, BufferInvQuiet DEF WorkerExit, calls, hist
<1>19. ASSUME NEW w \in Workers, WorkerGrab(w) PROVE BufferInv'
  BY <1>19, BufferInvGrab
<1>20. ASSUME NEW w \in Workers, WorkerTake(w) PROVE BufferInv'
  BY <1>20, BufferInvTake
<1>21. ASSUME NEW w \in Workers, WorkerDone(w) PROVE BufferInv'
  <2>1. \A q \in Procs : pc'[q] \in {"add", "take"} => pc'[q] = pc[q]
    BY <1>21 DEF Types, CtlType, WorkerDone, At, Goto, Procs
  <2>2. QED
    BY <1>21, <2>1, BufferInvQuiet DEF WorkerDone, calls
<1>22. ASSUME NEW w \in Workers, SpuriousWakeup(w) PROVE BufferInv'
  <2>1. \A q \in Procs : pc'[q] \in {"add", "take"} => pc'[q] = pc[q]
    BY <1>22 DEF Types, CtlType, SpuriousWakeup, At, Goto, Procs
  <2>2. QED
    BY <1>22, <2>1, BufferInvQuiet DEF SpuriousWakeup, calls, hist
<1>23. ASSUME NEW p \in Procs, Undefined(p) PROVE BufferInv'
  <2>1. \A q \in Procs : pc'[q] \in {"add", "take"} => pc'[q] = pc[q]
    BY <1>23 DEF Types, CtlType, Undefined, Goto, Procs
  <2>2. QED
    BY <1>23, <2>1, BufferInvQuiet DEF Undefined, calls, hist
<1>24. CASE Terminated
  BY <1>1, <1>24 DEF Terminated
<1>25. QED
  BY <1>1, <1>2, <1>3, <1>4, <1>5, <1>6, <1>7, <1>8, <1>9, <1>10, <1>11, <1>12, <1>13, <1>14, <1>15, <1>16, <1>17, <1>18, <1>19, <1>20, <1>21, <1>22, <1>23, <1>24
  DEF Next, AddStep, DestroyStep, WorkerStep

-----------------------------------------------------------------------------
IInv == Types /\ MutualExclusion /\ BufferInv

(* IInv is an inductive invariant.                                         *)
LEMMA Inductive == Spec => []IInv
<1>1. Init => IInv
  BY TypesInit, MutualExclusionInit, BufferInvInit DEF IInv
<1>2. IInv /\ [Next]_vars => IInv'
  BY TypesStep, MutualExclusionStep, BufferInvStep DEF IInv
<1>3. QED
  BY <1>1, <1>2, PTL DEF Spec

(* Type correctness; that count stays in 0..QueueSize and an index in the  *)
(* ring takes BufferInv (threadpool.c:98-123, 251-256).                    *)
THEOREM TypeCorrect == Spec => []TypeOK
<1>1. IInv => TypeOK
  <2> SUFFICES ASSUME IInv PROVE TypeOK
    OBVIOUS
  <2>1. count \in 0..QueueSize
    BY SizeFact DEF IInv, Types, BufferType, BufferInv
  <2>2. QED
    BY <2>1 DEF IInv, Types, CtlType, BufferType, FieldsType, MemoryType,
                CallsType, JobType, HistType, TypeOK
<1>2. QED
  BY <1>1, Inductive, PTL

(* At most one thread is between locking and unlocking the pool's mutex,   *)
(* even when calls overlap a destroy.                                      *)
THEOREM MutexExcludes == Spec => []MutualExclusion
<1>1. IInv => MutualExclusion
  BY DEF IInv
<1>2. QED
  BY <1>1, Inductive, PTL

(* The ring buffer is a first-in-first-out queue that loses nothing, for   *)
(* every number of workers, adders and slots (threadpool.c:117-123,        *)
(* 249-256).                                                               *)
THEOREM RingIsFifo == Spec => []BufferHoldsPending
<1>1. IInv => BufferHoldsPending
  BY DEF IInv, BufferInv
<1>2. QED
  BY <1>1, Inductive, PTL

-----------------------------------------------------------------------------
(* Where a thread of the program and a worker can be.                      *)
CallerPlaces == {"create", "spawn", "count", "idle", "add_lock", "add",
                 "dst_lock", "dst", "join", "free", "free_lock", "ub"}
WorkerPlaces == {"unborn", "lock", "check", "wait", "take", "run", "dead",
                 "add_lock", "add", "ub"}

(* Only Main runs threadpool_create, and the loop counter stays below      *)
(* thread_count.                                                           *)
PlacesOK == /\ \A c \in Callers : pc[c] \in CallerPlaces
            /\ \A w \in Workers : pc[w] \in WorkerPlaces
            /\ \A c \in Callers :
                  pc[c] \in {"create", "spawn", "count"} => c = Main
            /\ pc[Main] = "create" => thread_count = 0
            /\ pc[Main] \in {"spawn", "count"} => thread_count < ThreadCount
            /\ thread_count <= ThreadCount

(* Every part of the pool is allocated and initialised; no worker was ever *)
(* started; every worker that was has ended; only Main has done anything   *)
(* yet.                                                                    *)
AllLive    == \A m \in Parts : mem[m] = "live"
Unused     == \A w \in Workers : pc[w] = "unborn"
AllEnded   == \A w \in Workers : pc[w] \in {"unborn", "dead"}
OthersIdle == \A c \in Callers : c # Main => pc[c] = "idle"

(* What the creation of the pool establishes before anybody else sees it:  *)
(* the other threads of the program have no handle, the workers start when *)
(* every part is live, and without a shutdown a pool in use has all of its *)
(* parts. So whoever waits for work waits at a pool nobody has begun to    *)
(* take apart.                                                             *)
Birth ==
    /\ handle = "none" => OthersIdle
    /\ pc[Main] \in {"create", "spawn", "count"}
          => handle = "none" /\ shutdown = "no"
    /\ pc[Main] = "create" => Unused
    /\ pc[Main] \in {"spawn", "count"} => AllLive
    /\ \A c \in Callers : pc[c] = "join" => shutdown # "no"
    /\ \A c \in Callers : pc[c] \in {"free", "free_lock"} /\ shutdown = "no"
                             => c = Main /\ handle = "none" /\ Unused
    /\ shutdown = "no" => Unused \/ AllLive

(* The thread that threadpool_create starts next is one of the workers.    *)
LEMMA SpawnedWorker ==
    ASSUME Types, PlacesOK, Spawn
    PROVE  thread_count + 1 \in Workers
  BY CountFact DEF Types, FieldsType, PlacesOK, Spawn, At, Workers

(* What pthread_cond_signal in threadpool_add does to the locations: the   *)
(* adder goes on, and at most one waiter wakes.                            *)
LEMMA Signalled ==
    ASSUME CtlType, NEW p \in Procs, AddStore(p)
    PROVE  /\ pc'[p] = IF p \in Workers THEN "run" ELSE "idle"
           /\ \A q \in Procs \ {p} :
                 pc'[q] = pc[q] \/ (q \in Waiting /\ pc'[q] = "lock")
<1>1. pc[p] = "add"
  BY DEF AddStore, At
<1>2. AfterSignal(p, IF p \in Workers THEN "run" ELSE "idle")
  BY DEF AddStore
<1>3. CASE Waiting = {}
  BY <1>2, <1>3 DEF AfterSignal, Goto, CtlType
<1>4. CASE Waiting # {}
  <2>1. PICK w \in Waiting :
           pc' = [pc EXCEPT ![p] = IF p \in Workers THEN "run" ELSE "idle",
                            ![w] = "lock"]
    BY <1>2, <1>4 DEF AfterSignal
  <2>2. w # p
    BY <1>1 DEF Waiting
  <2>3. QED
    BY <2>1, <2>2 DEF CtlType, Waiting, Procs
<1>5. QED
  BY <1>3, <1>4

(* Every step keeps the places: one step per action.                       *)
LEMMA PlacesStep == Types /\ PlacesOK /\ [Next]_vars => PlacesOK'
<1> SUFFICES ASSUME Types, PlacesOK, [Next]_vars PROVE PlacesOK'
  OBVIOUS
<1> USE NamesAssumption
  DEF Types, CtlType, FieldsType, PlacesOK, CallerPlaces, WorkerPlaces, Procs,
      fields
<1>1. CASE UNCHANGED vars
  BY <1>1 DEF vars, buffer, fields, memory, calls, hist
<1>2. CASE Create
  BY <1>2, CountFact DEF Create, CreateFails, Goto
<1>3. CASE Spawn
  BY <1>3, SpawnedWorker DEF Spawn, At, Goto
<1>4. CASE CountThread
  <2>1. /\ pc[Main] = "count" /\ thread_count' = thread_count + 1
        /\ thread_count \in Nat /\ ThreadCount \in Nat
        /\ thread_count < ThreadCount
    BY <1>4, CountFact DEF CountThread, At
  <2>2. \/ pc' = [pc EXCEPT ![Main] = "spawn"] /\ thread_count + 1 < ThreadCount
        \/ pc' = [pc EXCEPT ![Main] = "idle"]
    BY <1>4 DEF CountThread, Goto
  <2>3. thread_count' <= ThreadCount
    BY <2>1
  <2>4. pc'[Main] = "spawn" => thread_count' < ThreadCount
    BY <2>1, <2>2
  <2>5. /\ pc'[Main] \in {"spawn", "idle"}
        /\ \A q \in Procs \ {Main} : pc'[q] = pc[q]
    BY <2>2
  <2>6. QED
    BY <2>3, <2>4, <2>5
<1>5. ASSUME NEW p \in Procs, NEW t \in Tasks, AddCall(p, t) PROVE PlacesOK'
  BY <1>5 DEF AddCall, Goto
<1>6. ASSUME NEW p \in Procs, AddLock(p) PROVE PlacesOK'
  BY <1>6 DEF AddLock, At, Goto
<1>7. ASSUME NEW p \in Procs, NEW r \in {"queue_full", "shutdown"},
             AddRefuse(p, r)
      PROVE PlacesOK'
  BY <1>7 DEF AddRefuse, At, Return, Goto
<1>8. ASSUME NEW p \in Procs, AddStore(p) PROVE PlacesOK'
  BY <1>8, SMTT(30) DEF AddStore, At, AfterSignal, Waiting, Goto
<1>9. ASSUME NEW c \in Callers, NEW f \in {"immediate", "graceful"},
             DestroyCall(c, f)
      PROVE PlacesOK'
  BY <1>9 DEF DestroyCall, Goto
<1>10. ASSUME NEW c \in Callers, DestroyLock(c) PROVE PlacesOK'
  BY <1>10 DEF DestroyLock, At, Goto
<1>11. ASSUME NEW c \in Callers, DestroyAgain(c) PROVE PlacesOK'
  BY <1>11 DEF DestroyAgain, At, Return, Goto
<1>12. ASSUME NEW c \in Callers, DestroyBegin(c) PROVE PlacesOK'
  BY <1>12 DEF DestroyBegin, AlreadyDown, ShutDown, At, AfterBroadcast, Waiting
<1>13. ASSUME NEW c \in Callers, DestroyJoin(c) PROVE PlacesOK'
  BY <1>13 DEF DestroyJoin, At, Goto
<1>14. ASSUME NEW c \in Callers, FreeArrays(c) PROVE PlacesOK'
  BY <1>14 DEF FreeArrays, At, Leave, Return, Goto
<1>15. ASSUME NEW c \in Callers, FreeRest(c) PROVE PlacesOK'
  BY <1>15 DEF FreeRest, At, Leave, Return, Goto
<1>16. ASSUME NEW w \in Workers, WorkerLock(w) PROVE PlacesOK'
  BY <1>16 DEF WorkerLock, At, Goto
<1>17. ASSUME NEW w \in Workers, WorkerWait(w) PROVE PlacesOK'
  BY <1>17 DEF WorkerWait, At, Goto
<1>18. ASSUME NEW w \in Workers, WorkerExit(w) PROVE PlacesOK'
  BY <1>18 DEF WorkerExit, At, Goto
<1>19. ASSUME NEW w \in Workers, WorkerGrab(w) PROVE PlacesOK'
  BY <1>19 DEF WorkerGrab, At, Goto
<1>20. ASSUME NEW w \in Workers, WorkerTake(w) PROVE PlacesOK'
  BY <1>20 DEF WorkerTake, At, Goto
<1>21. ASSUME NEW w \in Workers, WorkerDone(w) PROVE PlacesOK'
  BY <1>21 DEF WorkerDone, At, Goto
<1>22. ASSUME NEW w \in Workers, SpuriousWakeup(w) PROVE PlacesOK'
  BY <1>22 DEF SpuriousWakeup, At, Goto
<1>23. ASSUME NEW p \in Procs, Undefined(p) PROVE PlacesOK'
  BY <1>23 DEF Undefined, Goto
<1>24. CASE Terminated
  BY <1>1, <1>24 DEF Terminated
<1>25. QED
  BY <1>1, <1>2, <1>3, <1>4, <1>5, <1>6, <1>7, <1>8, <1>9, <1>10, <1>11, <1>12,
     <1>13, <1>14, <1>15, <1>16, <1>17, <1>18, <1>19, <1>20, <1>21, <1>22,
     <1>23, <1>24
  DEF Next, AddStep, DestroyStep, WorkerStep

(* Every step keeps Birth.                                                 *)
LEMMA BirthStep == Types /\ PlacesOK /\ Birth /\ [Next]_vars => Birth'
<1> SUFFICES ASSUME Types, PlacesOK, Birth, [Next]_vars PROVE Birth'
  OBVIOUS
<1> USE NamesAssumption
  DEF Types, CtlType, FieldsType, MemoryType, CallsType, PlacesOK, CallerPlaces,
      WorkerPlaces, Procs, Birth, AllLive, Unused, OthersIdle, Touches, fields,
      memory
<1>1. CASE UNCHANGED vars
  BY <1>1 DEF vars, buffer, fields, memory, calls, hist
<1>2. CASE Create
  BY <1>2 DEF Create, CreateFails, Goto
<1>3. CASE Spawn
  BY <1>3, SpawnedWorker DEF Spawn, At, Goto
<1>4. CASE CountThread
  BY <1>4 DEF CountThread, At, Goto
<1>5. ASSUME NEW p \in Procs, NEW t \in Tasks, AddCall(p, t) PROVE Birth'
  BY <1>5 DEF AddCall, Goto
<1>6. ASSUME NEW p \in Procs, AddLock(p) PROVE Birth'
  BY <1>6 DEF AddLock, At, Goto
<1>7. ASSUME NEW p \in Procs, NEW r \in {"queue_full", "shutdown"},
             AddRefuse(p, r)
      PROVE Birth'
  BY <1>7 DEF AddRefuse, At, Return, Goto
<1>8. ASSUME NEW p \in Procs, AddStore(p) PROVE Birth'
  <2>1. pc[p] = "add" /\ (pc'[p] = IF p \in Workers THEN "run" ELSE "idle")
    BY <1>8, Signalled DEF AddStore, At
  <2>2. \A q \in Procs \ {p} : pc'[q] = pc[q] \/ (q \in Waiting /\ pc'[q] = "lock")
    BY <1>8, Signalled
  <2>3. UNCHANGED <<shutdown, thread_count, mem, handle>>
    BY <1>8 DEF AddStore
  <2>4. \A c \in Callers : pc'[c] = pc[c] \/ pc'[c] = "idle"
    BY <2>1, <2>2 DEF Waiting
  <2>5. Unused => Unused'
    BY <2>1, <2>2, <2>3 DEF Waiting
  <2>6. QED
    BY <2>3, <2>4, <2>5
<1>9. ASSUME NEW c \in Callers, NEW f \in {"immediate", "graceful"},
             DestroyCall(c, f)
      PROVE Birth'
  BY <1>9 DEF DestroyCall, Goto
<1>10. ASSUME NEW c \in Callers, DestroyLock(c) PROVE Birth'
  BY <1>10 DEF DestroyLock, At, Goto
<1>11. ASSUME NEW c \in Callers, DestroyAgain(c) PROVE Birth'
  BY <1>11 DEF DestroyAgain, At, Return, Goto
<1>12. ASSUME NEW c \in Callers, DestroyBegin(c) PROVE Birth'
  BY <1>12 DEF DestroyBegin, AlreadyDown, ShutDown, At, AfterBroadcast, Waiting
<1>13. ASSUME NEW c \in Callers, DestroyJoin(c) PROVE Birth'
  BY <1>13 DEF DestroyJoin, At, Goto
<1>14. ASSUME NEW c \in Callers, FreeArrays(c) PROVE Birth'
  BY <1>14 DEF FreeArrays, At, Leave, Return, Goto
<1>15. ASSUME NEW c \in Callers, FreeRest(c) PROVE Birth'
  BY <1>15 DEF FreeRest, At, Leave, Return, Goto
<1>16. ASSUME NEW w \in Workers, WorkerLock(w) PROVE Birth'
  BY <1>16 DEF WorkerLock, At, Goto
<1>17. ASSUME NEW w \in Workers, WorkerWait(w) PROVE Birth'
  BY <1>17 DEF WorkerWait, At, Goto
<1>18. ASSUME NEW w \in Workers, WorkerExit(w) PROVE Birth'
  BY <1>18 DEF WorkerExit, At, Goto
<1>19. ASSUME NEW w \in Workers, WorkerGrab(w) PROVE Birth'
  BY <1>19 DEF WorkerGrab, At, Goto
<1>20. ASSUME NEW w \in Workers, WorkerTake(w) PROVE Birth'
  BY <1>20 DEF WorkerTake, At, Goto
<1>21. ASSUME NEW w \in Workers, WorkerDone(w) PROVE Birth'
  BY <1>21 DEF WorkerDone, At, Goto
<1>22. ASSUME NEW w \in Workers, SpuriousWakeup(w) PROVE Birth'
  BY <1>22 DEF SpuriousWakeup, At, Goto
<1>23. ASSUME NEW p \in Procs, Undefined(p) PROVE Birth'
  BY <1>23 DEF Undefined, Goto
<1>24. CASE Terminated
  BY <1>1, <1>24 DEF Terminated
<1>25. QED
  BY <1>1, <1>2, <1>3, <1>4, <1>5, <1>6, <1>7, <1>8, <1>9, <1>10, <1>11, <1>12,
     <1>13, <1>14, <1>15, <1>16, <1>17, <1>18, <1>19, <1>20, <1>21, <1>22,
     <1>23, <1>24
  DEF Next, AddStep, DestroyStep, WorkerStep

(* Threads are started in the order of their index, each counted after it  *)
(* runs (threadpool.c:72-79), and a worker ends only after a shutdown.     *)
Unspawned == /\ \A w \in Workers :
                   w > thread_count => \/ pc[w] = "unborn"
                                       \/ pc[Main] = "count" /\ w = thread_count + 1
             /\ \A w \in Workers : pc[w] = "dead" => shutdown # "no"

(* The counted workers that have not ended; started counts them, although  *)
(* it is incremented without the mutex (threadpool.c:79, 268).             *)
Alive(n) == {w \in Workers : w <= n /\ pc[w] # "dead"}
Counted  == started = Cardinality(Alive(thread_count))

(* There are ThreadCount workers.                                          *)
LEMMA WorkersFinite == IsFiniteSet(Workers) /\ Cardinality(Workers) = ThreadCount
  BY CountFact, FS_Interval DEF Workers

(* Finitely many workers are alive.                                        *)
LEMMA AliveFinite == ASSUME NEW n PROVE IsFiniteSet(Alive(n))
  BY WorkersFinite, FS_Subset DEF Alive

(* What the code touches is part of the pool.                              *)
LEMMA TouchesParts == \A l \in Locations : Touches(l) \subseteq Parts
  BY DEF Touches, Parts, Locations

(* A thread that touches what is not there: some part is missing, and the  *)
(* thread is where it touches something.                                   *)
LEMMA UndefinedMoves ==
    ASSUME Types, NEW p \in Procs, Undefined(p)
    PROVE  /\ ~AllLive
           /\ pc[p] \notin {"create", "idle", "unborn", "run", "dead", "ub"}
           /\ pc' = [pc EXCEPT ![p] = "ub"]
           /\ UNCHANGED <<lock, buffer, fields, memory, calls, job, hist>>
<1>1. PICK m \in Touches(pc[p]) : mem[m] # "live"
  BY DEF Undefined
<1>2. m \in Parts
  BY <1>1, TouchesParts DEF Types, CtlType
<1>3. pc[p] \notin {"create", "idle", "unborn", "run", "dead", "ub"}
  BY <1>1 DEF Touches
<1>4. QED
  BY <1>1, <1>2, <1>3 DEF AllLive, Undefined, Goto

(* Every step keeps Unspawned.                                             *)
LEMMA UnspawnedStep ==
    Types /\ PlacesOK /\ Birth /\ Unspawned /\ [Next]_vars => Unspawned'
<1> SUFFICES ASSUME Types, PlacesOK, Birth, Unspawned, [Next]_vars
             PROVE Unspawned'
  OBVIOUS
<1> USE NamesAssumption
  DEF Types, CtlType, FieldsType, PlacesOK, CallerPlaces, WorkerPlaces, Procs,
      Birth, Unspawned, Unused, Touches, fields
<1>1. CASE UNCHANGED vars
  BY <1>1 DEF vars, buffer, fields, memory, calls, hist
<1>2. CASE Create
  BY <1>2 DEF Create, CreateFails, Goto
<1>3. CASE Spawn
  BY <1>3, SpawnedWorker DEF Spawn, At, Goto
<1>4. CASE CountThread
  <2>1. /\ pc[Main] = "count" /\ thread_count' = thread_count + 1
        /\ thread_count \in Nat /\ shutdown' = shutdown
    BY <1>4 DEF CountThread, At
  <2>2. \A w \in Workers : pc'[w] = pc[w]
    BY <1>4 DEF CountThread, Goto
  <2>3. ASSUME NEW w \in Workers, w > thread_count + 1 PROVE pc[w] = "unborn"
    <3>1. w \in Nat
      BY CountFact DEF Workers
    <3>2. w > thread_count /\ w # thread_count + 1
      BY <2>1, <2>3, <3>1
    <3>3. QED
      BY <3>2
  <2>4. QED
    BY <2>1, <2>2, <2>3
<1>5. ASSUME NEW p \in Procs, NEW t \in Tasks, AddCall(p, t) PROVE Unspawned'
  BY <1>5 DEF AddCall, Goto
<1>6. ASSUME NEW p \in Procs, AddLock(p) PROVE Unspawned'
  BY <1>6 DEF AddLock, At, Goto
<1>7. ASSUME NEW p \in Procs, NEW r \in {"queue_full", "shutdown"},
             AddRefuse(p, r)
      PROVE Unspawned'
  BY <1>7 DEF AddRefuse, At, Return, Goto
<1>8. ASSUME NEW p \in Procs, AddStore(p) PROVE Unspawned'
  <2>1. pc[p] = "add" /\ (pc'[p] = IF p \in Workers THEN "run" ELSE "idle")
    BY <1>8, Signalled DEF AddStore, At
  <2>2. \A q \in Procs \ {p} : pc'[q] = pc[q] \/ (q \in Waiting /\ pc'[q] = "lock")
    BY <1>8, Signalled
  <2>3. UNCHANGED <<shutdown, thread_count>>
    BY <1>8 DEF AddStore
  <2>4. QED
    BY <2>1, <2>2, <2>3 DEF Waiting
<1>9. ASSUME NEW c \in Callers, NEW f \in {"immediate", "graceful"},
             DestroyCall(c, f)
      PROVE Unspawned'
  BY <1>9 DEF DestroyCall, Goto
<1>10. ASSUME NEW c \in Callers, DestroyLock(c) PROVE Unspawned'
  BY <1>10 DEF DestroyLock, At, Goto
<1>11. ASSUME NEW c \in Callers, DestroyAgain(c) PROVE Unspawned'
  BY <1>11 DEF DestroyAgain, At, Return, Goto
<1>12. ASSUME NEW c \in Callers, DestroyBegin(c) PROVE Unspawned'
  BY <1>12 DEF DestroyBegin, AlreadyDown, ShutDown, At, AfterBroadcast, Waiting
<1>13. ASSUME NEW c \in Callers, DestroyJoin(c) PROVE Unspawned'
  BY <1>13 DEF DestroyJoin, At, Goto
<1>14. ASSUME NEW c \in Callers, FreeArrays(c) PROVE Unspawned'
  BY <1>14 DEF FreeArrays, At, Leave, Return, Goto
<1>15. ASSUME NEW c \in Callers, FreeRest(c) PROVE Unspawned'
  BY <1>15 DEF FreeRest, At, Leave, Return, Goto
<1>16. ASSUME NEW w \in Workers, WorkerLock(w) PROVE Unspawned'
  BY <1>16 DEF WorkerLock, At, Goto
<1>17. ASSUME NEW w \in Workers, WorkerWait(w) PROVE Unspawned'
  BY <1>17 DEF WorkerWait, At, Goto
<1>18. ASSUME NEW w \in Workers, WorkerExit(w) PROVE Unspawned'
  BY <1>18 DEF WorkerExit, At, Goto, MustExit
<1>19. ASSUME NEW w \in Workers, WorkerGrab(w) PROVE Unspawned'
  BY <1>19 DEF WorkerGrab, At, Goto
<1>20. ASSUME NEW w \in Workers, WorkerTake(w) PROVE Unspawned'
  BY <1>20 DEF WorkerTake, At, Goto
<1>21. ASSUME NEW w \in Workers, WorkerDone(w) PROVE Unspawned'
  BY <1>21 DEF WorkerDone, At, Goto
<1>22. ASSUME NEW w \in Workers, SpuriousWakeup(w) PROVE Unspawned'
  BY <1>22 DEF SpuriousWakeup, At, Goto
<1>23. ASSUME NEW p \in Procs, Undefined(p) PROVE Unspawned'
  <2>1. p # Main \/ pc[p] # "count"
    BY <1>23, UndefinedMoves
  <2>2. QED
    BY <1>23, <2>1, UndefinedMoves
<1>24. CASE Terminated
  BY <1>1, <1>24 DEF Terminated
<1>25. QED
  BY <1>1, <1>2, <1>3, <1>4, <1>5, <1>6, <1>7, <1>8, <1>9, <1>10, <1>11, <1>12,
     <1>13, <1>14, <1>15, <1>16, <1>17, <1>18, <1>19, <1>20, <1>21, <1>22,
     <1>23, <1>24
  DEF Next, AddStep, DestroyStep, WorkerStep

(* A step that ends no worker and counts none keeps the count.             *)
LEMMA AliveSame ==
    ASSUME Counted, UNCHANGED <<started, thread_count>>,
           \A w \in Workers : pc'[w] = "dead" <=> pc[w] = "dead"
    PROVE  Counted'
<1>1. Alive(thread_count)' = Alive(thread_count)
  BY DEF Alive
<1>2. QED
  BY <1>1 DEF Counted

(* started stays the number of counted workers that have not ended: it is  *)
(* incremented when a started thread is counted, and decremented when a    *)
(* worker ends, which by Unspawned was counted before.                     *)
LEMMA CountedStep ==
    Types /\ PlacesOK /\ Birth /\ Unspawned /\ Counted /\ [Next]_vars =>
    Counted'
<1> SUFFICES ASSUME Types, PlacesOK, Birth, Unspawned, Counted, [Next]_vars
             PROVE Counted'
  OBVIOUS
<1> USE NamesAssumption
<1>1. CASE UNCHANGED vars
  BY <1>1, AliveSame
  DEF vars, buffer, fields, memory, calls, hist, Types, CtlType, PlacesOK,
      CallerPlaces, WorkerPlaces, Procs, fields
<1>2. CASE Create
  BY <1>2, AliveSame
  DEF Create, CreateFails, Goto, Types, CtlType, PlacesOK, CallerPlaces,
      WorkerPlaces, Procs, fields
<1>3. CASE Spawn
  BY <1>3, AliveSame, SpawnedWorker
  DEF Spawn, At, Goto, Birth, Unused, Unspawned, Types, CtlType, PlacesOK,
      CallerPlaces, WorkerPlaces, Procs, fields
<1>4. CASE CountThread
  <2>1. /\ pc[Main] = "count" /\ thread_count' = thread_count + 1
        /\ started' = started + 1 /\ thread_count \in Nat
        /\ thread_count < ThreadCount
    BY <1>4 DEF CountThread, At, Types, FieldsType, PlacesOK
  <2>2. \A w \in Workers : pc'[w] = pc[w]
    BY <1>4 DEF CountThread, Goto, Types, CtlType, Procs
  <2> DEFINE n == thread_count + 1
  <2>3. n \in Workers /\ pc[n] # "dead"
    BY <2>1, CountFact DEF Workers, Birth, Unspawned
  <2>4. Alive(thread_count)' = Alive(thread_count) \cup {n}
    BY <2>1, <2>2, <2>3, CountFact DEF Alive, Workers
  <2>5. n \notin Alive(thread_count)
    BY <2>1 DEF Alive
  <2>6. Cardinality(Alive(thread_count) \cup {n}) = Cardinality(Alive(thread_count)) + 1
    BY <2>5, AliveFinite, FS_AddElement
  <2>7. QED
    BY <2>1, <2>4, <2>6 DEF Counted
<1>5. ASSUME NEW p \in Procs, NEW t \in Tasks, AddCall(p, t) PROVE Counted'
  BY <1>5, AliveSame
  DEF AddCall, Goto, Types, CtlType, PlacesOK, CallerPlaces, WorkerPlaces,
      Procs, fields
<1>6. ASSUME NEW p \in Procs, AddLock(p) PROVE Counted'
  BY <1>6, AliveSame
  DEF AddLock, At, Goto, Types, CtlType, PlacesOK, CallerPlaces, WorkerPlaces,
      Procs, fields
<1>7. ASSUME NEW p \in Procs, NEW r \in {"queue_full", "shutdown"},
             AddRefuse(p, r)
      PROVE Counted'
  BY <1>7, AliveSame
  DEF AddRefuse, At, Return, Goto, Types, CtlType, PlacesOK, CallerPlaces,
      WorkerPlaces, Procs, fields
<1>8. ASSUME NEW p \in Procs, AddStore(p) PROVE Counted'
  BY <1>8, AliveSame, Signalled
  DEF AddStore, At, Waiting, Types, CtlType, PlacesOK, CallerPlaces,
      WorkerPlaces, Procs, fields
<1>9. ASSUME NEW c \in Callers, NEW f \in {"immediate", "graceful"},
             DestroyCall(c, f)
      PROVE Counted'
  BY <1>9, AliveSame
  DEF DestroyCall, Goto, Types, CtlType, PlacesOK, CallerPlaces, WorkerPlaces,
      Procs, fields
<1>10. ASSUME NEW c \in Callers, DestroyLock(c) PROVE Counted'
  BY <1>10, AliveSame
  DEF DestroyLock, At, Goto, Types, CtlType, PlacesOK, CallerPlaces,
      WorkerPlaces, Procs, fields
<1>11. ASSUME NEW c \in Callers, DestroyAgain(c) PROVE Counted'
  BY <1>11, AliveSame
  DEF DestroyAgain, At, Return, Goto, Types, CtlType, PlacesOK, CallerPlaces,
      WorkerPlaces, Procs, fields
<1>12. ASSUME NEW c \in Callers, DestroyBegin(c) PROVE Counted'
  BY <1>12, AliveSame
  DEF DestroyBegin, AlreadyDown, ShutDown, At, AfterBroadcast, Waiting, Types,
      CtlType, PlacesOK, CallerPlaces, WorkerPlaces, Procs, fields
<1>13. ASSUME NEW c \in Callers, DestroyJoin(c) PROVE Counted'
  BY <1>13, AliveSame
  DEF DestroyJoin, At, Goto, Types, CtlType, PlacesOK, CallerPlaces,
      WorkerPlaces, Procs, fields
<1>14. ASSUME NEW c \in Callers, FreeArrays(c) PROVE Counted'
  BY <1>14, AliveSame
  DEF FreeArrays, At, Leave, Return, Goto, Types, CtlType, PlacesOK,
      CallerPlaces, WorkerPlaces, Procs, fields
<1>15. ASSUME NEW c \in Callers, FreeRest(c) PROVE Counted'
  BY <1>15, AliveSame
  DEF FreeRest, At, Leave, Return, Goto, Types, CtlType, PlacesOK,
      CallerPlaces, WorkerPlaces, Procs, fields
<1>16. ASSUME NEW w \in Workers, WorkerLock(w) PROVE Counted'
  BY <1>16, AliveSame
  DEF WorkerLock, At, Goto, Types, CtlType, PlacesOK, CallerPlaces,
      WorkerPlaces, Procs, fields
<1>17. ASSUME NEW w \in Workers, WorkerWait(w) PROVE Counted'
  BY <1>17, AliveSame
  DEF WorkerWait, At, Goto, Types, CtlType, PlacesOK, CallerPlaces,
      WorkerPlaces, Procs, fields
<1>18. ASSUME NEW w \in Workers, WorkerExit(w) PROVE Counted'
  <2>1. /\ pc[w] = "check" /\ pc' = [pc EXCEPT ![w] = "dead"]
        /\ started' = started - 1 /\ thread_count' = thread_count
        /\ shutdown # "no"
    BY <1>18 DEF WorkerExit, At, Goto, MustExit
  <2>2. w <= thread_count
    BY <2>1, CountFact DEF Unspawned, Birth, Types, FieldsType, Workers
  <2>3. Alive(thread_count)' = Alive(thread_count) \ {w} /\ w \in Alive(thread_count)
    BY <2>1, <2>2 DEF Alive, Types, CtlType, Procs
  <2>4. Cardinality(Alive(thread_count) \ {w}) = Cardinality(Alive(thread_count)) - 1
    BY <2>3, AliveFinite, FS_RemoveElement
  <2>5. QED
    BY <2>1, <2>3, <2>4 DEF Counted
<1>19. ASSUME NEW w \in Workers, WorkerGrab(w) PROVE Counted'
  BY <1>19, AliveSame
  DEF WorkerGrab, At, Goto, Types, CtlType, PlacesOK, CallerPlaces,
      WorkerPlaces, Procs, fields
<1>20. ASSUME NEW w \in Workers, WorkerTake(w) PROVE Counted'
  BY <1>20, AliveSame
  DEF WorkerTake, At, Goto, Types, CtlType, PlacesOK, CallerPlaces,
      WorkerPlaces, Procs, fields
<1>21. ASSUME NEW w \in Workers, WorkerDone(w) PROVE Counted'
  BY <1>21, AliveSame
  DEF WorkerDone, At, Goto, Types, CtlType, PlacesOK, CallerPlaces,
      WorkerPlaces, Procs, fields
<1>22. ASSUME NEW w \in Workers, SpuriousWakeup(w) PROVE Counted'
  BY <1>22, AliveSame
  DEF SpuriousWakeup, At, Goto, Types, CtlType, PlacesOK, CallerPlaces,
      WorkerPlaces, Procs, fields
<1>23. ASSUME NEW p \in Procs, Undefined(p) PROVE Counted'
  BY <1>23, AliveSame, UndefinedMoves
  DEF Undefined, Goto, Types, CtlType, PlacesOK, CallerPlaces, WorkerPlaces,
      Procs, fields
<1>24. CASE Terminated
  BY <1>1, <1>24 DEF Terminated
<1>25. QED
  BY <1>1, <1>2, <1>3, <1>4, <1>5, <1>6, <1>7, <1>8, <1>9, <1>10, <1>11, <1>12,
     <1>13, <1>14, <1>15, <1>16, <1>17, <1>18, <1>19, <1>20, <1>21, <1>22,
     <1>23, <1>24
  DEF Next, AddStep, DestroyStep, WorkerStep

(* Every step keeps OneDestroyer: the second thread to reach the test of   *)
(* threadpool.c:165 finds the flag the first has set.                      *)
LEMMA OneDestroyerStep ==
    Types /\ PlacesOK /\ Birth /\ OneDestroyer /\ [Next]_vars =>
    OneDestroyer'
<1> SUFFICES ASSUME Types, PlacesOK, Birth, OneDestroyer, [Next]_vars
             PROVE OneDestroyer'
  OBVIOUS
<1> USE NamesAssumption
  DEF Types, CtlType, FieldsType, MemoryType, PlacesOK, CallerPlaces,
      WorkerPlaces, Procs, fields, memory, Birth, OthersIdle, OneDestroyer
<1>1. CASE UNCHANGED vars
  BY <1>1 DEF vars, buffer, fields, memory, calls, hist
<1>2. CASE Create
  BY <1>2 DEF Create, CreateFails, Goto
<1>3. CASE Spawn
  BY <1>3, SpawnedWorker DEF Spawn, At, Goto
<1>4. CASE CountThread
  BY <1>4 DEF CountThread, At, Goto
<1>5. ASSUME NEW p \in Procs, NEW t \in Tasks, AddCall(p, t) PROVE OneDestroyer'
  BY <1>5 DEF AddCall, Goto
<1>6. ASSUME NEW p \in Procs, AddLock(p) PROVE OneDestroyer'
  BY <1>6 DEF AddLock, At, Goto
<1>7. ASSUME NEW p \in Procs, NEW r \in {"queue_full", "shutdown"},
             AddRefuse(p, r)
      PROVE OneDestroyer'
  BY <1>7 DEF AddRefuse, At, Return, Goto
<1>8. ASSUME NEW p \in Procs, AddStore(p) PROVE OneDestroyer'
  <2>1. pc[p] = "add" /\ (pc'[p] = IF p \in Workers THEN "run" ELSE "idle")
    BY <1>8, Signalled DEF AddStore, At
  <2>2. \A q \in Procs \ {p} : pc'[q] = pc[q] \/ (q \in Waiting /\ pc'[q] = "lock")
    BY <1>8, Signalled
  <2>3. UNCHANGED <<fields, memory>>
    BY <1>8 DEF AddStore
  <2>4. QED
    BY <2>1, <2>2, <2>3 DEF Waiting
<1>9. ASSUME NEW c \in Callers, NEW f \in {"immediate", "graceful"},
             DestroyCall(c, f)
      PROVE OneDestroyer'
  BY <1>9 DEF DestroyCall, Goto
<1>10. ASSUME NEW c \in Callers, DestroyLock(c) PROVE OneDestroyer'
  BY <1>10 DEF DestroyLock, At, Goto
<1>11. ASSUME NEW c \in Callers, DestroyAgain(c) PROVE OneDestroyer'
  BY <1>11 DEF DestroyAgain, At, Return, Goto
<1>12. ASSUME NEW c \in Callers, DestroyBegin(c) PROVE OneDestroyer'
  BY <1>12 DEF DestroyBegin, AlreadyDown, ShutDown, At, AfterBroadcast, Waiting
<1>13. ASSUME NEW c \in Callers, DestroyJoin(c) PROVE OneDestroyer'
  BY <1>13 DEF DestroyJoin, At, Goto
<1>14. ASSUME NEW c \in Callers, FreeArrays(c) PROVE OneDestroyer'
  BY <1>14 DEF FreeArrays, At, Leave, Return, Goto
<1>15. ASSUME NEW c \in Callers, FreeRest(c) PROVE OneDestroyer'
  BY <1>15 DEF FreeRest, At, Leave, Return, Goto
<1>16. ASSUME NEW w \in Workers, WorkerLock(w) PROVE OneDestroyer'
  BY <1>16 DEF WorkerLock, At, Goto
<1>17. ASSUME NEW w \in Workers, WorkerWait(w) PROVE OneDestroyer'
  BY <1>17 DEF WorkerWait, At, Goto
<1>18. ASSUME NEW w \in Workers, WorkerExit(w) PROVE OneDestroyer'
  BY <1>18 DEF WorkerExit, At, Goto
<1>19. ASSUME NEW w \in Workers, WorkerGrab(w) PROVE OneDestroyer'
  BY <1>19 DEF WorkerGrab, At, Goto
<1>20. ASSUME NEW w \in Workers, WorkerTake(w) PROVE OneDestroyer'
  BY <1>20 DEF WorkerTake, At, Goto
<1>21. ASSUME NEW w \in Workers, WorkerDone(w) PROVE OneDestroyer'
  BY <1>21 DEF WorkerDone, At, Goto
<1>22. ASSUME NEW w \in Workers, SpuriousWakeup(w) PROVE OneDestroyer'
  BY <1>22 DEF SpuriousWakeup, At, Goto
<1>23. ASSUME NEW p \in Procs, Undefined(p) PROVE OneDestroyer'
  BY <1>23, UndefinedMoves
<1>24. CASE Terminated
  BY <1>1, <1>24 DEF Terminated
<1>25. QED
  BY <1>1, <1>2, <1>3, <1>4, <1>5, <1>6, <1>7, <1>8, <1>9, <1>10, <1>11, <1>12,
     <1>13, <1>14, <1>15, <1>16, <1>17, <1>18, <1>19, <1>20, <1>21, <1>22,
     <1>23, <1>24
  DEF Next, AddStep, DestroyStep, WorkerStep

(* The workers on their way to the queue can be counted.                   *)
LEMMA FetchingFinite == IsFiniteSet(Fetching) /\ Cardinality(Fetching) \in Nat
<1>1. IsFiniteSet(Fetching)
  BY WorkersFinite, FS_Subset DEF Fetching
<1>2. QED
  BY <1>1, FS_CardinalityType

(* A step that puts no worker to sleep, takes none off its way to the      *)
(* queue, and changes neither the flag nor the number of tasks loses no    *)
(* wake-up.                                                                *)
LEMMA WakeupKept ==
    ASSUME NoLostWakeup, BufferType, UNCHANGED <<shutdown, count>>,
           \A w \in Workers : /\ pc'[w] = "wait" => pc[w] = "wait"
                              /\ w \in Fetching => w \in Fetching'
    PROVE  NoLostWakeup'
<1> SUFFICES ASSUME Waiting' # {}
             PROVE shutdown' = "no" /\ count' <= Cardinality(Fetching')
  BY DEF NoLostWakeup
<1>1. Waiting # {}
  BY DEF Waiting
<1>2. Fetching \subseteq Fetching' /\ IsFiniteSet(Fetching')
  BY WorkersFinite, FS_Subset DEF Fetching
<1>3. /\ Cardinality(Fetching) <= Cardinality(Fetching')
      /\ Cardinality(Fetching) \in Nat /\ Cardinality(Fetching') \in Nat
  BY <1>2, FS_Subset, FS_CardinalityType
<1>4. QED
  BY <1>1, <1>3 DEF NoLostWakeup, BufferType

(* Every step keeps NoLostWakeup: a task is added together with a signal   *)
(* that sends a waiter to the queue, a worker takes a task with it when it *)
(* leaves, and the broadcast of a shutdown wakes all.                      *)
LEMMA NoLostWakeupStep ==
    Types /\ PlacesOK /\ Birth /\ NoLostWakeup /\ [Next]_vars =>
    NoLostWakeup'
<1> SUFFICES ASSUME Types, PlacesOK, Birth, NoLostWakeup, [Next]_vars
             PROVE NoLostWakeup'
  OBVIOUS
<1> USE NamesAssumption
<1>1. CASE UNCHANGED vars
  BY <1>1, WakeupKept
  DEF vars, buffer, fields, memory, calls, hist, Fetching, Types, CtlType,
      PlacesOK, CallerPlaces, WorkerPlaces, Procs, fields, buffer
<1>2. CASE Create
  BY <1>2, WakeupKept
  DEF Create, CreateFails, Goto, Fetching, Types, CtlType, PlacesOK,
      CallerPlaces, WorkerPlaces, Procs, fields, buffer
<1>3. CASE Spawn
  BY <1>3, WakeupKept, SpawnedWorker
  DEF Spawn, At, Goto, Fetching, Types, CtlType, PlacesOK, CallerPlaces,
      WorkerPlaces, Procs, fields, buffer
<1>4. CASE CountThread
  BY <1>4, WakeupKept
  DEF CountThread, At, Goto, Fetching, Types, CtlType, PlacesOK, CallerPlaces,
      WorkerPlaces, Procs, fields, buffer
<1>5. ASSUME NEW p \in Procs, NEW t \in Tasks, AddCall(p, t) PROVE NoLostWakeup'
  BY <1>5, WakeupKept
  DEF AddCall, Goto, Fetching, Types, CtlType, PlacesOK, CallerPlaces,
      WorkerPlaces, Procs, fields, buffer
<1>6. ASSUME NEW p \in Procs, AddLock(p) PROVE NoLostWakeup'
  BY <1>6, WakeupKept
  DEF AddLock, At, Goto, Fetching, Types, CtlType, PlacesOK, CallerPlaces,
      WorkerPlaces, Procs, fields, buffer
<1>7. ASSUME NEW p \in Procs, NEW r \in {"queue_full", "shutdown"},
             AddRefuse(p, r)
      PROVE NoLostWakeup'
  BY <1>7, WakeupKept
  DEF AddRefuse, At, Return, Goto, Fetching, Types, CtlType, PlacesOK,
      CallerPlaces, WorkerPlaces, Procs, fields, buffer
<1>8. ASSUME NEW p \in Procs, AddStore(p) PROVE NoLostWakeup'
  <2>1. /\ pc[p] = "add" /\ count' = count + 1 /\ UNCHANGED <<shutdown, mem, handle>>
        /\ AfterSignal(p, IF p \in Workers THEN "run" ELSE "idle")
    BY <1>8 DEF AddStore, At, fields, memory
  <2>2. CASE Waiting = {}
    <3>1. Waiting' = {}
      BY <2>1, <2>2 DEF AfterSignal, Goto, Waiting, Types, CtlType, Procs
    <3>2. QED
      BY <3>1 DEF NoLostWakeup
  <2>3. CASE Waiting # {}
    <3>1. PICK w \in Waiting :
             pc' = [pc EXCEPT ![p] = IF p \in Workers THEN "run" ELSE "idle",
                              ![w] = "lock"]
      BY <2>1, <2>3 DEF AfterSignal
    <3>2. w # p /\ w \in Workers /\ w \notin Fetching
      BY <2>1 DEF Waiting, Fetching
    <3>3. Fetching' = Fetching \cup {w}
      BY <2>1, <3>1, <3>2 DEF Fetching, Types, CtlType, Procs
    <3>4. Cardinality(Fetching') = Cardinality(Fetching) + 1
      BY <3>2, <3>3, FetchingFinite, FS_AddElement
    <3>5. shutdown = "no" /\ count <= Cardinality(Fetching)
      BY <2>3 DEF NoLostWakeup
    <3>6. QED
      BY <2>1, <3>4, <3>5, FetchingFinite DEF NoLostWakeup, Types, BufferType
  <2>4. QED
    BY <2>2, <2>3
<1>9. ASSUME NEW c \in Callers, NEW f \in {"immediate", "graceful"},
             DestroyCall(c, f)
      PROVE NoLostWakeup'
  BY <1>9, WakeupKept
  DEF DestroyCall, Goto, Fetching, Types, CtlType, PlacesOK, CallerPlaces,
      WorkerPlaces, Procs, fields, buffer
<1>10. ASSUME NEW c \in Callers, DestroyLock(c) PROVE NoLostWakeup'
  BY <1>10, WakeupKept
  DEF DestroyLock, At, Goto, Fetching, Types, CtlType, PlacesOK, CallerPlaces,
      WorkerPlaces, Procs, fields, buffer
<1>11. ASSUME NEW c \in Callers, DestroyAgain(c) PROVE NoLostWakeup'
  BY <1>11, WakeupKept
  DEF DestroyAgain, At, Return, Goto, Fetching, Types, CtlType, PlacesOK,
      CallerPlaces, WorkerPlaces, Procs, fields, buffer
<1>12. ASSUME NEW c \in Callers, DestroyBegin(c) PROVE NoLostWakeup'
  <2>1. Waiting' = {}
    BY <1>12 DEF DestroyBegin, AfterBroadcast, Waiting, Types, CtlType, Procs
  <2>2. QED
    BY <2>1 DEF NoLostWakeup
<1>13. ASSUME NEW c \in Callers, DestroyJoin(c) PROVE NoLostWakeup'
  BY <1>13, WakeupKept
  DEF DestroyJoin, At, Goto, Fetching, Types, CtlType, PlacesOK, CallerPlaces,
      WorkerPlaces, Procs, fields, buffer
<1>14. ASSUME NEW c \in Callers, FreeArrays(c) PROVE NoLostWakeup'
  BY <1>14, WakeupKept
  DEF FreeArrays, At, Leave, Return, Goto, Fetching, Types, CtlType, PlacesOK,
      CallerPlaces, WorkerPlaces, Procs, fields, buffer
<1>15. ASSUME NEW c \in Callers, FreeRest(c) PROVE NoLostWakeup'
  BY <1>15, WakeupKept
  DEF FreeRest, At, Leave, Return, Goto, Fetching, Types, CtlType, PlacesOK,
      CallerPlaces, WorkerPlaces, Procs, fields, buffer
<1>16. ASSUME NEW w \in Workers, WorkerLock(w) PROVE NoLostWakeup'
  BY <1>16, WakeupKept
  DEF WorkerLock, At, Goto, Fetching, Types, CtlType, PlacesOK, CallerPlaces,
      WorkerPlaces, Procs, fields, buffer
<1>17. ASSUME NEW w \in Workers, WorkerWait(w) PROVE NoLostWakeup'
  <2>1. shutdown' = "no" /\ count' = 0
    BY <1>17 DEF WorkerWait, MustWait, ShutDown, fields, buffer
  <2>2. Cardinality(Fetching') >= 0
    <3>1. IsFiniteSet(Fetching')
      BY WorkersFinite, FS_Subset DEF Fetching
    <3>2. QED
      BY <3>1, FS_CardinalityType
  <2>3. QED
    BY <2>1, <2>2 DEF NoLostWakeup
<1>18. ASSUME NEW w \in Workers, WorkerExit(w) PROVE NoLostWakeup'
  <2>1. Waiting = {}
    BY <1>18 DEF WorkerExit, MustExit, NoLostWakeup
  <2>2. Waiting' = {}
    BY <1>18, <2>1 DEF WorkerExit, Goto, Waiting, Types, CtlType, Procs
  <2>3. QED
    BY <2>2 DEF NoLostWakeup
<1>19. ASSUME NEW w \in Workers, WorkerGrab(w) PROVE NoLostWakeup'
  BY <1>19, WakeupKept
  DEF WorkerGrab, At, Goto, Fetching, Types, CtlType, PlacesOK, CallerPlaces,
      WorkerPlaces, Procs, fields, buffer
<1>20. ASSUME NEW w \in Workers, WorkerTake(w) PROVE NoLostWakeup'
  <2>1. /\ pc[w] = "take" /\ pc' = [pc EXCEPT ![w] = "run"]
        /\ count' = count - 1 /\ shutdown' = shutdown
    BY <1>20 DEF WorkerTake, At, Goto, fields
  <2>2. Fetching' = Fetching \ {w} /\ w \in Fetching
    BY <2>1 DEF Fetching, Types, CtlType, Procs
  <2>3. Cardinality(Fetching') = Cardinality(Fetching) - 1
    BY <2>2, FetchingFinite, FS_RemoveElement
  <2>4. Waiting' = Waiting
    BY <2>1 DEF Waiting, Types, CtlType, Procs
  <2>5. QED
    BY <2>1, <2>3, <2>4, FetchingFinite DEF NoLostWakeup, Types, BufferType
<1>21. ASSUME NEW w \in Workers, WorkerDone(w) PROVE NoLostWakeup'
  BY <1>21, WakeupKept
  DEF WorkerDone, At, Goto, Fetching, Types, CtlType, PlacesOK, CallerPlaces,
      WorkerPlaces, Procs, fields, buffer
<1>22. ASSUME NEW w \in Workers, SpuriousWakeup(w) PROVE NoLostWakeup'
  BY <1>22, WakeupKept
  DEF SpuriousWakeup, At, Goto, Fetching, Types, CtlType, PlacesOK,
      CallerPlaces, WorkerPlaces, Procs, fields, buffer
<1>23. ASSUME NEW p \in Procs, Undefined(p) PROVE NoLostWakeup'
  <2>1. /\ ~AllLive /\ pc' = [pc EXCEPT ![p] = "ub"]
        /\ UNCHANGED <<shutdown, count>>
    BY <1>23, UndefinedMoves DEF fields, buffer
  <2>2. CASE Waiting = {}
    <3>1. Waiting' = {}
      BY <2>1, <2>2 DEF Waiting, Types, CtlType, Procs
    <3>2. QED
      BY <3>1 DEF NoLostWakeup
  <2>3. CASE Waiting # {}
    <3>1. shutdown = "no" /\ ~Unused
      BY <2>3 DEF NoLostWakeup, Unused, Waiting
    <3>2. QED
      BY <2>1, <3>1 DEF Birth
  <2>4. QED
    BY <2>2, <2>3
<1>24. CASE Terminated
  BY <1>1, <1>24 DEF Terminated
<1>25. QED
  BY <1>1, <1>2, <1>3, <1>4, <1>5, <1>6, <1>7, <1>8, <1>9, <1>10, <1>11, <1>12,
     <1>13, <1>14, <1>15, <1>16, <1>17, <1>18, <1>19, <1>20, <1>21, <1>22,
     <1>23, <1>24
  DEF Next, AddStep, DestroyStep, WorkerStep

-----------------------------------------------------------------------------
(* The assumption of the theorems below.  The program does not let its     *)
(* calls overlap a threadpool_destroy: a second destroy returns at         *)
(* threadpool.c:166 with the mutex held, and one that comes later touches  *)
(* freed memory.  And the two pthread_*_init calls succeed:                *)
(* threadpool_free uses the mutex without having tested that it was        *)
(* initialised.                                                            *)
Calm == ~Overlap /\ "lock" \notin MayFail /\ "notify" \notin MayFail

(* A thread in threadpool_destroy is alone: every other thread of the      *)
(* program is idle, and once there is no pool all of them are.  Whoever    *)
(* set the flag is still on its way to return.                             *)
Quiet ==
    /\ \A c \in Destroying : \A d \in Callers : d # c => pc[d] = "idle"
    /\ handle \in {"null", "gone"} => \A c \in Callers : pc[c] = "idle"
    /\ shutdown # "no" => \/ handle \in {"null", "gone"}
                          \/ \E c \in Callers : pc[c] \in {"join", "free", "free_lock"}

(* Which parts of the pool are live at each stage of its life.  A thread   *)
(* of the program inside a call, and a worker that has not ended, have a   *)
(* complete pool; threadpool_free runs when every worker has ended, with   *)
(* the mutex and the condition variable still initialised.                 *)
Memory ==
    /\ pc[Main] = "create" => \A m \in Parts : mem[m] = "none"
    /\ \A c \in Callers :
          pc[c] \in {"add_lock", "add", "dst_lock", "dst", "join"} => AllLive
    /\ ~AllEnded => AllLive
    /\ handle = "ok" /\ (\A c \in Callers : pc[c] \notin {"free", "free_lock"})
          => AllLive
    /\ \A c \in Callers : pc[c] \in {"free", "free_lock"} =>
          /\ AllEnded /\ started = 0
          /\ mem["pool"] = "live" /\ mem["lock"] = "live" /\ mem["notify"] = "live"
    /\ \A c \in Callers : pc[c] = "free_lock" =>
          mem["threads"] # "live" /\ mem["queue"] # "live"
    /\ \A c \in Callers : pc[c] = "free" =>
          \A m \in Parts : mem[m] # "gone" /\ (mem[m] = "none" => m \in MayFail)
    /\ handle \in {"null", "gone"} =>
          AllEnded /\ ("threads" \notin MayFail => \A m \in Parts : mem[m] # "live")

(* So whatever a thread touches is there,                                  *)
LEMMA Initialised ==
    ASSUME Types, PlacesOK, Birth, Memory, NEW p \in Procs, NEW m \in Touches(pc[p])
    PROVE  mem[m] = "live"
<1>1. m \in Parts
  BY TouchesParts DEF Types, CtlType
<1>2. CASE p \in Callers
  <2>1. CASE pc[p] \in {"spawn", "count"}
    BY <1>1, <1>2, <2>1 DEF PlacesOK, Birth, AllLive
  <2>2. CASE pc[p] \in {"add_lock", "add", "dst_lock", "dst", "join"}
    BY <1>1, <1>2, <2>2 DEF Memory, AllLive
  <2>3. CASE pc[p] \in {"free", "free_lock"}
    BY <1>2, <2>3 DEF Memory, Touches
  <2>4. CASE pc[p] \in {"create", "idle", "ub"}
    BY <2>4 DEF Touches
  <2>5. QED
    BY <1>2, <2>1, <2>2, <2>3, <2>4 DEF PlacesOK, CallerPlaces
<1>3. CASE p \in Workers
  <2>1. CASE pc[p] \in {"unborn", "dead"}
    BY <2>1 DEF Touches
  <2>2. CASE pc[p] \notin {"unborn", "dead"}
    BY <1>1, <1>3, <2>2 DEF Memory, AllLive, AllEnded
  <2>3. QED
    BY <2>1, <2>2
<1>4. QED
  BY <1>2, <1>3 DEF Procs

(* and no step has an undefined outcome.                                   *)
LEMMA NothingUndefined ==
    ASSUME Types, PlacesOK, Birth, Memory, NEW p \in Procs, Undefined(p)
    PROVE  FALSE
  BY Initialised DEF Undefined

(* Every step keeps NoUseAfterFree.                                        *)
LEMMA UseAfterFreeStep ==
    Calm /\ Types /\ PlacesOK /\ Birth /\ Memory /\ NoUseAfterFree /\
    [Next]_vars => NoUseAfterFree'
<1> SUFFICES ASSUME Calm, Types, PlacesOK, Birth, Memory, NoUseAfterFree,
                    [Next]_vars
             PROVE NoUseAfterFree'
  OBVIOUS
<1> USE NamesAssumption
  DEF Types, CtlType, FieldsType, MemoryType, PlacesOK, CallerPlaces,
      WorkerPlaces, Procs, fields, memory, NoUseAfterFree
<1>1. CASE UNCHANGED vars
  BY <1>1 DEF vars, buffer, fields, memory, calls, hist
<1>2. CASE Create
  BY <1>2 DEF Create, CreateFails, Goto
<1>3. CASE Spawn
  BY <1>3, SpawnedWorker DEF Spawn, At, Goto
<1>4. CASE CountThread
  BY <1>4 DEF CountThread, At, Goto
<1>5. ASSUME NEW p \in Procs, NEW t \in Tasks, AddCall(p, t)
      PROVE NoUseAfterFree'
  BY <1>5 DEF AddCall, Goto
<1>6. ASSUME NEW p \in Procs, AddLock(p) PROVE NoUseAfterFree'
  BY <1>6 DEF AddLock, At, Goto
<1>7. ASSUME NEW p \in Procs, NEW r \in {"queue_full", "shutdown"},
             AddRefuse(p, r)
      PROVE NoUseAfterFree'
  BY <1>7 DEF AddRefuse, At, Return, Goto
<1>8. ASSUME NEW p \in Procs, AddStore(p) PROVE NoUseAfterFree'
  <2>1. pc[p] = "add" /\ (pc'[p] = IF p \in Workers THEN "run" ELSE "idle")
    BY <1>8, Signalled DEF AddStore, At
  <2>2. \A q \in Procs \ {p} : pc'[q] = pc[q] \/ (q \in Waiting /\ pc'[q] = "lock")
    BY <1>8, Signalled
  <2>3. UNCHANGED <<fields, memory>>
    BY <1>8 DEF AddStore
  <2>4. QED
    BY <2>1, <2>2, <2>3 DEF Waiting
<1>9. ASSUME NEW c \in Callers, NEW f \in {"immediate", "graceful"},
             DestroyCall(c, f)
      PROVE NoUseAfterFree'
  BY <1>9 DEF DestroyCall, Goto
<1>10. ASSUME NEW c \in Callers, DestroyLock(c) PROVE NoUseAfterFree'
  BY <1>10 DEF DestroyLock, At, Goto
<1>11. ASSUME NEW c \in Callers, DestroyAgain(c) PROVE NoUseAfterFree'
  BY <1>11 DEF DestroyAgain, At, Return, Goto
<1>12. ASSUME NEW c \in Callers, DestroyBegin(c) PROVE NoUseAfterFree'
  BY <1>12 DEF DestroyBegin, AlreadyDown, ShutDown, At, AfterBroadcast, Waiting
<1>13. ASSUME NEW c \in Callers, DestroyJoin(c) PROVE NoUseAfterFree'
  BY <1>13 DEF DestroyJoin, At, Goto
<1>14. ASSUME NEW c \in Callers, FreeArrays(c) PROVE NoUseAfterFree'
  BY <1>14 DEF FreeArrays, At, Leave, Return, Goto
<1>15. ASSUME NEW c \in Callers, FreeRest(c) PROVE NoUseAfterFree'
  BY <1>15 DEF FreeRest, At, Leave, Return, Goto
<1>16. ASSUME NEW w \in Workers, WorkerLock(w) PROVE NoUseAfterFree'
  BY <1>16 DEF WorkerLock, At, Goto
<1>17. ASSUME NEW w \in Workers, WorkerWait(w) PROVE NoUseAfterFree'
  BY <1>17 DEF WorkerWait, At, Goto
<1>18. ASSUME NEW w \in Workers, WorkerExit(w) PROVE NoUseAfterFree'
  BY <1>18 DEF WorkerExit, At, Goto
<1>19. ASSUME NEW w \in Workers, WorkerGrab(w) PROVE NoUseAfterFree'
  BY <1>19 DEF WorkerGrab, At, Goto
<1>20. ASSUME NEW w \in Workers, WorkerTake(w) PROVE NoUseAfterFree'
  BY <1>20 DEF WorkerTake, At, Goto
<1>21. ASSUME NEW w \in Workers, WorkerDone(w) PROVE NoUseAfterFree'
  BY <1>21 DEF WorkerDone, At, Goto
<1>22. ASSUME NEW w \in Workers, SpuriousWakeup(w) PROVE NoUseAfterFree'
  BY <1>22 DEF SpuriousWakeup, At, Goto
<1>23. ASSUME NEW p \in Procs, Undefined(p) PROVE NoUseAfterFree'
  BY <1>23, NothingUndefined
<1>24. CASE Terminated
  BY <1>1, <1>24 DEF Terminated
<1>25. QED
  BY <1>1, <1>2, <1>3, <1>4, <1>5, <1>6, <1>7, <1>8, <1>9, <1>10, <1>11, <1>12,
     <1>13, <1>14, <1>15, <1>16, <1>17, <1>18, <1>19, <1>20, <1>21, <1>22,
     <1>23, <1>24
  DEF Next, AddStep, DestroyStep, WorkerStep

(* Every step keeps Quiet.                                                 *)
LEMMA QuietStep ==
    Calm /\ Types /\ PlacesOK /\ Birth /\ Memory /\ Quiet /\ [Next]_vars =>
    Quiet'
<1> SUFFICES ASSUME Calm, Types, PlacesOK, Birth, Memory, Quiet, [Next]_vars
             PROVE Quiet'
  OBVIOUS
<1> USE NamesAssumption
  DEF Calm, Types, CtlType, FieldsType, MemoryType, PlacesOK, CallerPlaces,
      WorkerPlaces, Procs, fields, memory, Birth, OthersIdle, Destroying, Quiet
<1>1. CASE UNCHANGED vars
  BY <1>1 DEF vars, buffer, fields, memory, calls, hist
<1>2. CASE Create
  BY <1>2 DEF Create, CreateFails, Goto
<1>3. CASE Spawn
  BY <1>3, SpawnedWorker DEF Spawn, At, Goto
<1>4. CASE CountThread
  BY <1>4 DEF CountThread, At, Goto
<1>5. ASSUME NEW p \in Procs, NEW t \in Tasks, AddCall(p, t) PROVE Quiet'
  BY <1>5 DEF AddCall, Goto
<1>6. ASSUME NEW p \in Procs, AddLock(p) PROVE Quiet'
  BY <1>6 DEF AddLock, At, Goto
<1>7. ASSUME NEW p \in Procs, NEW r \in {"queue_full", "shutdown"},
             AddRefuse(p, r)
      PROVE Quiet'
  BY <1>7 DEF AddRefuse, At, Return, Goto
<1>8. ASSUME NEW p \in Procs, AddStore(p) PROVE Quiet'
  <2>1. pc[p] = "add" /\ (pc'[p] = IF p \in Workers THEN "run" ELSE "idle")
    BY <1>8, Signalled DEF AddStore, At
  <2>2. \A q \in Procs \ {p} : pc'[q] = pc[q] \/ (q \in Waiting /\ pc'[q] = "lock")
    BY <1>8, Signalled
  <2>3. UNCHANGED <<fields, memory>>
    BY <1>8 DEF AddStore
  <2>4. QED
    BY <2>1, <2>2, <2>3 DEF Waiting
<1>9. ASSUME NEW c \in Callers, NEW f \in {"immediate", "graceful"},
             DestroyCall(c, f)
      PROVE Quiet'
  BY <1>9 DEF DestroyCall, Goto
<1>10. ASSUME NEW c \in Callers, DestroyLock(c) PROVE Quiet'
  BY <1>10 DEF DestroyLock, At, Goto
<1>11. ASSUME NEW c \in Callers, DestroyAgain(c) PROVE Quiet'
  BY <1>11 DEF DestroyAgain, At, Return, Goto
<1>12. ASSUME NEW c \in Callers, DestroyBegin(c) PROVE Quiet'
  BY <1>12 DEF DestroyBegin, AlreadyDown, ShutDown, At, AfterBroadcast, Waiting
<1>13. ASSUME NEW c \in Callers, DestroyJoin(c) PROVE Quiet'
  BY <1>13 DEF DestroyJoin, At, Goto
<1>14. ASSUME NEW c \in Callers, FreeArrays(c) PROVE Quiet'
  BY <1>14 DEF FreeArrays, At, Leave, Return, Goto
<1>15. ASSUME NEW c \in Callers, FreeRest(c) PROVE Quiet'
  BY <1>15 DEF FreeRest, At, Leave, Return, Goto
<1>16. ASSUME NEW w \in Workers, WorkerLock(w) PROVE Quiet'
  BY <1>16 DEF WorkerLock, At, Goto
<1>17. ASSUME NEW w \in Workers, WorkerWait(w) PROVE Quiet'
  BY <1>17 DEF WorkerWait, At, Goto
<1>18. ASSUME NEW w \in Workers, WorkerExit(w) PROVE Quiet'
  BY <1>18 DEF WorkerExit, At, Goto
<1>19. ASSUME NEW w \in Workers, WorkerGrab(w) PROVE Quiet'
  BY <1>19 DEF WorkerGrab, At, Goto
<1>20. ASSUME NEW w \in Workers, WorkerTake(w) PROVE Quiet'
  BY <1>20 DEF WorkerTake, At, Goto
<1>21. ASSUME NEW w \in Workers, WorkerDone(w) PROVE Quiet'
  BY <1>21 DEF WorkerDone, At, Goto
<1>22. ASSUME NEW w \in Workers, SpuriousWakeup(w) PROVE Quiet'
  BY <1>22 DEF SpuriousWakeup, At, Goto
<1>23. ASSUME NEW p \in Procs, Undefined(p) PROVE Quiet'
  BY <1>23, NothingUndefined
<1>24. CASE Terminated
  BY <1>1, <1>24 DEF Terminated
<1>25. QED
  BY <1>1, <1>2, <1>3, <1>4, <1>5, <1>6, <1>7, <1>8, <1>9, <1>10, <1>11, <1>12,
     <1>13, <1>14, <1>15, <1>16, <1>17, <1>18, <1>19, <1>20, <1>21, <1>22,
     <1>23, <1>24
  DEF Next, AddStep, DestroyStep, WorkerStep

(* Every step keeps Memory.  Joining is the interesting one: thread_count  *)
(* is the number of threads started, so that when all of those have been   *)
(* joined, all workers have ended and started is 0 (threadpool.c:180-186,  *)
(* 196).                                                                   *)
LEMMA MemoryStep ==
    Calm /\ Types /\ PlacesOK /\ Birth /\ Memory /\ Unspawned /\ Counted /\
    Quiet /\ [Next]_vars => Memory'
<1> SUFFICES ASSUME Calm, Types, PlacesOK, Birth, Memory, Unspawned, Counted,
                    Quiet, [Next]_vars
             PROVE Memory'
  OBVIOUS
<1> USE NamesAssumption
<1>1. CASE UNCHANGED vars
  BY <1>1
  DEF vars, buffer, fields, memory, calls, hist, Types, CtlType, FieldsType,
      MemoryType, PlacesOK, CallerPlaces, WorkerPlaces, Procs, fields, memory,
      Calm, Birth, OthersIdle, AllLive, Unused, AllEnded, Quiet, Destroying,
      Memory
<1>2. CASE Create
  <2>1. /\ pc[Main] = "create" /\ handle = "none" /\ shutdown = "no"
        /\ Unused /\ OthersIdle /\ thread_count = 0
        /\ UNCHANGED fields
    BY <1>2 DEF Create, Birth, PlacesOK
  <2>2. started = 0
    <3>1. Alive(0) = {}
      BY CountFact DEF Alive, Workers
    <3>2. QED
      BY <2>1, <3>1, FS_EmptySet DEF Counted
  <2>3. /\ Unused' /\ AllEnded' /\ started' = 0
        /\ \A c \in Callers : c # Main => pc'[c] = "idle"
    <3>1. \A q \in Procs : q # Main => pc'[q] = pc[q]
      BY <1>2 DEF Create, CreateFails, Goto, Types, CtlType
    <3>2. QED
      BY <2>1, <2>2, <3>1 DEF Unused, AllEnded, OthersIdle, Procs, fields
  <2>4. \/ /\ pc'[Main] = "idle" /\ handle' = "null" /\ mem' = mem
        \/ /\ pc'[Main] = "free" /\ handle' = handle
           /\ \A m \in Parts : mem'[m] # "gone" /\ (mem'[m] = "none" => m \in MayFail)
           /\ mem'["pool"] = "live" /\ mem'["lock"] = "live" /\ mem'["notify"] = "live"
        \/ pc'[Main] = "spawn" /\ handle' = handle
    <3>1. CASE \E F \in SUBSET (MayFail \ {"spawn"}) : CreateFails(F)
      <4>1. PICK F \in SUBSET (MayFail \ {"spawn"}) : CreateFails(F)
        BY <3>1
      <4>2. QED
        BY <4>1 DEF CreateFails, Goto, Types, CtlType, Calm, Procs, Parts
    <3>2. CASE pc' = [pc EXCEPT ![Main] = "spawn"] /\ handle' = handle
      BY <3>2 DEF Types, CtlType, Procs
    <3>3. QED
      BY <1>2, <3>1, <3>2 DEF Create, Goto
  <2>5. QED
    BY <2>1, <2>3, <2>4 DEF Memory
<1>3. CASE Spawn
  BY <1>3, SpawnedWorker
  DEF Spawn, At, Goto, Types, CtlType, FieldsType, MemoryType, PlacesOK,
      CallerPlaces, WorkerPlaces, Procs, fields, memory, Calm, Birth,
      OthersIdle, AllLive, Unused, AllEnded, Quiet, Destroying, Memory
<1>4. CASE CountThread
  BY <1>4
  DEF CountThread, At, Goto, Types, CtlType, FieldsType, MemoryType, PlacesOK,
      CallerPlaces, WorkerPlaces, Procs, fields, memory, Calm, Birth,
      OthersIdle, AllLive, Unused, AllEnded, Quiet, Destroying, Memory
<1>5. ASSUME NEW p \in Procs, NEW t \in Tasks, AddCall(p, t) PROVE Memory'
  BY <1>5
  DEF AddCall, Goto, Types, CtlType, FieldsType, MemoryType, PlacesOK,
      CallerPlaces, WorkerPlaces, Procs, fields, memory, Calm, Birth,
      OthersIdle, AllLive, Unused, AllEnded, Quiet, Destroying, Memory
<1>6. ASSUME NEW p \in Procs, AddLock(p) PROVE Memory'
  BY <1>6
  DEF AddLock, At, Goto, Types, CtlType, FieldsType, MemoryType, PlacesOK,
      CallerPlaces, WorkerPlaces, Procs, fields, memory, Calm, Birth,
      OthersIdle, AllLive, Unused, AllEnded, Quiet, Destroying, Memory
<1>7. ASSUME NEW p \in Procs, NEW r \in {"queue_full", "shutdown"},
             AddRefuse(p, r)
      PROVE Memory'
  BY <1>7
  DEF AddRefuse, At, Return, Goto, Types, CtlType, FieldsType, MemoryType,
      PlacesOK, CallerPlaces, WorkerPlaces, Procs, fields, memory, Calm,
      Birth, OthersIdle, AllLive, Unused, AllEnded, Quiet, Destroying, Memory
<1>8. ASSUME NEW p \in Procs, AddStore(p) PROVE Memory'
  <2>1. pc[p] = "add" /\ (pc'[p] = IF p \in Workers THEN "run" ELSE "idle")
    BY <1>8, Signalled DEF AddStore, At, Types
  <2>2. \A q \in Procs \ {p} : pc'[q] = pc[q] \/ (q \in Waiting /\ pc'[q] = "lock")
    BY <1>8, Signalled DEF Types
  <2>3. UNCHANGED <<fields, memory>>
    BY <1>8 DEF AddStore
  <2>4. QED
    BY <2>1, <2>2, <2>3
    DEF Waiting, Types, CtlType, FieldsType, MemoryType, PlacesOK,
        CallerPlaces, WorkerPlaces, Procs, fields, memory, Unused, AllLive,
        AllEnded, Memory
<1>9. ASSUME NEW c \in Callers, NEW f \in {"immediate", "graceful"},
             DestroyCall(c, f)
      PROVE Memory'
  BY <1>9
  DEF DestroyCall, Goto, Types, CtlType, FieldsType, MemoryType, PlacesOK,
      CallerPlaces, WorkerPlaces, Procs, fields, memory, Calm, Birth,
      OthersIdle, AllLive, Unused, AllEnded, Quiet, Destroying, Memory
<1>10. ASSUME NEW c \in Callers, DestroyLock(c) PROVE Memory'
  BY <1>10
  DEF DestroyLock, At, Goto, Types, CtlType, FieldsType, MemoryType, PlacesOK,
      CallerPlaces, WorkerPlaces, Procs, fields, memory, Calm, Birth,
      OthersIdle, AllLive, Unused, AllEnded, Quiet, Destroying, Memory
<1>11. ASSUME NEW c \in Callers, DestroyAgain(c) PROVE Memory'
  BY <1>11
  DEF DestroyAgain, At, Return, Goto, Types, CtlType, FieldsType, MemoryType,
      PlacesOK, CallerPlaces, WorkerPlaces, Procs, fields, memory, Calm,
      Birth, OthersIdle, AllLive, Unused, AllEnded, Quiet, Destroying, Memory
<1>12. ASSUME NEW c \in Callers, DestroyBegin(c) PROVE Memory'
  BY <1>12
  DEF DestroyBegin, AlreadyDown, ShutDown, At, AfterBroadcast, Waiting, Types,
      CtlType, FieldsType, MemoryType, PlacesOK, CallerPlaces, WorkerPlaces,
      Procs, fields, memory, Calm, Birth, OthersIdle, AllLive, Unused, AllEnded,
      Quiet, Destroying, Memory
<1>13. ASSUME NEW c \in Callers, DestroyJoin(c) PROVE Memory'
  <2>1. /\ pc[c] = "join" /\ pc' = [pc EXCEPT ![c] = "free"]
        /\ Joined /\ shutdown # "no" /\ AllLive
        /\ UNCHANGED <<fields, memory>>
    BY <1>13 DEF DestroyJoin, At, Goto, Birth, Memory
  <2>2. pc[Main] # "count"
    BY <2>1 DEF Birth
  <2>3. ASSUME NEW w \in Workers PROVE pc[w] \in {"unborn", "dead"}
    <3>1. CASE w > thread_count
      BY <2>2, <3>1 DEF Unspawned
    <3>2. CASE w <= thread_count
      <4>1. w \in 1..thread_count
        BY <3>2, CountFact DEF Workers, Types, FieldsType
      <4>2. QED
        BY <2>1, <4>1 DEF Joined
    <3>3. QED
      BY <3>1, <3>2, CountFact DEF Workers, Types, FieldsType
  <2>4. started = 0
    <3>1. Alive(thread_count) = {}
      <4> SUFFICES ASSUME NEW w \in Alive(thread_count) PROVE FALSE
        OBVIOUS
      <4>1. w \in Workers /\ w <= thread_count /\ pc[w] # "dead"
        BY DEF Alive
      <4>2. w \in 1..thread_count
        BY <4>1, CountFact DEF Workers, Types, FieldsType
      <4>3. QED
        BY <2>1, <4>1, <4>2 DEF Joined
    <3>2. QED
      BY <3>1, FS_EmptySet DEF Counted
  <2>5. AllEnded /\ AllEnded'
    BY <2>1, <2>3 DEF AllEnded, Types, CtlType, Procs
  <2>6. \A d \in Callers : d # c => pc'[d] = "idle"
    BY <2>1 DEF Quiet, Destroying, Types, CtlType, Procs
  <2>7. pc'[c] = "free" /\ handle \notin {"null", "gone"}
    BY <2>1 DEF Types, CtlType, Procs, Quiet
  <2>8. mem'["pool"] = "live" /\ mem'["lock"] = "live" /\ mem'["notify"] = "live"
    BY <2>1 DEF AllLive, memory, Parts
  <2>9. \A m \in Parts : mem'[m] = "live"
    BY <2>1 DEF AllLive, memory
  <2>10. QED
    BY <2>1, <2>4, <2>5, <2>6, <2>7, <2>8, <2>9
    DEF Memory, fields, memory, AllLive
<1>14. ASSUME NEW c \in Callers, FreeArrays(c) PROVE Memory'
  <2>1. /\ pc[c] = "free" /\ started = 0 /\ AllEnded
        /\ mem["pool"] = "live" /\ mem["lock"] = "live" /\ mem["notify"] = "live"
        /\ \A m \in Parts : mem[m] # "gone" /\ (mem[m] = "none" => m \in MayFail)
        /\ UNCHANGED fields
    BY <1>14 DEF FreeArrays, At, Memory
  <2>2. \A d \in Callers : d # c => pc'[d] = "idle"
    BY <1>14, <2>1
    DEF FreeArrays, Leave, Return, Goto, Quiet, Destroying, Types, CtlType,
        Procs
  <2>3. AllEnded' /\ started' = 0
    BY <1>14, <2>1
    DEF FreeArrays, Leave, Return, Goto, AllEnded, Types, CtlType, Procs, fields
  <2>4. CASE /\ mem["threads"] = "none" /\ Leave(c) /\ mem' = Released({"pool"})
    <3>1. pc'[c] = "idle" /\ handle' \in {"null", "gone"} /\ "threads" \in MayFail
      BY <2>1, <2>4 DEF Leave, Return, Goto, Types, CtlType, Procs, Parts
    <3>2. QED
      BY <2>2, <2>3, <3>1 DEF Memory
  <2>5. CASE /\ mem' = Released({"threads", "queue"}) /\ Goto(c, "free_lock")
             /\ UNCHANGED <<ret, handle>>
    <3>1. /\ pc'[c] = "free_lock" /\ handle' = handle
          /\ mem'["pool"] = "live" /\ mem'["lock"] = "live" /\ mem'["notify"] = "live"
          /\ mem'["threads"] # "live" /\ mem'["queue"] # "live"
      BY <2>1, <2>5 DEF Goto, Types, CtlType, Procs, Parts, Released
    <3>2. handle \notin {"null", "gone"}
      BY <2>1 DEF Quiet
    <3>3. QED
      BY <2>2, <2>3, <3>1, <3>2 DEF Memory
  <2>6. QED
    BY <1>14, <2>1, <2>4, <2>5 DEF FreeArrays
<1>15. ASSUME NEW c \in Callers, FreeRest(c) PROVE Memory'
  <2>1. /\ pc[c] = "free_lock" /\ AllEnded
        /\ mem["threads"] # "live" /\ mem["queue"] # "live"
    BY <1>15 DEF FreeRest, At, Memory
  <2>2. \A d \in Callers : pc'[d] = "idle"
    BY <1>15, <2>1
    DEF FreeRest, Leave, Return, Goto, Quiet, Destroying, Types, CtlType,
        Procs
  <2>3. AllEnded'
    BY <1>15, <2>1
    DEF FreeRest, Leave, Return, Goto, AllEnded, Types, CtlType, Procs
  <2>4. \A m \in Parts : mem'[m] # "live"
    BY <1>15, <2>1 DEF FreeRest, Released, Parts
  <2>5. handle' \in {"null", "gone"}
    BY <1>15 DEF FreeRest, Leave
  <2>6. QED
    BY <2>2, <2>3, <2>4, <2>5 DEF Memory
<1>16. ASSUME NEW w \in Workers, WorkerLock(w) PROVE Memory'
  BY <1>16
  DEF WorkerLock, At, Goto, Types, CtlType, FieldsType, MemoryType, PlacesOK,
      CallerPlaces, WorkerPlaces, Procs, fields, memory, Calm, Birth,
      OthersIdle, AllLive, Unused, AllEnded, Quiet, Destroying, Memory
<1>17. ASSUME NEW w \in Workers, WorkerWait(w) PROVE Memory'
  BY <1>17
  DEF WorkerWait, At, Goto, Types, CtlType, FieldsType, MemoryType, PlacesOK,
      CallerPlaces, WorkerPlaces, Procs, fields, memory, Calm, Birth,
      OthersIdle, AllLive, Unused, AllEnded, Quiet, Destroying, Memory
<1>18. ASSUME NEW w \in Workers, WorkerExit(w) PROVE Memory'
  BY <1>18
  DEF WorkerExit, At, Goto, Types, CtlType, FieldsType, MemoryType, PlacesOK,
      CallerPlaces, WorkerPlaces, Procs, fields, memory, Calm, Birth,
      OthersIdle, AllLive, Unused, AllEnded, Quiet, Destroying, Memory
<1>19. ASSUME NEW w \in Workers, WorkerGrab(w) PROVE Memory'
  BY <1>19
  DEF WorkerGrab, At, Goto, Types, CtlType, FieldsType, MemoryType, PlacesOK,
      CallerPlaces, WorkerPlaces, Procs, fields, memory, Calm, Birth,
      OthersIdle, AllLive, Unused, AllEnded, Quiet, Destroying, Memory
<1>20. ASSUME NEW w \in Workers, WorkerTake(w) PROVE Memory'
  BY <1>20
  DEF WorkerTake, At, Goto, Types, CtlType, FieldsType, MemoryType, PlacesOK,
      CallerPlaces, WorkerPlaces, Procs, fields, memory, Calm, Birth,
      OthersIdle, AllLive, Unused, AllEnded, Quiet, Destroying, Memory
<1>21. ASSUME NEW w \in Workers, WorkerDone(w) PROVE Memory'
  BY <1>21
  DEF WorkerDone, At, Goto, Types, CtlType, FieldsType, MemoryType, PlacesOK,
      CallerPlaces, WorkerPlaces, Procs, fields, memory, Calm, Birth,
      OthersIdle, AllLive, Unused, AllEnded, Quiet, Destroying, Memory
<1>22. ASSUME NEW w \in Workers, SpuriousWakeup(w) PROVE Memory'
  BY <1>22
  DEF SpuriousWakeup, At, Goto, Types, CtlType, FieldsType, MemoryType,
      PlacesOK, CallerPlaces, WorkerPlaces, Procs, fields, memory, Calm,
      Birth, OthersIdle, AllLive, Unused, AllEnded, Quiet, Destroying, Memory
<1>23. ASSUME NEW p \in Procs, Undefined(p) PROVE Memory'
  BY <1>23, NothingUndefined
<1>24. CASE Terminated
  BY <1>1, <1>24 DEF Terminated
<1>25. QED
  BY <1>1, <1>2, <1>3, <1>4, <1>5, <1>6, <1>7, <1>8, <1>9, <1>10, <1>11, <1>12,
     <1>13, <1>14, <1>15, <1>16, <1>17, <1>18, <1>19, <1>20, <1>21, <1>22,
     <1>23, <1>24
  DEF Next, AddStep, DestroyStep, WorkerStep

(* Every step keeps LockReleased.  DestroyAgain, which would not, is not   *)
(* possible: it needs two destroys at a time.                              *)
LEMMA LockReleasedStep ==
    Calm /\ Types /\ PlacesOK /\ Birth /\ Memory /\ Unspawned /\
    MutualExclusion /\ Quiet /\ LockReleased /\ [Next]_vars => LockReleased'
<1> SUFFICES ASSUME Calm, Types, PlacesOK, Birth, Memory, Unspawned,
                    MutualExclusion, Quiet, LockReleased, [Next]_vars
             PROVE LockReleased'
  OBVIOUS
<1> USE NamesAssumption
  DEF Types, CtlType, FieldsType, MemoryType, PlacesOK, CallerPlaces,
      WorkerPlaces, Procs, fields, memory, Critical, MutualExclusion,
      LockReleased
<1>1. CASE UNCHANGED vars
  BY <1>1 DEF vars, buffer, fields, memory, calls, hist
<1>2. CASE Create
  BY <1>2 DEF Create, CreateFails, Goto
<1>3. CASE Spawn
  BY <1>3, SpawnedWorker DEF Spawn, At, Goto, Unspawned
<1>4. CASE CountThread
  BY <1>4 DEF CountThread, At, Goto
<1>5. ASSUME NEW p \in Procs, NEW t \in Tasks, AddCall(p, t) PROVE LockReleased'
  BY <1>5 DEF AddCall, Goto
<1>6. ASSUME NEW p \in Procs, AddLock(p) PROVE LockReleased'
  BY <1>6 DEF AddLock, At, Goto
<1>7. ASSUME NEW p \in Procs, NEW r \in {"queue_full", "shutdown"},
             AddRefuse(p, r)
      PROVE LockReleased'
  BY <1>7 DEF AddRefuse, At, Return, Goto
<1>8. ASSUME NEW p \in Procs, AddStore(p) PROVE LockReleased'
  BY <1>8 DEF AddStore
<1>9. ASSUME NEW c \in Callers, NEW f \in {"immediate", "graceful"},
             DestroyCall(c, f)
      PROVE LockReleased'
  BY <1>9 DEF DestroyCall, Goto
<1>10. ASSUME NEW c \in Callers, DestroyLock(c) PROVE LockReleased'
  BY <1>10 DEF DestroyLock, At, Goto
<1>11. ASSUME NEW c \in Callers, DestroyAgain(c) PROVE LockReleased'
  BY <1>11
  DEF DestroyAgain, At, Return, Goto, AlreadyDown, ShutDown, Quiet, Destroying
<1>12. ASSUME NEW c \in Callers, DestroyBegin(c) PROVE LockReleased'
  BY <1>12 DEF DestroyBegin
<1>13. ASSUME NEW c \in Callers, DestroyJoin(c) PROVE LockReleased'
  BY <1>13 DEF DestroyJoin, At, Goto
<1>14. ASSUME NEW c \in Callers, FreeArrays(c) PROVE LockReleased'
  BY <1>14 DEF FreeArrays, At, Leave, Return, Goto
<1>15. ASSUME NEW c \in Callers, FreeRest(c) PROVE LockReleased'
  BY <1>15 DEF FreeRest, At, Leave, Return, Goto
<1>16. ASSUME NEW w \in Workers, WorkerLock(w) PROVE LockReleased'
  BY <1>16 DEF WorkerLock, At, Goto
<1>17. ASSUME NEW w \in Workers, WorkerWait(w) PROVE LockReleased'
  BY <1>17 DEF WorkerWait, At, Goto
<1>18. ASSUME NEW w \in Workers, WorkerExit(w) PROVE LockReleased'
  BY <1>18 DEF WorkerExit, At, Goto
<1>19. ASSUME NEW w \in Workers, WorkerGrab(w) PROVE LockReleased'
  BY <1>19 DEF WorkerGrab, At, Goto
<1>20. ASSUME NEW w \in Workers, WorkerTake(w) PROVE LockReleased'
  BY <1>20 DEF WorkerTake, At, Goto
<1>21. ASSUME NEW w \in Workers, WorkerDone(w) PROVE LockReleased'
  BY <1>21 DEF WorkerDone, At, Goto
<1>22. ASSUME NEW w \in Workers, SpuriousWakeup(w) PROVE LockReleased'
  BY <1>22 DEF SpuriousWakeup, At, Goto
<1>23. ASSUME NEW p \in Procs, Undefined(p) PROVE LockReleased'
  BY <1>23, NothingUndefined
<1>24. CASE Terminated
  BY <1>1, <1>24 DEF Terminated
<1>25. QED
  BY <1>1, <1>2, <1>3, <1>4, <1>5, <1>6, <1>7, <1>8, <1>9, <1>10, <1>11, <1>12,
     <1>13, <1>14, <1>15, <1>16, <1>17, <1>18, <1>19, <1>20, <1>21, <1>22,
     <1>23, <1>24
  DEF Next, AddStep, DestroyStep, WorkerStep

-----------------------------------------------------------------------------
(* The life of the pool, whatever may fail or overlap.                     *)
LifeInv == PlacesOK /\ Birth /\ Unspawned /\ Counted /\ OneDestroyer /\ NoLostWakeup

(* It holds before threadpool_create.                                      *)
LEMMA LifeInit == Init => LifeInv
<1> SUFFICES ASSUME Init PROVE LifeInv
  OBVIOUS
<1> USE NamesAssumption
<1>1. /\ \A w \in Workers : pc[w] = "unborn"
      /\ \A c \in Callers : pc[c] = IF c = Main THEN "create" ELSE "idle"
  BY DEF Init, Procs
<1>2. /\ shutdown = "no" /\ started = 0 /\ thread_count = 0 /\ handle = "none"
  BY DEF Init
<1>3. PlacesOK
  BY <1>1, <1>2, CountFact DEF PlacesOK, CallerPlaces, WorkerPlaces
<1>4. Birth
  BY <1>1, <1>2 DEF Birth, OthersIdle, Unused
<1>5. Unspawned
  BY <1>1 DEF Unspawned
<1>6. Counted
  <2>1. Alive(thread_count) = {}
    BY <1>2, CountFact DEF Alive, Workers
  <2>2. QED
    BY <1>2, <2>1, FS_EmptySet DEF Counted
<1>7. OneDestroyer /\ NoLostWakeup
  BY <1>1 DEF OneDestroyer, NoLostWakeup, Waiting
<1>8. QED
  BY <1>3, <1>4, <1>5, <1>6, <1>7 DEF LifeInv

(* It is invariant, together with IInv.                                    *)
LEMMA LifeInductive == Spec => []LifeInv
<1>1. Init => LifeInv
  BY LifeInit
<1>2. IInv /\ LifeInv /\ [Next]_vars => LifeInv'
  BY PlacesStep, BirthStep, UnspawnedStep, CountedStep, OneDestroyerStep,
     NoLostWakeupStep DEF IInv, LifeInv
<1>3. QED
  BY <1>1, <1>2, Inductive, PTL DEF Spec

(* Of the threads that call threadpool_destroy at most one joins the       *)
(* workers and frees the pool, even when calls overlap and whatever fails  *)
(* (threadpool.c:165-168).                                                 *)
THEOREM OneJoinsAndFrees == Spec => []OneDestroyer
<1>1. LifeInv => OneDestroyer
  BY DEF LifeInv
<1>2. QED
  BY <1>1, LifeInductive, PTL

(* One pthread_cond_signal per task is enough, for any number of workers   *)
(* and adders and with spurious wake-ups: while a worker sleeps, the pool  *)
(* is not shut down and every pending task has a worker on its way to it   *)
(* (threadpool.c:131, 176, 237-240).                                       *)
THEOREM NoWakeupIsLost == Spec => []NoLostWakeup
<1>1. LifeInv => NoLostWakeup
  BY DEF LifeInv
<1>2. QED
  BY <1>1, LifeInductive, PTL

-----------------------------------------------------------------------------
(* The life of the pool when its user keeps to Calm.                       *)
CalmInv == Memory /\ Quiet /\ LockReleased /\ NoUseAfterFree

(* It holds before threadpool_create.                                      *)
LEMMA CalmInit == Init => CalmInv
<1> SUFFICES ASSUME Init PROVE CalmInv
  OBVIOUS
<1> USE NamesAssumption
<1>1. /\ \A w \in Workers : pc[w] = "unborn"
      /\ \A c \in Callers : pc[c] = IF c = Main THEN "create" ELSE "idle"
  BY DEF Init, Procs
<1>2. /\ shutdown = "no" /\ handle = "none" /\ lock = NoThread
      /\ \A m \in Parts : mem[m] = "none"
  BY DEF Init
<1>3. Memory
  BY <1>1, <1>2 DEF Memory, AllEnded
<1>4. Quiet
  BY <1>1, <1>2 DEF Quiet, Destroying
<1>5. LockReleased /\ NoUseAfterFree
  BY <1>1, <1>2 DEF LockReleased, NoUseAfterFree, Procs
<1>6. QED
  BY <1>3, <1>4, <1>5 DEF CalmInv

(* It is invariant, together with IInv and LifeInv.                        *)
LEMMA CalmInductive == ASSUME Calm PROVE Spec => []CalmInv
<1>1. Init => CalmInv
  BY CalmInit
<1>2. IInv /\ LifeInv /\ CalmInv /\ [Next]_vars => CalmInv'
  BY Calm, MemoryStep, QuietStep, LockReleasedStep, UseAfterFreeStep
  DEF IInv, LifeInv, CalmInv
<1>3. QED
  BY <1>1, <1>2, Inductive, LifeInductive, PTL DEF Spec

(* Nobody leaves the mutex locked behind (threadpool.c:275 remarks on it), *)
(* if the calls of the program do not overlap a destroy.                   *)
THEOREM LockIsReleased == ASSUME Calm PROVE Spec => []LockReleased
<1>1. CalmInv => LockReleased
  BY DEF CalmInv
<1>2. QED
  BY <1>1, CalmInductive, PTL

(* No thread touches a part of the pool that is not initialised or already *)
(* freed, whichever allocation or pthread_create fails                     *)
(* (threadpool.c:39-92, 193-221), if the calls of the program do not       *)
(* overlap a destroy.                                                      *)
THEOREM NothingUsedAfterFree == ASSUME Calm PROVE Spec => []NoUseAfterFree
<1>1. CalmInv => NoUseAfterFree
  BY DEF CalmInv
<1>2. QED
  BY <1>1, CalmInductive, PTL

(* After a destroy or a failed creation nothing of the pool is left, and   *)
(* no worker.  If the array of threads cannot be allocated,                *)
(* threadpool_free does not free the queue (threadpool.c:203-216), so that *)
(* this case is excluded.                                                  *)
THEOREM AllReclaimed == ASSUME Calm, "threads" \notin MayFail PROVE Spec => []Reclaimed
<1>1. CalmInv => Reclaimed
  BY "threads" \notin MayFail DEF CalmInv, Memory, Reclaimed, AllEnded
<1>2. QED
  BY <1>1, CalmInductive, PTL
-----------------------------------------------------------------------------
(* Who is inside threadpool_add, which workers have a task they have not   *)
(* ended, and those tasks.                                                 *)
Adding  == {p \in Procs : pc[p] \in {"add_lock", "add"}}
Busy    == {w \in Workers : pc[w] \in {"run", "add_lock", "add"}}
Running == {job[w] : w \in Busy}

(* A task is submitted by one thread at a time, and accepted once.         *)
Unique ==
    /\ \A i, j \in 1..Len(accepted) : accepted[i] = accepted[j] => i = j
    /\ \A i \in 1..Len(accepted) : accepted[i] \notin todo
    /\ \A p \in Adding : /\ arg[p] \notin todo
                         /\ \A i \in 1..Len(accepted) : accepted[i] # arg[p]
    /\ \A p, q \in Adding : arg[p] = arg[q] => p = q

(* A worker's task was dequeued, has not been run to its end, and is no    *)
(* other worker's; a task that was run had been dequeued.                  *)
Executed ==
    /\ \A w \in Busy : \E i \in 1..taken : job[w] = accepted[i]
    /\ \A w \in Busy : runs[job[w]] = 0
    /\ \A v, w \in Busy : job[v] = job[w] => v = w
    /\ \A t \in Tasks : runs[t] > 0 => \E i \in 1..taken : t = accepted[i]

(* Tasks are accepted only by a pool that was created; no worker takes a   *)
(* task after an immediate shutdown, and none ends after a graceful one    *)
(* before the queue is empty.                                              *)
Endings ==
    /\ handle = "none" => accepted = <<>> /\ Adding = {}
    /\ handle = "ok" => thread_count >= 1
    /\ \A w \in Workers : pc[w] = "take" => shutdown # "immediate"
    /\ \A w \in Workers : pc[w] = "dead" /\ shutdown = "graceful" => count = 0

(* What IInv says of the queue's length.                                   *)
LEMMA PendingFact ==
    ASSUME IInv
    PROVE  /\ accepted \in Seq(Tasks) /\ taken \in Nat /\ Len(accepted) \in Nat
           /\ count = Len(accepted) - taken /\ taken <= Len(accepted)
           /\ count <= QueueSize
<1>1. accepted \in Seq(Tasks) /\ taken \in Nat /\ Len(accepted) \in Nat
  BY DEF IInv, Types, HistType
<1>2. count = Len(accepted) - taken /\ 0 <= count /\ count <= QueueSize
  BY DEF IInv, BufferInv, BufferHoldsPending
<1>3. QED
  BY <1>1, <1>2

(* Steps that do not touch what Unique is about keep it;                   *)
LEMMA UniqueSame ==
    ASSUME Unique, UNCHANGED <<accepted, arg, todo>>, Adding' \subseteq Adding
    PROVE  Unique'
  BY DEF Unique

(* the same for Executed,                                                  *)
LEMMA ExecutedSame ==
    ASSUME Executed, UNCHANGED <<accepted, taken, runs>>, Busy' \subseteq Busy,
           \A w \in Busy' : job'[w] = job[w]
    PROVE  Executed'
  BY DEF Executed

(* Every step keeps Unique.                                                *)
LEMMA UniqueStep == IInv /\ PlacesOK /\ Unique /\ [Next]_vars => Unique'
<1> SUFFICES ASSUME IInv, PlacesOK, Unique, [Next]_vars PROVE Unique'
  OBVIOUS
<1> USE NamesAssumption
<1>1. CASE UNCHANGED vars
  BY <1>1, UniqueSame
  DEF vars, buffer, fields, memory, calls, hist, IInv, Types, CtlType,
      CallsType, JobType, HistType, Procs, hist, calls, Adding
<1>2. CASE Create
  BY <1>2, UniqueSame
  DEF Create, CreateFails, Goto, IInv, Types, CtlType, CallsType, JobType,
      HistType, Procs, hist, calls, Adding
<1>3. CASE Spawn
  BY <1>3, UniqueSame
  DEF Spawn, At, Goto, IInv, Types, CtlType, CallsType, JobType, HistType,
      Procs, hist, calls, Adding
<1>4. CASE CountThread
  BY <1>4, UniqueSame
  DEF CountThread, At, Goto, IInv, Types, CtlType, CallsType, JobType,
      HistType, Procs, hist, calls, Adding
<1>5. ASSUME NEW p \in Procs, NEW t \in Tasks, AddCall(p, t) PROVE Unique'
  <2>1. /\ t \in todo /\ todo' = todo \ {t} /\ arg' = [arg EXCEPT ![p] = t]
        /\ accepted' = accepted
        /\ pc' = [pc EXCEPT ![p] = "add_lock"] /\ p \notin Adding
    BY <1>5 DEF AddCall, Goto, Adding
  <2>2. Adding' = Adding \cup {p}
    BY <2>1 DEF Adding, IInv, Types, CtlType
  <2>3. arg'[p] = t /\ \A q \in Adding : arg'[q] = arg[q]
    BY <2>1 DEF Adding, IInv, Types, CallsType
  <2>4. \A q \in Adding : arg[q] # t
    BY <2>1 DEF Unique
  <2>5. QED
    BY <2>1, <2>2, <2>3, <2>4 DEF Unique
<1>6. ASSUME NEW p \in Procs, AddLock(p) PROVE Unique'
  BY <1>6, UniqueSame
  DEF AddLock, At, Goto, IInv, Types, CtlType, CallsType, JobType, HistType,
      Procs, hist, calls, Adding
<1>7. ASSUME NEW p \in Procs, NEW r \in {"queue_full", "shutdown"},
             AddRefuse(p, r)
      PROVE Unique'
  <2>1. /\ pc[p] = "add" /\ todo' = todo \cup {arg[p]}
        /\ UNCHANGED <<accepted, arg>>
        /\ pc' = [pc EXCEPT ![p] = IF p \in Workers THEN "run" ELSE "idle"]
    BY <1>7 DEF AddRefuse, At, Return, Goto
  <2>2. p \in Adding /\ Adding' = Adding \ {p}
    BY <2>1 DEF Adding, IInv, Types, CtlType
  <2>3. QED
    BY <2>1, <2>2 DEF Unique
<1>8. ASSUME NEW p \in Procs, AddStore(p) PROVE Unique'
  <2>1. /\ pc[p] = "add" /\ accepted' = Append(accepted, arg[p])
        /\ UNCHANGED <<arg, todo>>
    BY <1>8 DEF AddStore, At
  <2>2. p \in Adding /\ Adding' = Adding \ {p}
    BY <1>8, <2>1, Signalled DEF Adding, Waiting, IInv, Types, Procs
  <2>3. /\ Len(accepted') = Len(accepted) + 1 /\ Len(accepted) \in Nat
        /\ accepted'[Len(accepted) + 1] = arg[p]
        /\ \A i \in 1..Len(accepted) : accepted'[i] = accepted[i]
    BY <2>1, PendingFact DEF IInv, Types, CallsType
  <2>4. \A i \in 1..Len(accepted') : i \in 1..Len(accepted) \/ i = Len(accepted) + 1
    BY <2>3
  <2>5. \A i, j \in 1..Len(accepted') : accepted'[i] = accepted'[j] => i = j
    BY <2>2, <2>3, <2>4 DEF Unique
  <2>6. \A i \in 1..Len(accepted') : accepted'[i] \notin todo
    BY <2>2, <2>3, <2>4 DEF Unique
  <2>7. \A q \in Adding' : \A i \in 1..Len(accepted') : accepted'[i] # arg[q]
    BY <2>2, <2>3, <2>4 DEF Unique
  <2>8. QED
    BY <2>1, <2>2, <2>5, <2>6, <2>7 DEF Unique
<1>9. ASSUME NEW c \in Callers, NEW f \in {"immediate", "graceful"},
             DestroyCall(c, f)
      PROVE Unique'
  BY <1>9, UniqueSame
  DEF DestroyCall, Goto, IInv, Types, CtlType, CallsType, JobType, HistType,
      Procs, hist, calls, Adding
<1>10. ASSUME NEW c \in Callers, DestroyLock(c) PROVE Unique'
  BY <1>10, UniqueSame
  DEF DestroyLock, At, Goto, IInv, Types, CtlType, CallsType, JobType,
      HistType, Procs, hist, calls, Adding
<1>11. ASSUME NEW c \in Callers, DestroyAgain(c) PROVE Unique'
  BY <1>11, UniqueSame
  DEF DestroyAgain, At, Return, Goto, IInv, Types, CtlType, CallsType,
      JobType, HistType, Procs, hist, calls, Adding
<1>12. ASSUME NEW c \in Callers, DestroyBegin(c) PROVE Unique'
  BY <1>12, UniqueSame
  DEF DestroyBegin, AlreadyDown, ShutDown, At, AfterBroadcast, Waiting, IInv,
      Types, CtlType, CallsType, JobType, HistType, Procs, hist, calls, Adding
<1>13. ASSUME NEW c \in Callers, DestroyJoin(c) PROVE Unique'
  BY <1>13, UniqueSame
  DEF DestroyJoin, At, Goto, IInv, Types, CtlType, CallsType, JobType,
      HistType, Procs, hist, calls, Adding
<1>14. ASSUME NEW c \in Callers, FreeArrays(c) PROVE Unique'
  BY <1>14, UniqueSame
  DEF FreeArrays, At, Leave, Return, Goto, IInv, Types, CtlType, CallsType,
      JobType, HistType, Procs, hist, calls, Adding
<1>15. ASSUME NEW c \in Callers, FreeRest(c) PROVE Unique'
  BY <1>15, UniqueSame
  DEF FreeRest, At, Leave, Return, Goto, IInv, Types, CtlType, CallsType,
      JobType, HistType, Procs, hist, calls, Adding
<1>16. ASSUME NEW w \in Workers, WorkerLock(w) PROVE Unique'
  BY <1>16, UniqueSame
  DEF WorkerLock, At, Goto, IInv, Types, CtlType, CallsType, JobType,
      HistType, Procs, hist, calls, Adding
<1>17. ASSUME NEW w \in Workers, WorkerWait(w) PROVE Unique'
  BY <1>17, UniqueSame
  DEF WorkerWait, At, Goto, IInv, Types, CtlType, CallsType, JobType,
      HistType, Procs, hist, calls, Adding
<1>18. ASSUME NEW w \in Workers, WorkerExit(w) PROVE Unique'
  BY <1>18, UniqueSame
  DEF WorkerExit, At, Goto, IInv, Types, CtlType, CallsType, JobType,
      HistType, Procs, hist, calls, Adding
<1>19. ASSUME NEW w \in Workers, WorkerGrab(w) PROVE Unique'
  BY <1>19, UniqueSame
  DEF WorkerGrab, At, Goto, IInv, Types, CtlType, CallsType, JobType,
      HistType, Procs, hist, calls, Adding
<1>20. ASSUME NEW w \in Workers, WorkerTake(w) PROVE Unique'
  BY <1>20, UniqueSame
  DEF WorkerTake, At, Goto, IInv, Types, CtlType, CallsType, JobType,
      HistType, Procs, hist, calls, Adding
<1>21. ASSUME NEW w \in Workers, WorkerDone(w) PROVE Unique'
  BY <1>21, UniqueSame
  DEF WorkerDone, At, Goto, IInv, Types, CtlType, CallsType, JobType,
      HistType, Procs, hist, calls, Adding
<1>22. ASSUME NEW w \in Workers, SpuriousWakeup(w) PROVE Unique'
  BY <1>22, UniqueSame
  DEF SpuriousWakeup, At, Goto, IInv, Types, CtlType, CallsType, JobType,
      HistType, Procs, hist, calls, Adding
<1>23. ASSUME NEW p \in Procs, Undefined(p) PROVE Unique'
  BY <1>23, UniqueSame, UndefinedMoves
  DEF Undefined, Goto, IInv, Types, CtlType, CallsType, JobType, HistType,
      Procs, hist, calls, Adding
<1>24. CASE Terminated
  BY <1>1, <1>24 DEF Terminated
<1>25. QED
  BY <1>1, <1>2, <1>3, <1>4, <1>5, <1>6, <1>7, <1>8, <1>9, <1>10, <1>11, <1>12,
     <1>13, <1>14, <1>15, <1>16, <1>17, <1>18, <1>19, <1>20, <1>21, <1>22,
     <1>23, <1>24
  DEF Next, AddStep, DestroyStep, WorkerStep

(* A worker about to dequeue holds the oldest pending task.                *)
LEMMA TakesNext ==
    ASSUME IInv, NEW w \in Workers, pc[w] = "take"
    PROVE  count > 0 /\ job[w] = accepted[taken + 1]
<1>1. count > 0 /\ job[w] = queue[head] /\ head \in 0..QueueSize-1
  BY DEF IInv, BufferInv, LocalInv, Types, BufferType
<1>2. Slot(0) = head /\ 0 \in 0..QueueSize-1
  BY <1>1, SizeFact DEF Slot, Wrap
<1>3. queue[Slot(0)] = accepted[taken + 1 + 0] /\ taken + 1 + 0 = taken + 1
  BY <1>1, <1>2, PendingFact DEF IInv, BufferInv, BufferHoldsPending
<1>4. QED
  BY <1>1, <1>2, <1>3

(* What a busy worker runs is a task.                                      *)
LEMMA JobOfBusy ==
    ASSUME IInv, Executed, NEW w \in Busy
    PROVE  job[w] \in Tasks
<1>1. PICK i \in 1..taken : job[w] = accepted[i]
  BY DEF Executed
<1>2. i \in 1..Len(accepted)
  BY PendingFact
<1>3. QED
  BY <1>1, <1>2, PendingFact

(* Every step keeps Executed: taking a task makes it some worker's, which  *)
(* no worker had before because accepted has no task twice.                *)
LEMMA ExecutedStep ==
    IInv /\ PlacesOK /\ Unique /\ Executed /\ [Next]_vars => Executed'
<1> SUFFICES ASSUME IInv, PlacesOK, Unique, Executed, [Next]_vars
             PROVE Executed'
  OBVIOUS
<1> USE NamesAssumption
<1>1. CASE UNCHANGED vars
  BY <1>1, ExecutedSame
  DEF vars, buffer, fields, memory, calls, hist, IInv, Types, CtlType,
      CallsType, JobType, HistType, Procs, hist, calls, Busy
<1>2. CASE Create
  BY <1>2, ExecutedSame
  DEF Create, CreateFails, Goto, IInv, Types, CtlType, CallsType, JobType,
      HistType, Procs, hist, calls, Busy
<1>3. CASE Spawn
  BY <1>3, ExecutedSame, SpawnedWorker
  DEF Spawn, At, Goto, IInv, Types, CtlType, CallsType, JobType, HistType,
      Procs, hist, calls, Busy
<1>4. CASE CountThread
  BY <1>4, ExecutedSame
  DEF CountThread, At, Goto, IInv, Types, CtlType, CallsType, JobType,
      HistType, Procs, hist, calls, Busy
<1>5. ASSUME NEW p \in Procs, NEW t \in Tasks, AddCall(p, t) PROVE Executed'
  BY <1>5, ExecutedSame
  DEF AddCall, Goto, IInv, Types, CtlType, CallsType, JobType, HistType,
      Procs, hist, calls, Busy
<1>6. ASSUME NEW p \in Procs, AddLock(p) PROVE Executed'
  BY <1>6, ExecutedSame
  DEF AddLock, At, Goto, IInv, Types, CtlType, CallsType, JobType, HistType,
      Procs, hist, calls, Busy
<1>7. ASSUME NEW p \in Procs, NEW r \in {"queue_full", "shutdown"},
             AddRefuse(p, r)
      PROVE Executed'
  BY <1>7, ExecutedSame
  DEF AddRefuse, At, Return, Goto, IInv, Types, CtlType, CallsType, JobType,
      HistType, Procs, hist, calls, Busy
<1>8. ASSUME NEW p \in Procs, AddStore(p) PROVE Executed'
  <2>1. /\ taken' = taken /\ runs' = runs /\ job' = job
        /\ Busy' \subseteq Busy
    BY <1>8, Signalled DEF AddStore, At, Busy, Waiting, IInv, Types, Procs
  <2>2. \A i \in 1..taken : accepted'[i] = accepted[i]
    <3>1. \A i \in 1..Len(accepted) : accepted'[i] = accepted[i]
      BY <1>8, PendingFact DEF AddStore, IInv, Types, CallsType
    <3>2. QED
      BY <3>1, PendingFact
  <2>3. \A v \in Busy' : \E i \in 1..taken' : job'[v] = accepted'[i]
    BY <2>1, <2>2 DEF Executed
  <2>4. \A t \in Tasks : runs'[t] > 0 => \E i \in 1..taken' : t = accepted'[i]
    BY <2>1, <2>2 DEF Executed
  <2>5. QED
    BY <2>1, <2>3, <2>4 DEF Executed
<1>9. ASSUME NEW c \in Callers, NEW f \in {"immediate", "graceful"},
             DestroyCall(c, f)
      PROVE Executed'
  BY <1>9, ExecutedSame
  DEF DestroyCall, Goto, IInv, Types, CtlType, CallsType, JobType, HistType,
      Procs, hist, calls, Busy
<1>10. ASSUME NEW c \in Callers, DestroyLock(c) PROVE Executed'
  BY <1>10, ExecutedSame
  DEF DestroyLock, At, Goto, IInv, Types, CtlType, CallsType, JobType,
      HistType, Procs, hist, calls, Busy
<1>11. ASSUME NEW c \in Callers, DestroyAgain(c) PROVE Executed'
  BY <1>11, ExecutedSame
  DEF DestroyAgain, At, Return, Goto, IInv, Types, CtlType, CallsType,
      JobType, HistType, Procs, hist, calls, Busy
<1>12. ASSUME NEW c \in Callers, DestroyBegin(c) PROVE Executed'
  BY <1>12, ExecutedSame
  DEF DestroyBegin, AlreadyDown, ShutDown, At, AfterBroadcast, Waiting, IInv,
      Types, CtlType, CallsType, JobType, HistType, Procs, hist, calls, Busy
<1>13. ASSUME NEW c \in Callers, DestroyJoin(c) PROVE Executed'
  BY <1>13, ExecutedSame
  DEF DestroyJoin, At, Goto, IInv, Types, CtlType, CallsType, JobType,
      HistType, Procs, hist, calls, Busy
<1>14. ASSUME NEW c \in Callers, FreeArrays(c) PROVE Executed'
  BY <1>14, ExecutedSame
  DEF FreeArrays, At, Leave, Return, Goto, IInv, Types, CtlType, CallsType,
      JobType, HistType, Procs, hist, calls, Busy
<1>15. ASSUME NEW c \in Callers, FreeRest(c) PROVE Executed'
  BY <1>15, ExecutedSame
  DEF FreeRest, At, Leave, Return, Goto, IInv, Types, CtlType, CallsType,
      JobType, HistType, Procs, hist, calls, Busy
<1>16. ASSUME NEW w \in Workers, WorkerLock(w) PROVE Executed'
  BY <1>16, ExecutedSame
  DEF WorkerLock, At, Goto, IInv, Types, CtlType, CallsType, JobType,
      HistType, Procs, hist, calls, Busy
<1>17. ASSUME NEW w \in Workers, WorkerWait(w) PROVE Executed'
  BY <1>17, ExecutedSame
  DEF WorkerWait, At, Goto, IInv, Types, CtlType, CallsType, JobType,
      HistType, Procs, hist, calls, Busy
<1>18. ASSUME NEW w \in Workers, WorkerExit(w) PROVE Executed'
  BY <1>18, ExecutedSame
  DEF WorkerExit, At, Goto, IInv, Types, CtlType, CallsType, JobType,
      HistType, Procs, hist, calls, Busy
<1>19. ASSUME NEW w \in Workers, WorkerGrab(w) PROVE Executed'
  BY <1>19, ExecutedSame
  DEF WorkerGrab, At, Goto, IInv, Types, CtlType, CallsType, JobType,
      HistType, Procs, hist, calls, Busy
<1>20. ASSUME NEW w \in Workers, WorkerTake(w) PROVE Executed'
  <2>1. /\ pc[w] = "take" /\ pc' = [pc EXCEPT ![w] = "run"]
        /\ taken' = taken + 1 /\ UNCHANGED <<accepted, runs, job>>
    BY <1>20 DEF WorkerTake, At, Goto
  <2>2. Busy' = Busy \cup {w}
    BY <2>1 DEF Busy, IInv, Types, CtlType, Procs
  <2>3. count > 0 /\ job[w] = accepted[taken + 1]
    BY <2>1, TakesNext
  <2>4. taken + 1 \in 1..Len(accepted) /\ taken' \in 1..Len(accepted)
    BY <2>1, <2>3, PendingFact
  <2>5. \A i \in 1..taken : i \in 1..Len(accepted) /\ i # taken + 1 /\ i \in 1..taken'
    BY <2>1, <2>4, PendingFact
  <2>6. \A i \in 1..taken : accepted[i] # job[w]
    BY <2>3, <2>4, <2>5 DEF Unique
  <2>7. job[w] \in Tasks /\ runs[job[w]] \in Nat
    BY <2>3, <2>4, PendingFact DEF IInv, Types, HistType
  <2>8. runs[job[w]] = 0
    BY <2>6, <2>7 DEF Executed
  <2>9. taken + 1 \in 1..taken'
    BY <2>1, PendingFact
  <2>10. \A v \in Busy' : \E i \in 1..taken' : job[v] = accepted[i]
    BY <2>2, <2>3, <2>5, <2>9 DEF Executed
  <2>11. \A v \in Busy : job[v] # job[w]
    BY <2>6 DEF Executed
  <2>12. \A t \in Tasks : runs[t] > 0 => \E i \in 1..taken' : t = accepted[i]
    BY <2>5 DEF Executed
  <2>13. QED
    BY <2>1, <2>2, <2>8, <2>10, <2>11, <2>12 DEF Executed
<1>21. ASSUME NEW w \in Workers, WorkerDone(w) PROVE Executed'
  <2>1. /\ pc[w] = "run" /\ pc' = [pc EXCEPT ![w] = "lock"]
        /\ UNCHANGED <<accepted, taken, job>>
    BY <1>21 DEF WorkerDone, At, Goto
  <2>2. w \in Busy /\ Busy' = Busy \ {w}
    BY <2>1 DEF Busy, IInv, Types, CtlType, Procs
  <2>3. \A t \in Tasks : t # job[w] => runs'[t] = runs[t]
    BY <1>21 DEF WorkerDone, IInv, Types, HistType
  <2>4. \A v \in Busy' : job[v] # job[w] /\ job[v] \in Tasks
    <3>1. \A v \in Busy : job[v] \in Tasks
      BY JobOfBusy
    <3>2. QED
      BY <2>2, <3>1 DEF Executed
  <2>5. QED
    BY <2>1, <2>2, <2>3, <2>4 DEF Executed
<1>22. ASSUME NEW w \in Workers, SpuriousWakeup(w) PROVE Executed'
  BY <1>22, ExecutedSame
  DEF SpuriousWakeup, At, Goto, IInv, Types, CtlType, CallsType, JobType,
      HistType, Procs, hist, calls, Busy
<1>23. ASSUME NEW p \in Procs, Undefined(p) PROVE Executed'
  BY <1>23, ExecutedSame, UndefinedMoves
  DEF Undefined, Goto, IInv, Types, CtlType, CallsType, JobType, HistType,
      Procs, hist, calls, Busy
<1>24. CASE Terminated
  BY <1>1, <1>24 DEF Terminated
<1>25. QED
  BY <1>1, <1>2, <1>3, <1>4, <1>5, <1>6, <1>7, <1>8, <1>9, <1>10, <1>11, <1>12,
     <1>13, <1>14, <1>15, <1>16, <1>17, <1>18, <1>19, <1>20, <1>21, <1>22,
     <1>23, <1>24
  DEF Next, AddStep, DestroyStep, WorkerStep

(* Every step keeps Endings.                                               *)
LEMMA EndingsStep ==
    IInv /\ PlacesOK /\ Unspawned /\ Executed /\ Endings /\ [Next]_vars =>
    Endings'
<1> SUFFICES ASSUME IInv, PlacesOK, Unspawned, Executed, Endings, [Next]_vars
             PROVE Endings'
  OBVIOUS
<1> USE NamesAssumption
<1>1. CASE UNCHANGED vars
  BY <1>1
  DEF vars, buffer, fields, memory, calls, hist, IInv, Types, CtlType,
      FieldsType, MemoryType, PlacesOK, Endings, Adding, Procs, fields,
      memory, buffer, hist
<1>2. CASE Create
  BY <1>2
  DEF Create, CreateFails, Goto, IInv, Types, CtlType, FieldsType, MemoryType,
      PlacesOK, Endings, Adding, Procs, fields, memory, buffer, hist
<1>3. CASE Spawn
  BY <1>3, SpawnedWorker
  DEF Spawn, At, Goto, IInv, Types, CtlType, FieldsType, MemoryType, PlacesOK,
      Endings, Adding, Procs, fields, memory, buffer, hist
<1>4. CASE CountThread
  BY <1>4
  DEF CountThread, At, Goto, IInv, Types, CtlType, FieldsType, MemoryType,
      PlacesOK, Endings, Adding, Procs, fields, memory, buffer, hist
<1>5. ASSUME NEW p \in Procs, NEW t \in Tasks, AddCall(p, t) PROVE Endings'
  <2>1. /\ (p \in Callers /\ handle = "ok") \/ p \in Busy
        /\ UNCHANGED <<handle, accepted, thread_count, shutdown, count>>
        /\ pc' = [pc EXCEPT ![p] = "add_lock"]
    BY <1>5 DEF AddCall, Goto, Busy, fields, buffer, memory
  <2>2. handle # "none"
    <3>1. CASE p \in Busy
      <4>1. PICK i \in 1..taken : job[p] = accepted[i]
        BY <3>1 DEF Executed
      <4>2. Len(accepted) # 0
        BY PendingFact
      <4>3. QED
        BY <4>2, PendingFact DEF Endings
    <3>2. QED
      BY <2>1, <3>1
  <2>3. \A w \in Workers : pc'[w] \in {"take", "dead"} => pc[w] = pc'[w]
    BY <2>1 DEF IInv, Types, CtlType, Procs
  <2>4. QED
    BY <2>1, <2>2, <2>3 DEF Endings
<1>6. ASSUME NEW p \in Procs, AddLock(p) PROVE Endings'
  BY <1>6
  DEF AddLock, At, Goto, IInv, Types, CtlType, FieldsType, MemoryType,
      PlacesOK, Endings, Adding, Procs, fields, memory, buffer, hist
<1>7. ASSUME NEW p \in Procs, NEW r \in {"queue_full", "shutdown"},
             AddRefuse(p, r)
      PROVE Endings'
  BY <1>7
  DEF AddRefuse, At, Return, Goto, IInv, Types, CtlType, FieldsType,
      MemoryType, PlacesOK, Endings, Adding, Procs, fields, memory, buffer,
      hist
<1>8. ASSUME NEW p \in Procs, AddStore(p) PROVE Endings'
  <2>1. /\ p \in Adding /\ shutdown = "no"
        /\ UNCHANGED <<handle, thread_count, shutdown>>
    BY <1>8 DEF AddStore, At, Adding, ShutDown, fields, memory
  <2>2. \A w \in Workers : pc'[w] \in {"take", "dead"} => pc[w] = pc'[w]
    BY <1>8, Signalled DEF Waiting, IInv, Types, Procs
  <2>3. QED
    BY <2>1, <2>2 DEF Endings
<1>9. ASSUME NEW c \in Callers, NEW f \in {"immediate", "graceful"},
             DestroyCall(c, f)
      PROVE Endings'
  BY <1>9
  DEF DestroyCall, Goto, IInv, Types, CtlType, FieldsType, MemoryType,
      PlacesOK, Endings, Adding, Procs, fields, memory, buffer, hist
<1>10. ASSUME NEW c \in Callers, DestroyLock(c) PROVE Endings'
  BY <1>10
  DEF DestroyLock, At, Goto, IInv, Types, CtlType, FieldsType, MemoryType,
      PlacesOK, Endings, Adding, Procs, fields, memory, buffer, hist
<1>11. ASSUME NEW c \in Callers, DestroyAgain(c) PROVE Endings'
  BY <1>11
  DEF DestroyAgain, At, Return, Goto, IInv, Types, CtlType, FieldsType,
      MemoryType, PlacesOK, Endings, Adding, Procs, fields, memory, buffer,
      hist
<1>12. ASSUME NEW c \in Callers, DestroyBegin(c) PROVE Endings'
  <2>1. /\ pc[c] = "dst" /\ shutdown = "no"
        /\ UNCHANGED <<handle, accepted, thread_count, count>>
    BY <1>12 DEF DestroyBegin, At, AlreadyDown, ShutDown, buffer, memory, hist
  <2>2. \A q \in Procs : pc'[q] = pc[q] \/ pc'[q] \in {"join", "lock"}
    BY <1>12 DEF DestroyBegin, AfterBroadcast
  <2>3. \A w \in Workers : pc[w] # "take" /\ pc[w] # "dead"
    BY <2>1 DEF IInv, MutualExclusion, Critical, Unspawned, Procs
  <2>4. \A w \in Workers : pc'[w] # "take" /\ pc'[w] # "dead"
    BY <2>2, <2>3 DEF Procs
  <2>5. Adding' \subseteq Adding
    BY <2>2 DEF Adding
  <2>6. QED
    BY <2>1, <2>4, <2>5 DEF Endings
<1>13. ASSUME NEW c \in Callers, DestroyJoin(c) PROVE Endings'
  BY <1>13
  DEF DestroyJoin, At, Goto, IInv, Types, CtlType, FieldsType, MemoryType,
      PlacesOK, Endings, Adding, Procs, fields, memory, buffer, hist
<1>14. ASSUME NEW c \in Callers, FreeArrays(c) PROVE Endings'
  BY <1>14
  DEF FreeArrays, At, Leave, Return, Goto, IInv, Types, CtlType, FieldsType,
      MemoryType, PlacesOK, Endings, Adding, Procs, fields, memory, buffer,
      hist
<1>15. ASSUME NEW c \in Callers, FreeRest(c) PROVE Endings'
  BY <1>15
  DEF FreeRest, At, Leave, Return, Goto, IInv, Types, CtlType, FieldsType,
      MemoryType, PlacesOK, Endings, Adding, Procs, fields, memory, buffer,
      hist
<1>16. ASSUME NEW w \in Workers, WorkerLock(w) PROVE Endings'
  BY <1>16
  DEF WorkerLock, At, Goto, IInv, Types, CtlType, FieldsType, MemoryType,
      PlacesOK, Endings, Adding, Procs, fields, memory, buffer, hist
<1>17. ASSUME NEW w \in Workers, WorkerWait(w) PROVE Endings'
  BY <1>17
  DEF WorkerWait, At, Goto, IInv, Types, CtlType, FieldsType, MemoryType,
      PlacesOK, Endings, Adding, Procs, fields, memory, buffer, hist
<1>18. ASSUME NEW w \in Workers, WorkerExit(w) PROVE Endings'
  BY <1>18
  DEF WorkerExit, At, Goto, MustExit, IInv, Types, CtlType, FieldsType,
      MemoryType, PlacesOK, Endings, Adding, Procs, fields, memory, buffer,
      hist
<1>19. ASSUME NEW w \in Workers, WorkerGrab(w) PROVE Endings'
  BY <1>19
  DEF WorkerGrab, At, Goto, MustExit, IInv, Types, CtlType, FieldsType,
      MemoryType, PlacesOK, Endings, Adding, Procs, fields, memory, buffer,
      hist
<1>20. ASSUME NEW w \in Workers, WorkerTake(w) PROVE Endings'
  <2>1. /\ pc[w] = "take" /\ pc' = [pc EXCEPT ![w] = "run"]
        /\ UNCHANGED <<handle, accepted, thread_count, shutdown>>
    BY <1>20 DEF WorkerTake, At, Goto, fields, memory
  <2>2. count > 0
    BY <2>1, TakesNext
  <2>3. \A v \in Workers : pc'[v] \in {"take", "dead"} => pc[v] = pc'[v]
    BY <2>1 DEF IInv, Types, CtlType, Procs
  <2>4. Adding' = Adding
    BY <2>1 DEF Adding, IInv, Types, CtlType, Procs
  <2>5. \A v \in Workers : pc[v] = "dead" => shutdown # "graceful"
    BY <2>2 DEF Endings
  <2>6. QED
    BY <2>1, <2>3, <2>4, <2>5 DEF Endings
<1>21. ASSUME NEW w \in Workers, WorkerDone(w) PROVE Endings'
  BY <1>21
  DEF WorkerDone, At, Goto, IInv, Types, CtlType, FieldsType, MemoryType,
      PlacesOK, Endings, Adding, Procs, fields, memory, buffer, hist
<1>22. ASSUME NEW w \in Workers, SpuriousWakeup(w) PROVE Endings'
  BY <1>22
  DEF SpuriousWakeup, At, Goto, IInv, Types, CtlType, FieldsType, MemoryType,
      PlacesOK, Endings, Adding, Procs, fields, memory, buffer, hist
<1>23. ASSUME NEW p \in Procs, Undefined(p) PROVE Endings'
  BY <1>23, UndefinedMoves
  DEF IInv, Types, CtlType, FieldsType, MemoryType, PlacesOK, Endings, Adding,
      Procs, fields, memory, buffer, hist
<1>24. CASE Terminated
  BY <1>1, <1>24 DEF Terminated
<1>25. QED
  BY <1>1, <1>2, <1>3, <1>4, <1>5, <1>6, <1>7, <1>8, <1>9, <1>10, <1>11, <1>12,
     <1>13, <1>14, <1>15, <1>16, <1>17, <1>18, <1>19, <1>20, <1>21, <1>22,
     <1>23, <1>24
  DEF Next, AddStep, DestroyStep, WorkerStep

(* When threadpool_free is reached, a pool that never came to be has       *)
(* accepted nothing, and a graceful shutdown has left nothing in the       *)
(* queue.                                                                  *)
Closing ==
    \A c \in Callers : pc[c] \in {"free", "free_lock"} =>
        /\ shutdown = "no" => accepted = <<>>
        /\ shutdown = "graceful" => taken = Len(accepted)

(* A step after which nobody has come to threadpool_free keeps Closing.    *)
LEMMA ClosingSame ==
    ASSUME Closing, UNCHANGED <<shutdown, accepted, taken>>,
           \A c \in Callers : pc'[c] \in {"free", "free_lock"}
                                 => pc[c] \in {"free", "free_lock"}
    PROVE  Closing'
  BY DEF Closing

(* Every step keeps Closing: the workers were joined, and by Endings the   *)
(* first of them ended only when the queue was empty.                      *)
LEMMA ClosingStep ==
    Calm /\ IInv /\ PlacesOK /\ Birth /\ Memory /\ Quiet /\ Endings /\
    Closing /\ [Next]_vars => Closing'
<1> SUFFICES ASSUME Calm, IInv, PlacesOK, Birth, Memory, Quiet, Endings,
                    Closing, [Next]_vars
             PROVE Closing'
  OBVIOUS
<1> USE NamesAssumption
<1>1. CASE UNCHANGED vars
  BY <1>1, ClosingSame
  DEF vars, buffer, fields, memory, calls, hist, IInv, Types, CtlType,
      PlacesOK, Procs, fields, hist
<1>2. CASE Create
  <2>1. handle = "none" /\ \A c \in Callers : c # Main => pc'[c] = "idle"
    BY <1>2
    DEF Create, CreateFails, Goto, Birth, OthersIdle, IInv, Types, CtlType,
        Procs
  <2>2. UNCHANGED <<accepted, taken, shutdown>> /\ shutdown = "no"
    BY <1>2 DEF Create, Birth, hist, fields
  <2>3. QED
    BY <2>1, <2>2 DEF Closing, Endings
<1>3. CASE Spawn
  BY <1>3, SpawnedWorker, ClosingSame
  DEF Spawn, At, Goto, IInv, Types, CtlType, PlacesOK, Procs, fields, hist
<1>4. CASE CountThread
  BY <1>4, ClosingSame
  DEF CountThread, At, Goto, IInv, Types, CtlType, PlacesOK, Procs, fields,
      hist
<1>5. ASSUME NEW p \in Procs, NEW t \in Tasks, AddCall(p, t) PROVE Closing'
  BY <1>5, ClosingSame
  DEF AddCall, Goto, IInv, Types, CtlType, PlacesOK, Procs, fields, hist
<1>6. ASSUME NEW p \in Procs, AddLock(p) PROVE Closing'
  BY <1>6, ClosingSame
  DEF AddLock, At, Goto, IInv, Types, CtlType, PlacesOK, Procs, fields, hist
<1>7. ASSUME NEW p \in Procs, NEW r \in {"queue_full", "shutdown"},
             AddRefuse(p, r)
      PROVE Closing'
  BY <1>7, ClosingSame
  DEF AddRefuse, At, Return, Goto, IInv, Types, CtlType, PlacesOK, Procs,
      fields, hist
<1>8. ASSUME NEW p \in Procs, AddStore(p) PROVE Closing'
  <2>1. pc[p] = "add"
    BY <1>8 DEF AddStore, At
  <2>2. \A c \in Callers : pc[c] \notin {"free", "free_lock"}
    <3>1. p \in Workers => ~AllEnded
      BY <2>1 DEF AllEnded
    <3>2. \A c \in Callers : pc[c] \in {"free", "free_lock"} => AllEnded /\ c # p
      BY <2>1 DEF Memory
    <3>3. QED
      BY <2>1, <3>1, <3>2 DEF Quiet, Destroying, Procs
  <2>3. \A c \in Callers : pc'[c] \notin {"free", "free_lock"}
    BY <1>8, <2>2, Signalled DEF Waiting, IInv, Types, Procs
  <2>4. QED
    BY <2>3 DEF Closing
<1>9. ASSUME NEW c \in Callers, NEW f \in {"immediate", "graceful"},
             DestroyCall(c, f)
      PROVE Closing'
  BY <1>9, ClosingSame
  DEF DestroyCall, Goto, IInv, Types, CtlType, PlacesOK, Procs, fields, hist
<1>10. ASSUME NEW c \in Callers, DestroyLock(c) PROVE Closing'
  BY <1>10, ClosingSame
  DEF DestroyLock, At, Goto, IInv, Types, CtlType, PlacesOK, Procs, fields,
      hist
<1>11. ASSUME NEW c \in Callers, DestroyAgain(c) PROVE Closing'
  BY <1>11, ClosingSame
  DEF DestroyAgain, At, Return, Goto, IInv, Types, CtlType, PlacesOK, Procs,
      fields, hist
<1>12. ASSUME NEW c \in Callers, DestroyBegin(c) PROVE Closing'
  <2>1. \A d \in Callers : pc'[d] \in {"join", "idle"}
    BY <1>12
    DEF DestroyBegin, At, AfterBroadcast, Quiet, Destroying, Waiting, Procs
  <2>2. QED
    BY <2>1 DEF Closing
<1>13. ASSUME NEW c \in Callers, DestroyJoin(c) PROVE Closing'
  <2>1. /\ pc[c] = "join" /\ Joined /\ shutdown # "no" /\ UNCHANGED <<shutdown, accepted, taken>>
    BY <1>13 DEF DestroyJoin, At, Birth, fields, hist
  <2>2. handle \in {"none", "ok"}
    BY <2>1 DEF Quiet, IInv, Types, MemoryType
  <2>3. handle = "none" => accepted = <<>>
    BY DEF Endings
  <2>4. handle = "none" => Len(accepted) = 0 /\ taken = 0
    BY <2>3, PendingFact
  <2>5. handle = "ok" => 1 \in 1..thread_count /\ 1 \in Workers
    BY CountFact DEF Endings, Workers, IInv, Types, FieldsType
  <2>6. handle = "ok" /\ shutdown = "graceful" => count = 0
    BY <2>1, <2>5 DEF Joined, Endings
  <2>7. shutdown = "graceful" => taken = Len(accepted)
    BY <2>2, <2>4, <2>6, PendingFact
  <2>8. QED
    BY <2>1, <2>7 DEF Closing
<1>14. ASSUME NEW c \in Callers, FreeArrays(c) PROVE Closing'
  BY <1>14, ClosingSame
  DEF FreeArrays, At, Leave, Return, Goto, IInv, Types, CtlType, PlacesOK,
      Procs, fields, hist
<1>15. ASSUME NEW c \in Callers, FreeRest(c) PROVE Closing'
  BY <1>15, ClosingSame
  DEF FreeRest, At, Leave, Return, Goto, IInv, Types, CtlType, PlacesOK,
      Procs, fields, hist
<1>16. ASSUME NEW w \in Workers, WorkerLock(w) PROVE Closing'
  BY <1>16, ClosingSame
  DEF WorkerLock, At, Goto, IInv, Types, CtlType, PlacesOK, Procs, fields,
      hist
<1>17. ASSUME NEW w \in Workers, WorkerWait(w) PROVE Closing'
  BY <1>17, ClosingSame
  DEF WorkerWait, At, Goto, IInv, Types, CtlType, PlacesOK, Procs, fields,
      hist
<1>18. ASSUME NEW w \in Workers, WorkerExit(w) PROVE Closing'
  BY <1>18, ClosingSame
  DEF WorkerExit, At, Goto, IInv, Types, CtlType, PlacesOK, Procs, fields,
      hist
<1>19. ASSUME NEW w \in Workers, WorkerGrab(w) PROVE Closing'
  BY <1>19, ClosingSame
  DEF WorkerGrab, At, Goto, IInv, Types, CtlType, PlacesOK, Procs, fields,
      hist
<1>20. ASSUME NEW w \in Workers, WorkerTake(w) PROVE Closing'
  <2>1. ~AllEnded /\ \A c \in Callers : pc'[c] = pc[c]
    BY <1>20 DEF WorkerTake, At, Goto, AllEnded, IInv, Types, CtlType, Procs
  <2>2. QED
    BY <2>1 DEF Closing, Memory
<1>21. ASSUME NEW w \in Workers, WorkerDone(w) PROVE Closing'
  BY <1>21, ClosingSame
  DEF WorkerDone, At, Goto, IInv, Types, CtlType, PlacesOK, Procs, fields,
      hist
<1>22. ASSUME NEW w \in Workers, SpuriousWakeup(w) PROVE Closing'
  BY <1>22, ClosingSame
  DEF SpuriousWakeup, At, Goto, IInv, Types, CtlType, PlacesOK, Procs, fields,
      hist
<1>23. ASSUME NEW p \in Procs, Undefined(p) PROVE Closing'
  BY <1>23, NothingUndefined DEF IInv
<1>24. CASE Terminated
  BY <1>1, <1>24 DEF Terminated
<1>25. QED
  BY <1>1, <1>2, <1>3, <1>4, <1>5, <1>6, <1>7, <1>8, <1>9, <1>10, <1>11, <1>12,
     <1>13, <1>14, <1>15, <1>16, <1>17, <1>18, <1>19, <1>20, <1>21, <1>22,
     <1>23, <1>24
  DEF Next, AddStep, DestroyStep, WorkerStep

-----------------------------------------------------------------------------
(* The tasks' history, whatever may fail or overlap.                       *)
TaskInv == Unique /\ Executed /\ Endings

(* It holds at first.                                                      *)
LEMMA TaskInit == Init => TaskInv
<1> SUFFICES ASSUME Init PROVE TaskInv
  OBVIOUS
<1>1. /\ accepted = <<>> /\ taken = 0 /\ handle = "none"
      /\ \A t \in Tasks : runs[t] = 0
  BY DEF Init
<1>2. Adding = {} /\ Busy = {}
  BY NamesAssumption DEF Init, Adding, Busy, Procs
<1>3. Unique
  BY <1>1, <1>2 DEF Unique
<1>4. Executed
  BY <1>1, <1>2 DEF Executed
<1>5. \A w \in Workers : pc[w] = "unborn"
  BY NamesAssumption DEF Init, Procs
<1>6. Endings
  BY <1>1, <1>2, <1>5 DEF Endings
<1>7. QED
  BY <1>3, <1>4, <1>6 DEF TaskInv

(* It is invariant, together with IInv and LifeInv.                        *)
LEMMA TaskInductive == Spec => []TaskInv
<1>1. IInv /\ LifeInv /\ TaskInv /\ [Next]_vars => TaskInv'
  BY UniqueStep, ExecutedStep, EndingsStep DEF LifeInv, TaskInv
<1>2. QED
  BY <1>1, TaskInit, Inductive, LifeInductive, PTL DEF Spec

(* Closing is invariant if the program keeps to Calm.                      *)
LEMMA ClosingInductive == ASSUME Calm PROVE Spec => []Closing
<1>1. Init => Closing
  BY NamesAssumption DEF Init, Closing, Procs
<1>2. IInv /\ LifeInv /\ CalmInv /\ TaskInv /\ Closing /\ [Next]_vars => Closing'
  BY Calm, ClosingStep DEF LifeInv, CalmInv, TaskInv
<1>3. QED
  BY <1>1, <1>2, Inductive, LifeInductive, CalmInductive, TaskInductive, PTL
  DEF Spec

-----------------------------------------------------------------------------
(* What TaskPool's variables completed and mode stand for (running is      *)
(* Running).                                                               *)
Completed == {t \in Tasks : runs[t] > 0}
Mode == IF mem["pool"] = "gone" THEN "closed"
        ELSE IF shutdown = "no" THEN "open"
        ELSE shutdown

(* A step that changes none of TaskPool's variables.                       *)
LEMMA TaskStutter ==
    ASSUME UNCHANGED <<accepted, taken, runs, shutdown>>, Busy' = Busy,
           \A w \in Busy : job'[w] = job[w],
           mem'["pool"] = "gone" <=> mem["pool"] = "gone"
    PROVE  UNCHANGED TP!vars
<1>1. Running' = Running
  BY DEF Running
<1>2. Completed' = Completed
  BY DEF Completed
<1>3. Mode' = Mode
  BY DEF Mode
<1>4. QED
  BY <1>1, <1>2, <1>3 DEF TP!vars, Running, Busy, Completed, Mode

(* TaskPool counts as this module does.                                    *)
LEMMA SameCardinality == \A S : TP!Cardinality(S) = Cardinality(S)
  BY DEF TP!Cardinality, Cardinality

(* Dequeuing a task starts it in TaskPool: it is the oldest one, the pool  *)
(* is open or shut down gracefully, and one worker at least, the one that  *)
(* dequeues, was not running any.                                          *)
LEMMA StartStep ==
    ASSUME IInv, TaskInv, NEW w \in Workers, WorkerTake(w)
    PROVE  TP!Start
<1> USE NamesAssumption
<1>1. /\ pc[w] = "take" /\ mem["pool"] = "live"
      /\ pc' = [pc EXCEPT ![w] = "run"]
      /\ taken' = taken + 1
      /\ UNCHANGED <<accepted, runs, job, mem, shutdown>>
  BY DEF WorkerTake, At, Touches, Goto, memory, fields
<1>2. shutdown # "immediate" /\ shutdown \in {"no", "graceful"}
  BY <1>1 DEF TaskInv, Endings, IInv, Types, FieldsType
<1>3. Mode \in {"open", "graceful"} /\ Mode' = Mode
  BY <1>1, <1>2 DEF Mode
<1>4. count > 0 /\ job[w] = accepted[taken + 1]
  BY <1>1, TakesNext
<1>5. taken < Len(accepted)
  BY <1>4, PendingFact
<1>6. Busy' = Busy \cup {w} /\ Busy \subseteq Workers \ {w}
  BY <1>1 DEF Busy, IInv, Types, CtlType, Procs
<1>7. Running' = Running \cup {accepted[taken + 1]}
  BY <1>1, <1>4, <1>6 DEF Running
<1>8. Completed' = Completed
  BY <1>1 DEF Completed
<1>9. Cardinality(Running) < ThreadCount
  <2>1. IsFiniteSet(Workers \ {w}) /\ Cardinality(Workers \ {w}) = ThreadCount - 1
    BY WorkersFinite, FS_RemoveElement
  <2>2. IsFiniteSet(Busy) /\ Cardinality(Busy) <= ThreadCount - 1
    BY <1>6, <2>1, FS_Subset
  <2>3. Cardinality(Running) <= Cardinality(Busy) /\ IsFiniteSet(Running)
    <3>1. [w1 \in Busy |-> job[w1]] \in Surjection(Busy, Running)
      BY DEF Surjection, Running
    <3>2. QED
      BY <2>2, <3>1, FS_Surjection
  <2>4. Cardinality(Running) \in Nat /\ Cardinality(Busy) \in Nat
    BY <2>2, <2>3, FS_CardinalityType
  <2>5. QED
    BY <2>2, <2>3, <2>4, CountFact
<1>10. QED
  BY <1>1, <1>3, <1>5, <1>7, <1>8, <1>9, SameCardinality
  DEF TP!Start, Running, Busy, Completed, Mode

(* The return of the task function completes it.                           *)
LEMMA FinishStep ==
    ASSUME IInv, TaskInv, NEW w \in Workers, WorkerDone(w)
    PROVE  \E t \in Tasks : TP!Finish(t)
<1> USE NamesAssumption
<1>1. /\ pc[w] = "run" /\ pc' = [pc EXCEPT ![w] = "lock"]
      /\ UNCHANGED <<accepted, taken, job, mem, shutdown>>
  BY DEF WorkerDone, At, Goto, memory, fields
<1>2. w \in Busy /\ Busy' = Busy \ {w}
  BY <1>1 DEF Busy, IInv, Types, CtlType, Procs
<1>3. job[w] \in Tasks
  BY <1>2, JobOfBusy DEF TaskInv
<1>4. /\ runs' = [runs EXCEPT ![job[w]] = @ + 1]
      /\ runs \in [Tasks -> Nat] /\ runs[job[w]] = 0
  BY <1>2 DEF WorkerDone, IInv, Types, HistType, TaskInv, Executed
<1>5. job[w] \in Running \ Completed
  BY <1>2, <1>4 DEF Running, Completed
<1>6. Running' = Running \ {job[w]}
  BY <1>1, <1>2 DEF Running, TaskInv, Executed
<1>7. Completed' = Completed \cup {job[w]}
  BY <1>3, <1>4 DEF Completed
<1>8. Mode' = Mode
  BY <1>1 DEF Mode
<1>9. PICK t \in Tasks : t = job[w]
  BY <1>3
<1>10. TP!Finish(t)
  BY <1>1, <1>5, <1>6, <1>7, <1>8, <1>9
  DEF TP!Finish, Running, Busy, Completed, Mode
<1>11. QED
  BY <1>10

(* Storing a task submits it.                                              *)
LEMMA SubmitStep ==
    ASSUME IInv, TaskInv, NEW p \in Procs, AddStore(p)
    PROVE  TP!Submit(arg[p]) /\ arg[p] \in Tasks
<1> USE NamesAssumption
<1>1. /\ pc[p] = "add" /\ mem["pool"] = "live" /\ shutdown = "no" /\ count # QueueSize
      /\ accepted' = Append(accepted, arg[p])
      /\ UNCHANGED <<taken, runs, job, mem, shutdown>>
  BY DEF AddStore, At, Touches, Full, ShutDown, memory, fields
<1>2. p \in Adding /\ arg[p] \in Tasks
  BY <1>1 DEF Adding, IInv, Types, ArgInv
<1>3. Mode = "open" /\ Mode' = Mode
  BY <1>1 DEF Mode
<1>4. Len(accepted) - taken < QueueSize
  BY <1>1, PendingFact, SizeFact
<1>5. \A i \in DOMAIN accepted : accepted[i] # arg[p]
  BY <1>2, PendingFact DEF TaskInv, Unique
<1>6. Busy' = Busy
  BY <1>1, Signalled DEF Busy, Waiting, IInv, Types, Procs
<1>7. Running' = Running /\ Completed' = Completed
  BY <1>1, <1>6 DEF Running, Completed
<1>8. QED
  BY <1>1, <1>2, <1>3, <1>4, <1>5, <1>7
  DEF TP!Submit, Running, Busy, Completed, Mode

(* Setting the flag shuts TaskPool down.                                   *)
LEMMA ShutDownStep ==
    ASSUME IInv, NEW c \in Callers, DestroyBegin(c)
    PROVE  TP!ShutDown(flags[c]) /\ flags[c] \in {"graceful", "immediate"}
<1> USE NamesAssumption
<1>1. /\ pc[c] = "dst" /\ mem["pool"] = "live" /\ shutdown = "no" /\ shutdown' = flags[c]
      /\ UNCHANGED <<accepted, taken, runs, job, mem>>
  BY DEF DestroyBegin, At, Touches, AlreadyDown, ShutDown, memory, hist
<1>2. flags[c] \in {"graceful", "immediate"}
  BY DEF IInv, Types, CallsType
<1>3. Mode = "open" /\ Mode' = flags[c]
  BY <1>1, <1>2 DEF Mode
<1>4. Busy' = Busy
  BY <1>1
  DEF DestroyBegin, AfterBroadcast, Busy, Waiting, IInv, Types, CtlType, Procs
<1>5. Running' = Running /\ Completed' = Completed
  BY <1>1, <1>4 DEF Running, Completed
<1>6. QED
  BY <1>1, <1>2, <1>3, <1>5 DEF TP!ShutDown, Running, Busy, Completed, Mode

(* Freeing the pool closes TaskPool.                                       *)
LEMMA CloseStep ==
    ASSUME IInv, Memory, Closing, NEW c \in Callers,
           pc[c] \in {"free", "free_lock"}, FreeArrays(c) \/ FreeRest(c),
           mem'["pool"] = "gone"
    PROVE  TP!Close
<1> USE NamesAssumption
<1>1. /\ AllEnded /\ mem["pool"] = "live"
      /\ shutdown = "no" => accepted = <<>>
      /\ shutdown = "graceful" => taken = Len(accepted)
  BY DEF Memory, Closing
<1>2. UNCHANGED <<accepted, taken, runs, job, shutdown>>
  BY DEF FreeArrays, FreeRest, hist, fields
<1>3. \/ Mode = "open" /\ accepted = <<>>
      \/ Mode = "graceful" /\ taken = Len(accepted)
      \/ Mode = "immediate"
  BY <1>1 DEF Mode, IInv, Types, FieldsType
<1>4. Mode' = "closed"
  BY DEF Mode
<1>5. Busy = {} /\ Busy' = {}
  <2>1. Busy = {}
    BY <1>1 DEF Busy, AllEnded
  <2>2. \A w \in Workers : pc'[w] = pc[w]
    BY
    DEF FreeArrays, FreeRest, Leave, Return, Goto, IInv, Types, CtlType, Procs
  <2>3. QED
    BY <2>1, <2>2 DEF Busy
<1>6. Running = {} /\ Running' = {} /\ Completed' = Completed
  BY <1>2, <1>5 DEF Running, Completed
<1>7. QED
  BY <1>2, <1>3, <1>4, <1>6 DEF TP!Close, Running, Busy, Completed, Mode

(* Every step of the pool is a step of TaskPool or changes none of its     *)
(* variables.                                                              *)
LEMMA TaskStep ==
    Calm /\ IInv /\ LifeInv /\ CalmInv /\ TaskInv /\ Closing /\ [Next]_vars
    => [TP!Next]_(TP!vars)
<1> SUFFICES ASSUME Calm, IInv, LifeInv, CalmInv, TaskInv, Closing,
                    [Next]_vars
             PROVE [TP!Next]_(TP!vars)
  OBVIOUS
<1> USE NamesAssumption
<1>1. CASE UNCHANGED vars
  BY <1>1, TaskStutter
  DEF vars, buffer, fields, memory, calls, hist, IInv, Types, CtlType,
      PlacesOK, Busy, Procs, fields, hist, memory
<1>2. CASE Create
  <2>1. mem'["pool"] # "gone" /\ mem["pool"] # "gone"
    BY <1>2 DEF Create, CreateFails, CalmInv, Memory, Parts
  <2>2. QED
    BY <1>2, <2>1, TaskStutter
    DEF Create, CreateFails, Goto, IInv, Types, CtlType, PlacesOK, Busy,
        Procs, fields, hist, memory
<1>3. CASE Spawn
  BY <1>3, SpawnedWorker, TaskStutter
  DEF Spawn, At, Goto, Birth, IInv, Types, CtlType, PlacesOK, Busy, Procs,
      fields, hist, memory, FieldsType, LifeInv, Unspawned
<1>4. CASE CountThread
  BY <1>4, TaskStutter
  DEF CountThread, At, Goto, IInv, Types, CtlType, PlacesOK, Busy, Procs,
      fields, hist, memory
<1>5. ASSUME NEW p \in Procs, NEW t \in Tasks, AddCall(p, t)
      PROVE [TP!Next]_(TP!vars)
  BY <1>5, TaskStutter
  DEF AddCall, Goto, IInv, Types, CtlType, PlacesOK, Busy, Procs, fields,
      hist, memory
<1>6. ASSUME NEW p \in Procs, AddLock(p) PROVE [TP!Next]_(TP!vars)
  BY <1>6, TaskStutter
  DEF AddLock, At, Goto, IInv, Types, CtlType, PlacesOK, Busy, Procs, fields,
      hist, memory
<1>7. ASSUME NEW p \in Procs, NEW r \in {"queue_full", "shutdown"},
             AddRefuse(p, r)
      PROVE [TP!Next]_(TP!vars)
  BY <1>7, TaskStutter
  DEF AddRefuse, At, Return, Goto, IInv, Types, CtlType, PlacesOK, Busy,
      Procs, fields, hist, memory
<1>8. ASSUME NEW p \in Procs, AddStore(p) PROVE [TP!Next]_(TP!vars)
  <2>1. TP!Submit(arg[p]) /\ arg[p] \in Tasks
    BY <1>8, SubmitStep
  <2>2. QED
    BY <2>1 DEF TP!Next
<1>9. ASSUME NEW c \in Callers, NEW f \in {"immediate", "graceful"},
             DestroyCall(c, f)
      PROVE [TP!Next]_(TP!vars)
  BY <1>9, TaskStutter
  DEF DestroyCall, Goto, IInv, Types, CtlType, PlacesOK, Busy, Procs, fields,
      hist, memory
<1>10. ASSUME NEW c \in Callers, DestroyLock(c) PROVE [TP!Next]_(TP!vars)
  BY <1>10, TaskStutter
  DEF DestroyLock, At, Goto, IInv, Types, CtlType, PlacesOK, Busy, Procs,
      fields, hist, memory
<1>11. ASSUME NEW c \in Callers, DestroyAgain(c) PROVE [TP!Next]_(TP!vars)
  BY <1>11, TaskStutter
  DEF DestroyAgain, At, Return, Goto, IInv, Types, CtlType, PlacesOK, Busy,
      Procs, fields, hist, memory
<1>12. ASSUME NEW c \in Callers, DestroyBegin(c) PROVE [TP!Next]_(TP!vars)
  BY <1>12, ShutDownStep DEF TP!Next
<1>13. ASSUME NEW c \in Callers, DestroyJoin(c) PROVE [TP!Next]_(TP!vars)
  BY <1>13, TaskStutter
  DEF DestroyJoin, At, Goto, IInv, Types, CtlType, PlacesOK, Busy, Procs,
      fields, hist, memory
<1>14. ASSUME NEW c \in Callers, FreeArrays(c) PROVE [TP!Next]_(TP!vars)
  <2>1. CASE mem'["pool"] = "gone"
    BY <1>14, <2>1, CloseStep DEF FreeArrays, At, CalmInv, TP!Next
  <2>2. CASE mem'["pool"] # "gone"
    <3>1. mem["pool"] = "live" /\ \A w \in Workers : pc'[w] = pc[w]
      BY <1>14
      DEF FreeArrays, At, Touches, Leave, Return, Goto, IInv, Types, CtlType,
          Procs
    <3>2. UNCHANGED <<accepted, taken, runs, shutdown, job>>
      BY <1>14 DEF FreeArrays, hist, fields
    <3>3. QED
      BY <2>2, <3>1, <3>2, TaskStutter DEF Busy
  <2>3. QED
    BY <2>1, <2>2
<1>15. ASSUME NEW c \in Callers, FreeRest(c) PROVE [TP!Next]_(TP!vars)
  <2>1. CASE mem'["pool"] = "gone"
    BY <1>15, <2>1, CloseStep DEF FreeRest, At, CalmInv, TP!Next
  <2>2. CASE mem'["pool"] # "gone"
    <3>1. mem["pool"] = "live" /\ \A w \in Workers : pc'[w] = pc[w]
      BY <1>15
      DEF FreeRest, At, Touches, Leave, Return, Goto, IInv, Types, CtlType,
          Procs
    <3>2. UNCHANGED <<accepted, taken, runs, shutdown, job>>
      BY <1>15 DEF FreeRest, hist, fields
    <3>3. QED
      BY <2>2, <3>1, <3>2, TaskStutter DEF Busy
  <2>3. QED
    BY <2>1, <2>2
<1>16. ASSUME NEW w \in Workers, WorkerLock(w) PROVE [TP!Next]_(TP!vars)
  BY <1>16, TaskStutter
  DEF WorkerLock, At, Goto, IInv, Types, CtlType, PlacesOK, Busy, Procs,
      fields, hist, memory
<1>17. ASSUME NEW w \in Workers, WorkerWait(w) PROVE [TP!Next]_(TP!vars)
  BY <1>17, TaskStutter
  DEF WorkerWait, At, Goto, IInv, Types, CtlType, PlacesOK, Busy, Procs,
      fields, hist, memory
<1>18. ASSUME NEW w \in Workers, WorkerExit(w) PROVE [TP!Next]_(TP!vars)
  BY <1>18, TaskStutter
  DEF WorkerExit, At, Goto, IInv, Types, CtlType, PlacesOK, Busy, Procs,
      fields, hist, memory
<1>19. ASSUME NEW w \in Workers, WorkerGrab(w) PROVE [TP!Next]_(TP!vars)
  BY <1>19, TaskStutter
  DEF WorkerGrab, At, Goto, IInv, Types, CtlType, PlacesOK, Busy, Procs,
      fields, hist, memory
<1>20. ASSUME NEW w \in Workers, WorkerTake(w) PROVE [TP!Next]_(TP!vars)
  BY <1>20, StartStep DEF TP!Next
<1>21. ASSUME NEW w \in Workers, WorkerDone(w) PROVE [TP!Next]_(TP!vars)
  <2>1. \E t \in Tasks : TP!Finish(t)
    BY <1>21, FinishStep
  <2>2. QED
    BY <2>1 DEF TP!Next
<1>22. ASSUME NEW w \in Workers, SpuriousWakeup(w) PROVE [TP!Next]_(TP!vars)
  BY <1>22, TaskStutter
  DEF SpuriousWakeup, At, Goto, IInv, Types, CtlType, PlacesOK, Busy, Procs,
      fields, hist, memory
<1>23. ASSUME NEW p \in Procs, Undefined(p) PROVE [TP!Next]_(TP!vars)
  BY <1>23, NothingUndefined DEF IInv, LifeInv, CalmInv
<1>24. CASE Terminated
  BY <1>1, <1>24 DEF Terminated
<1>25. QED
  BY <1>1, <1>2, <1>3, <1>4, <1>5, <1>6, <1>7, <1>8, <1>9, <1>10, <1>11, <1>12,
     <1>13, <1>14, <1>15, <1>16, <1>17, <1>18, <1>19, <1>20, <1>21, <1>22,
     <1>23, <1>24
  DEF Next, AddStep, DestroyStep, WorkerStep

(* The pool starts as TaskPool does.                                       *)
LEMMA TaskPoolInit == Init => TP!Init
<1> SUFFICES ASSUME Init PROVE TP!Init
  OBVIOUS
<1>1. accepted = <<>> /\ taken = 0 /\ Mode = "open"
  BY DEF Init, Mode, Parts
<1>2. Running = {} /\ Completed = {}
  <2>1. Busy = {}
    BY NamesAssumption DEF Init, Busy, Procs
  <2>2. QED
    BY <2>1 DEF Running, Completed, Init
<1>3. QED
  BY <1>1, <1>2 DEF TP!Init, Running, Busy, Completed, Mode

(* The pool of pthread_pool/threadpool.c, with its mutex, signals and ring *)
(* buffer, does what TaskPool says, for any number of threads, slots,      *)
(* callers and tasks: tasks start in the order they were accepted, at most *)
(* ThreadCount at a time, each runs once, a graceful shutdown runs all of  *)
(* them and an immediate one starts no more (threadpool.h:135-175).        *)
THEOREM PoolImplementsTaskPool == ASSUME Calm PROVE Spec => ImplementsTaskPool
<1>1. Init => TP!Init
  BY TaskPoolInit
<1>2. IInv /\ LifeInv /\ CalmInv /\ TaskInv /\ Closing /\ [Next]_vars
         => [TP!Next]_(TP!vars)
  BY Calm, TaskStep
<1>3. QED
  BY <1>1, <1>2, Inductive, LifeInductive, CalmInductive, TaskInductive,
     ClosingInductive, PTL DEF Spec, ImplementsTaskPool, TP!Spec
-----------------------------------------------------------------------------
(* The assumption of the theorems: the pool is created, only main uses it, *)
(* and the queue has room for all of its tasks.                            *)
Program == /\ MayFail = {} /\ ~Overlap
           /\ IsFiniteSet(Tasks) /\ N <= QueueSize

(* The workers in a task that has not been counted yet.                    *)
Fresh == {w \in Workers : pc[w] = "run" /\ w \notin counted}

(* Every dequeued task was counted, once, or is in the hands of a worker   *)
(* that will; the one that fails in my_rand has been counted, and its      *)
(* worker stays.                                                           *)
CountInv ==
    /\ done \in Nat
    /\ \A w \in counted : w \in Workers /\ pc[w] = "run"
    /\ state = "running" => done + Cardinality(Fresh) = taken
    /\ state # "running" => done + Cardinality(Fresh) = taken + 1 /\ Fresh # {}

(* What main knows at each stage.  It is the only thread of the program    *)
(* that makes calls, and has added as many tasks as were accepted.         *)
MainInv ==
    /\ OthersIdle
    /\ tasks \in Nat
    /\ main \in {"creating", "adding", "added", "destroying", "end"}
    /\ main = "creating" => pc[Main] \in {"create", "spawn", "count", "idle"}
    /\ main = "creating" /\ pc[Main] = "idle" => handle = "ok"
    /\ main = "added" => pc[Main] \in {"add_lock", "add", "idle"}
    /\ main \in {"adding", "end"} => pc[Main] = "idle"
    /\ main = "destroying" =>
          pc[Main] \in {"dst_lock", "dst", "join", "free", "free_lock", "idle"}
    /\ main \in {"creating", "adding", "added"} \/ pc[Main] \in {"dst_lock", "dst"}
          => shutdown = "no"
    /\ main \in {"added", "destroying"} /\ pc[Main] = "idle" => ret[Main] = "ok"
    /\ main \in {"creating", "adding"} => tasks = Len(accepted)
    /\ main = "added" /\ pc[Main] # "idle" => tasks = Len(accepted)
    /\ main = "added" /\ pc[Main] = "idle" => tasks + 1 = Len(accepted)

(* When main destroys the pool every task was dequeued and counted.        *)
Drained ==
    main \in {"destroying", "end"} => done = Len(accepted) /\ taken = done

(* The packet is never empty.                                              *)
Money == redpacket \in Nat /\ redpacket > 0

PInv == CountInv /\ MainInv /\ Drained /\ Money

-----------------------------------------------------------------------------
(* The program is a user of the pool: each of its steps is a step of the   *)
(* pool or leaves it alone.                                                *)
LEMMA PacketStepsPool == PacketNext => [Next]_vars
<1> SUFFICES ASSUME PacketNext PROVE [Next]_vars
  OBVIOUS
<1> USE NamesAssumption
<1>1. CASE Other(MainStep)
  <2>1. MainStep
    BY <1>1 DEF Other
  <2>2. CASE Created \/ Added \/ Destroyed
    BY <2>2 DEF Created, Added, Destroyed
  <2>3. CASE Destroy
    BY <2>3 DEF Destroy, Next
  <2>4. ASSUME NEW t \in Tasks, Add(t) PROVE [Next]_vars
    BY <2>4 DEF Add, Next, Procs
  <2>5. QED
    BY <2>1, <2>2, <2>3, <2>4 DEF MainStep
<1>2. CASE Other(PoolStep)
  BY <1>2 DEF Other, PoolStep, Next, Procs
<1>3. ASSUME NEW w \in Workers, Task(w) PROVE [Next]_vars
  BY <1>3 DEF Task, Share, TakeRest, Fail, dummy_task
<1>4. ASSUME NEW w \in Workers, Other(TaskEnds(w)) PROVE [Next]_vars
  BY <1>4 DEF Other, TaskEnds, Next, WorkerStep
<1>5. CASE Ended
  BY <1>5 DEF Ended, programVars, allVars
<1>6. QED
  BY <1>1, <1>2, <1>3, <1>4, <1>5 DEF PacketNext

(* So what is proved of the pool holds in these programs.                  *)
THEOREM PacketUsesPool == PacketSpec => Spec
<1>1. PacketInit => Init
  BY DEF PacketInit, MainInit
<1>2. [PacketNext]_programVars => [Next]_vars
  BY PacketStepsPool DEF programVars, allVars
<1>3. QED
  BY <1>1, <1>2, PTL DEF PacketSpec, Spec

(* The program keeps to Calm.                                              *)
LEMMA ProgramIsCalm == Program => Calm
  BY DEF Program, Calm

-----------------------------------------------------------------------------
LEMMA FreshFinite == IsFiniteSet(Fresh) /\ Cardinality(Fresh) \in Nat
<1>1. Fresh \in SUBSET Workers
  BY DEF Fresh
<1>2. IsFiniteSet(Fresh)
  BY <1>1, WorkersFinite, FS_Subset
<1>3. QED
  BY <1>2, FS_CardinalityType

(* A step that neither dequeues, nor counts, nor ends a task.              *)
LEMMA CountSame ==
    ASSUME CountInv, UNCHANGED <<done, counted, state, taken>>,
           \A w \in Workers : pc'[w] = "run" <=> pc[w] = "run"
    PROVE  CountInv'
<1>1. Fresh' = Fresh
  BY DEF Fresh
<1>2. \A w \in counted' : w \in Workers /\ pc'[w] = "run"
  BY DEF CountInv
<1>3. QED
  BY <1>1, <1>2 DEF CountInv

(* A worker that dequeues a task is one more to count it.                  *)
LEMMA CountTake ==
    ASSUME Types, CountInv, NEW w \in Workers, WorkerTake(w),
           UNCHANGED <<done, counted, state>>
    PROVE  CountInv'
<1>1. pc[w] = "take" /\ w \notin counted /\ w \notin Fresh
  BY DEF WorkerTake, At, CountInv, Fresh
<1>2. pc' = [pc EXCEPT ![w] = "run"] /\ taken' = taken + 1
  BY DEF WorkerTake, Goto
<1>3. pc \in [Procs -> Locations] /\ Workers \subseteq Procs
  BY DEF Types, CtlType, Procs
<1>4. Fresh' = Fresh \cup {w}
  BY <1>1, <1>2, <1>3 DEF Fresh
<1>5. Cardinality(Fresh') = Cardinality(Fresh) + 1
  BY <1>1, <1>4, FreshFinite, FS_AddElement
<1>6. \A v \in counted' : v \in Workers /\ pc'[v] = "run"
  BY <1>1, <1>2, <1>3 DEF CountInv
<1>7. taken \in Nat /\ done \in Nat /\ Cardinality(Fresh) \in Nat
  BY FreshFinite DEF Types, HistType, CountInv
<1>8. QED
  BY <1>2, <1>4, <1>5, <1>6, <1>7 DEF CountInv

(* A task that counts itself.                                              *)
LEMMA CountDone ==
    ASSUME Types, CountInv, NEW w \in Workers, dummy_task(w),
           state = "running", UNCHANGED state
    PROVE  CountInv'
<1>1. w \in Fresh
  BY DEF dummy_task, Fresh
<1>2. UNCHANGED <<pc, taken>> /\ done' = done + 1 /\ counted' = counted \cup {w}
  BY DEF dummy_task, vars, hist
<1>3. Fresh' = Fresh \ {w}
  BY <1>2 DEF Fresh
<1>4. Cardinality(Fresh') = Cardinality(Fresh) - 1
  BY <1>1, <1>3, FreshFinite, FS_RemoveElement
<1>5. \A v \in counted' : v \in Workers /\ pc'[v] = "run"
  BY <1>1, <1>2 DEF CountInv, Fresh
<1>6. taken \in Nat /\ done \in Nat /\ Cardinality(Fresh) \in Nat
  BY FreshFinite DEF Types, HistType, CountInv
<1>7. QED
  BY <1>2, <1>3, <1>4, <1>5, <1>6 DEF CountInv

(* A task that fails in my_rand has been counted, and stays.               *)
LEMMA CountFail ==
    ASSUME Types, CountInv, NEW w \in Workers, Fail(w), state = "running"
    PROVE  CountInv'
<1>1. w \in Fresh
  BY DEF Fail, Fresh
<1>2. UNCHANGED <<pc, taken, counted>> /\ done' = done + 1 /\ state' # "running"
  BY DEF Fail, vars, hist
<1>3. Fresh' = Fresh
  BY <1>2 DEF Fresh
<1>4. taken \in Nat /\ done \in Nat /\ Cardinality(Fresh) \in Nat
  BY FreshFinite DEF Types, HistType, CountInv
<1>5. QED
  BY <1>1, <1>2, <1>3, <1>4 DEF CountInv

(* A worker whose task returns had counted it.                             *)
LEMMA CountEnds ==
    ASSUME Types, CountInv, NEW w \in Workers, TaskEnds(w), UNCHANGED state
    PROVE  CountInv'
<1>1. w \in counted /\ counted' = counted \ {w} /\ UNCHANGED <<done, taken>>
  BY DEF TaskEnds, WorkerDone
<1>2. pc' = [pc EXCEPT ![w] = "lock"]
  BY DEF TaskEnds, WorkerDone, Goto
<1>3. pc \in [Procs -> Locations] /\ Workers \subseteq Procs
  BY DEF Types, CtlType, Procs
<1>4. \A v \in Workers : pc'[v] = IF v = w THEN "lock" ELSE pc[v]
  BY <1>2, <1>3
<1>5. Fresh' = Fresh
  BY <1>1, <1>4 DEF Fresh
<1>6. \A v \in counted' : v \in Workers /\ pc'[v] = "run"
  BY <1>1, <1>4 DEF CountInv
<1>7. QED
  BY <1>1, <1>5, <1>6 DEF CountInv

(* What the steps of the pool do to the tasks in progress: only a worker   *)
(* that dequeues starts one, and none ends.                                *)
LEMMA PoolStepRuns ==
    ASSUME Types, PlacesOK, Unspawned, PoolStep
    PROVE  \/ \E w \in Workers : WorkerTake(w)
           \/ /\ UNCHANGED taken
              /\ \A w \in Workers : pc'[w] = "run" <=> pc[w] = "run"
<1> USE NamesAssumption
<1> DEFINE Quietly == /\ UNCHANGED taken
                      /\ \A w \in Workers : pc'[w] = "run" <=> pc[w] = "run"
<1>t. pc \in [Procs -> Locations] /\ Workers \subseteq Procs /\ Main \in Procs
      /\ Main \notin Workers
  BY DEF Types, CtlType, Procs
<1>1. ASSUME Create PROVE Quietly
  BY <1>t, <1>1 DEF Create, CreateFails, Goto, hist
<1>2. ASSUME Spawn PROVE Quietly
  <2>1. pc[Main] = "spawn" /\ thread_count + 1 \in Workers /\ UNCHANGED taken
    BY <1>2, SpawnedWorker DEF Spawn, At, hist
  <2>2. pc[thread_count + 1] = "unborn"
    BY <2>1, CountFact DEF Unspawned, Workers, Types, FieldsType
  <2>3. QED
    BY <1>t, <1>2, <2>1, <2>2 DEF Spawn, Goto
<1>3. ASSUME CountThread PROVE Quietly
  BY <1>t, <1>3 DEF CountThread, Goto, hist
<1>4. ASSUME AddStep(Main) PROVE Quietly
  <2>1. ASSUME AddLock(Main) PROVE Quietly
    BY <1>t, <2>1 DEF AddLock, Goto, hist
  <2>2. ASSUME AddStore(Main) PROVE Quietly
    <3>1. UNCHANGED taken
      BY <2>2 DEF AddStore
    <3>2. \A q \in Procs \ {Main} :
             pc'[q] = pc[q] \/ (q \in Waiting /\ pc'[q] = "lock")
      BY <1>t, <2>2, Signalled DEF Types
    <3>3. QED
      BY <1>t, <3>1, <3>2 DEF Waiting
  <2>3. ASSUME NEW r, AddRefuse(Main, r) PROVE Quietly
    BY <1>t, <2>3 DEF AddRefuse, Return, Goto
  <2>4. QED
    BY <1>4, <2>1, <2>2, <2>3 DEF AddStep
<1>5. ASSUME DestroyStep(Main) PROVE Quietly
  <2>1. ASSUME DestroyBegin(Main) PROVE Quietly
    BY <1>t, <2>1 DEF DestroyBegin, AfterBroadcast, Waiting, hist
  <2>2. ASSUME DestroyLock(Main) \/ DestroyJoin(Main) PROVE Quietly
    BY <1>t, <2>2 DEF DestroyLock, DestroyJoin, Goto, hist
  <2>3. ASSUME DestroyAgain(Main) \/ FreeArrays(Main) \/ FreeRest(Main)
        PROVE  Quietly
    BY <1>t, <2>3
    DEF DestroyAgain, FreeArrays, FreeRest, Leave, Return, Goto, hist
  <2>4. QED
    BY <1>5, <2>1, <2>2, <2>3 DEF DestroyStep
<1>6. ASSUME NEW w \in Workers, pc[w] # "run", WorkerStep(w), ~WorkerTake(w)
      PROVE  Quietly
  <2>1. WorkerLock(w) \/ WorkerWait(w) \/ WorkerExit(w) \/ WorkerGrab(w)
    BY <1>6 DEF WorkerStep, WorkerDone, At
  <2>2. QED
    BY <1>t, <1>6, <2>1
    DEF WorkerLock, WorkerWait, WorkerExit, WorkerGrab, Goto, hist
<1>7. ASSUME NEW w \in Workers, SpuriousWakeup(w) PROVE Quietly
  BY <1>t, <1>7 DEF SpuriousWakeup, At, Goto, hist
<1>8. QED
  BY <1>1, <1>2, <1>3, <1>4, <1>5, <1>6, <1>7 DEF PoolStep

(* Every step of the program keeps CountInv.                               *)
LEMMA CountStep ==
    Types /\ PlacesOK /\ Unspawned /\ CountInv /\ [PacketNext]_programVars
        => CountInv'
<1> SUFFICES ASSUME Types, PlacesOK, Unspawned, CountInv,
                    [PacketNext]_programVars
             PROVE  CountInv'
  OBVIOUS
<1> USE NamesAssumption
<1>1. CASE UNCHANGED programVars
  BY <1>1, CountSame DEF programVars, allVars, mainVars, packetVars, vars, hist
<1>2. CASE Other(MainStep)
  <2>1. MainStep /\ UNCHANGED state
    BY <1>2 DEF Other, packetVars
  <2>2. UNCHANGED <<done, counted, taken>>
    BY <2>1 DEF MainStep, Created, Add, Added, Destroy, Destroyed, AddCall,
                DestroyCall, vars, hist
  <2>3. \A w \in Workers : pc'[w] = pc[w]
    BY <2>1 DEF MainStep, Created, Add, Added, Destroy, Destroyed, AddCall,
                DestroyCall, Goto, vars, Types, CtlType, Procs
  <2>4. QED
    BY <2>1, <2>2, <2>3, CountSame
<1>3. CASE Other(PoolStep)
  <2>1. PoolStep /\ UNCHANGED state
    BY <1>3 DEF Other, packetVars
  <2>2. UNCHANGED <<done, counted>>
    BY <2>1 DEF PoolStep, mainVars
  <2>3. QED
    BY <2>1, <2>2, PoolStepRuns, CountSame, CountTake
<1>4. ASSUME NEW w \in Workers, Task(w) PROVE CountInv'
  BY <1>4, CountDone, CountFail DEF Task, Share, TakeRest
<1>5. ASSUME NEW w \in Workers, Other(TaskEnds(w)) PROVE CountInv'
  BY <1>5, CountEnds DEF Other, packetVars
<1>6. CASE Ended
  BY <1>1, <1>6 DEF Ended
<1>7. QED
  BY <1>1, <1>2, <1>3, <1>4, <1>5, <1>6 DEF PacketNext

-----------------------------------------------------------------------------
LEMMA TasksFinite == ASSUME Program PROVE IsFiniteSet(Tasks) /\ N \in Nat
  BY FS_CardinalityType DEF Program, N

(* Tasks are accepted once, so no more of them than there are.             *)
LEMMA AcceptedFit ==
    ASSUME Types, Unique, NEW T \in SUBSET Tasks, IsFiniteSet(T),
           \A i \in 1..Len(accepted) : accepted[i] \in T
    PROVE  Len(accepted) <= Cardinality(T)
<1> DEFINE S == 1..Len(accepted)
           f == [i \in S |-> accepted[i]]
<1>1. Len(accepted) \in Nat /\ Cardinality(T) \in Nat
  BY FS_CardinalityType DEF Types, HistType
<1>2. IsFiniteSet(S) /\ Cardinality(S) = Len(accepted)
  <2>1. 1 \in Int /\ Len(accepted) \in Int
    BY <1>1
  <2>2. IsFiniteSet(S) /\ Cardinality(S) = IF 1 > Len(accepted) THEN 0
                                           ELSE Len(accepted) - 1 + 1
    BY <2>1, FS_Interval
  <2>3. QED
    BY <1>1, <2>2
<1>3. f \in [S -> T]
  OBVIOUS
<1>4. ~\E x, y \in S : x # y /\ f[x] = f[y]
  BY DEF Unique
<1> HIDE DEF S, f
<1>5. ~(Cardinality(T) < Cardinality(S))
  BY <1>2, <1>3, <1>4, FS_PigeonHole
<1>6. QED
  BY <1>1, <1>2, <1>5

LEMMA AcceptedFew ==
    ASSUME Program, Types, Unique
    PROVE  Len(accepted) <= N
<1>1. accepted \in Seq(Tasks)
  BY DEF Types, HistType
<1>2. \A i \in 1..Len(accepted) : accepted[i] \in Tasks
  BY <1>1
<1>3. QED
  BY <1>2, TasksFinite, AcceptedFit DEF N

(* While main adds a task it is not among those accepted, so that the      *)
(* queue has room for it.                                                  *)
LEMMA RoomForTask ==
    ASSUME Program, IInv, Unique, pc[Main] = "add"
    PROVE  ~Full
<1>1. Main \in Adding /\ arg[Main] \in Tasks
  BY NamesAssumption DEF Adding, Procs, IInv, Types, ArgInv
<1> DEFINE T == Tasks \ {arg[Main]}
<1>2. IsFiniteSet(T) /\ Cardinality(T) = N - 1
  BY <1>1, TasksFinite, FS_RemoveElement DEF N
<1>3. accepted \in Seq(Tasks)
  BY DEF IInv, Types, HistType
<1>4. \A i \in 1..Len(accepted) : accepted[i] \in T
  BY <1>1, <1>3 DEF Unique
<1>5. Len(accepted) <= N - 1
  <2>1. Types /\ T \in SUBSET Tasks
    BY DEF IInv
  <2> HIDE DEF T
  <2>2. QED
    BY <1>2, <1>4, <2>1, AcceptedFit
<1>6. count <= Len(accepted) /\ count \in Int /\ N \in Nat /\ QueueSize \in Nat
  BY PendingFact, TasksFinite, SizeFact DEF IInv, Types, BufferType
<1>7. N <= QueueSize /\ Len(accepted) \in Nat
  BY PendingFact DEF Program
<1>8. QED
  BY <1>5, <1>6, <1>7 DEF Full

(* No more tasks have counted themselves than were dequeued, and one that  *)
(* is about to is one more.                                                *)
LEMMA DoneBelowTaken ==
    ASSUME Types, CountInv
    PROVE  /\ done <= taken
           /\ Fresh # {} /\ state = "running" => done + 1 <= taken
<1>1. taken \in Nat /\ done \in Nat /\ Cardinality(Fresh) \in Nat
  BY FreshFinite DEF Types, HistType, CountInv
<1>2. Fresh # {} => Cardinality(Fresh) # 0
  BY FreshFinite, FS_EmptySet
<1>3. QED
  BY <1>1, <1>2 DEF CountInv

-----------------------------------------------------------------------------
(* A step that main does not notice.                                       *)
LEMMA MainSame ==
    ASSUME MainInv, UNCHANGED <<main, tasks, shutdown, accepted>>,
           \A c \in Callers : pc'[c] = pc[c],
           ret'[Main] = ret[Main], handle' = handle
    PROVE  MainInv'
  BY NamesAssumption DEF MainInv, OthersIdle

(* What main does between the calls.                                       *)
LEMMA MainStepKeeps ==
    ASSUME IInv, PlacesOK, MainInv, MainStep
    PROVE  MainInv'
<1> USE NamesAssumption
<1>t. /\ pc \in [Procs -> Locations] /\ Main \in Procs /\ Main \in Callers
      /\ Callers \subseteq Procs
      /\ Len(accepted) \in Nat
  BY PendingFact DEF IInv, Types, CtlType, Procs
<1>1. CASE Created
  <2>1. main = "creating" /\ pc[Main] = "idle" /\ handle = "ok" /\ main' = "adding"
    BY <1>1 DEF Created, Assert, MainInv
  <2>2. UNCHANGED <<pc, shutdown, accepted, handle, ret, tasks>>
    BY <1>1 DEF Created, vars, fields, hist, memory, calls
  <2>3. QED
    BY <2>1, <2>2 DEF MainInv, OthersIdle
<1>2. ASSUME NEW t \in Tasks, Add(t) PROVE MainInv'
  <2>1. main = "adding" /\ main' = "added" /\ pc[Main] = "idle"
    BY <1>2 DEF Add, MainInv
  <2>2. UNCHANGED <<shutdown, accepted, handle, ret, tasks>>
    BY <1>2 DEF Add, AddCall, fields, memory
  <2>3. pc' = [pc EXCEPT ![Main] = "add_lock"]
    BY <1>2 DEF Add, AddCall, Goto
  <2>4. pc'[Main] = "add_lock" /\ \A c \in Callers : c # Main => pc'[c] = pc[c]
    BY <1>t, <2>3
  <2>5. QED
    BY <2>1, <2>2, <2>4 DEF MainInv, OthersIdle
<1>3. CASE Added
  <2>1. main = "added" /\ pc[Main] = "idle" /\ ret[Main] = "ok"
    BY <1>3 DEF Added, MainInv
  <2>2. main' = "adding" /\ tasks' = tasks + 1
    BY <1>3, <2>1 DEF Added, Assert
  <2>3. UNCHANGED <<pc, shutdown, accepted, handle, ret>>
    BY <1>3 DEF Added, vars, fields, hist, memory, calls
  <2>4. QED
    BY <2>1, <2>2, <2>3 DEF MainInv, OthersIdle
<1>4. CASE Destroy
  <2>1. main = "adding" /\ main' = "destroying" /\ shutdown = "no"
    BY <1>4 DEF Destroy, MainInv
  <2>2. UNCHANGED <<shutdown, accepted, handle, ret, tasks>>
    BY <1>4 DEF Destroy, DestroyCall, fields, memory, hist
  <2>3. pc' = [pc EXCEPT ![Main] = "dst_lock"]
    BY <1>4 DEF Destroy, DestroyCall, Goto
  <2>4. pc'[Main] = "dst_lock" /\ \A c \in Callers : c # Main => pc'[c] = pc[c]
    BY <1>t, <2>3
  <2>5. QED
    BY <2>1, <2>2, <2>4 DEF MainInv, OthersIdle
<1>5. CASE Destroyed
  <2>1. main = "destroying" /\ pc[Main] = "idle" /\ ret[Main] = "ok"
    BY <1>5 DEF Destroyed, MainInv
  <2>2. main' = "end"
    BY <1>5, <2>1 DEF Destroyed, Assert
  <2>3. UNCHANGED <<pc, shutdown, accepted, handle, ret, tasks>>
    BY <1>5 DEF Destroyed, vars, fields, hist, memory, calls
  <2>4. QED
    BY <2>1, <2>2, <2>3 DEF MainInv, OthersIdle
<1>6. QED
  BY <1>1, <1>2, <1>3, <1>4, <1>5 DEF MainStep

(* What main's calls do.                                                   *)
LEMMA MainPoolKeeps ==
    ASSUME Program, IInv, PlacesOK, Birth, Unique, MainInv, PoolStep
    PROVE  MainInv'
<1> USE NamesAssumption
<1>t. /\ pc \in [Procs -> Locations] /\ Main \in Procs /\ Main \in Callers
      /\ Callers \subseteq Procs /\ Workers \subseteq Procs
      /\ Len(accepted) \in Nat /\ accepted \in Seq(Tasks)
      /\ ret \in [Procs -> {"ok", "queue_full", "shutdown"}]
      /\ arg[Main] \in Tasks \cup {NoTask}
  BY PendingFact DEF IInv, Types, CtlType, CallsType, Procs
<1>u. UNCHANGED <<main, tasks>>
  BY DEF PoolStep, mainVars
<1>1. CASE Create
  <2>1. pc' = [pc EXCEPT ![Main] = "spawn"] /\ UNCHANGED handle
    BY <1>1 DEF Create, CreateFails, Goto, Program
  <2>2. pc[Main] = "create" /\ UNCHANGED <<shutdown, accepted, ret>>
    BY <1>1 DEF Create, fields, hist, calls
  <2>3. pc'[Main] = "spawn" /\ \A c \in Callers : c # Main => pc'[c] = pc[c]
    BY <1>t, <2>1
  <2>4. main = "creating"
    BY <2>2 DEF MainInv
  <2>5. QED
    BY <1>u, <2>1, <2>2, <2>3, <2>4 DEF MainInv, OthersIdle
<1>2. CASE Spawn
  <2>1. pc' = [pc EXCEPT ![Main] = "count", ![thread_count + 1] = "lock"]
    BY <1>2 DEF Spawn, Program
  <2>2. pc[Main] = "spawn" /\ UNCHANGED <<shutdown, accepted, ret, handle>>
    BY <1>2 DEF Spawn, At, fields, hist, memory
  <2>3. thread_count + 1 \in Workers
    BY <1>2, SpawnedWorker DEF IInv
  <2>4. pc'[Main] = "count" /\ \A c \in Callers : c # Main => pc'[c] = pc[c]
    BY <1>t, <2>1, <2>3
  <2>5. main = "creating"
    BY <2>2 DEF MainInv
  <2>6. QED
    BY <1>u, <2>2, <2>4, <2>5 DEF MainInv, OthersIdle
<1>3. CASE CountThread
  <2>1. pc[Main] = "count" /\ UNCHANGED <<shutdown, accepted, ret>>
    BY <1>3 DEF CountThread, At, hist, calls
  <2>2. \/ pc' = [pc EXCEPT ![Main] = "spawn"]
        \/ pc' = [pc EXCEPT ![Main] = "idle"] /\ handle' = "ok"
    BY <1>3 DEF CountThread, Goto
  <2>3. /\ pc'[Main] = "spawn" \/ (pc'[Main] = "idle" /\ handle' = "ok")
        /\ \A c \in Callers : c # Main => pc'[c] = pc[c]
    BY <1>t, <2>2
  <2>4. main = "creating"
    BY <2>1 DEF MainInv
  <2>5. QED
    BY <1>u, <2>1, <2>3, <2>4 DEF MainInv, OthersIdle
<1>4. CASE AddLock(Main)
  <2>1. pc[Main] = "add_lock" /\ UNCHANGED <<shutdown, accepted, ret, handle>>
    BY <1>4 DEF AddLock, At, hist, fields, memory
  <2>2. pc' = [pc EXCEPT ![Main] = "add"]
    BY <1>4 DEF AddLock, Goto
  <2>3. pc'[Main] = "add" /\ \A c \in Callers : c # Main => pc'[c] = pc[c]
    BY <1>t, <2>2
  <2>4. main = "added"
    BY <2>1 DEF MainInv
  <2>5. QED
    BY <1>u, <2>1, <2>3, <2>4 DEF MainInv, OthersIdle
<1>5. CASE AddStore(Main)
  <2>1. pc[Main] = "add" /\ UNCHANGED <<shutdown, handle>>
    BY <1>5 DEF AddStore, At, fields, memory
  <2>2. accepted' = Append(accepted, arg[Main]) /\ ret' = [ret EXCEPT ![Main] = "ok"]
    BY <1>5 DEF AddStore
  <2>3. Len(accepted') = Len(accepted) + 1 /\ ret'[Main] = "ok"
    <3>1. arg[Main] \in Tasks
      BY <2>1, <1>t DEF IInv, Types, ArgInv
    <3>2. QED
      BY <1>t, <2>2, <3>1
  <2>4. pc'[Main] = "idle" /\ \A c \in Callers : c # Main => pc'[c] = pc[c]
    BY <1>t, <1>5, Signalled DEF IInv, Types, OthersIdle, MainInv, Waiting
  <2>5. main = "added"
    BY <2>1 DEF MainInv
  <2>6. QED
    BY <1>u, <2>1, <2>3, <2>4, <2>5 DEF MainInv, OthersIdle
<1>6. ASSUME NEW r, AddRefuse(Main, r) PROVE MainInv'
  <2>1. pc[Main] = "add" /\ (Full \/ ShutDown)
    BY <1>6 DEF AddRefuse, At
  <2>2. ~Full
    BY <2>1, RoomForTask
  <2>3. main = "added" /\ shutdown = "no"
    BY <2>1 DEF MainInv
  <2>4. QED
    BY <2>1, <2>2, <2>3 DEF ShutDown
<1>7. CASE DestroyLock(Main)
  <2>1. pc[Main] = "dst_lock" /\ UNCHANGED <<shutdown, accepted, ret, handle>>
    BY <1>7 DEF DestroyLock, At, hist, fields, memory, calls
  <2>2. pc' = [pc EXCEPT ![Main] = "dst"]
    BY <1>7 DEF DestroyLock, Goto
  <2>3. pc'[Main] = "dst" /\ \A c \in Callers : c # Main => pc'[c] = pc[c]
    BY <1>t, <2>2
  <2>4. main = "destroying"
    BY <2>1 DEF MainInv
  <2>5. QED
    BY <1>u, <2>1, <2>3, <2>4 DEF MainInv, OthersIdle
<1>8. CASE DestroyAgain(Main)
  <2>1. pc[Main] = "dst" /\ ShutDown
    BY <1>8 DEF DestroyAgain, At, AlreadyDown
  <2>2. QED
    BY <2>1 DEF MainInv, ShutDown
<1>9. CASE DestroyBegin(Main)
  <2>1. pc[Main] = "dst" /\ UNCHANGED <<accepted, ret, handle>>
    BY <1>9 DEF DestroyBegin, At, hist, memory, calls
  <2>2. pc'[Main] = "join" /\ \A c \in Callers : c # Main => pc'[c] = pc[c]
    BY <1>t, <1>9 DEF DestroyBegin, AfterBroadcast, Waiting
  <2>3. main = "destroying"
    BY <2>1 DEF MainInv
  <2>4. QED
    BY <1>u, <2>1, <2>2, <2>3 DEF MainInv, OthersIdle
<1>10. CASE DestroyJoin(Main)
  <2>1. pc[Main] = "join" /\ UNCHANGED <<accepted, ret, handle>>
    BY <1>10 DEF DestroyJoin, At, hist, memory, calls
  <2>2. pc' = [pc EXCEPT ![Main] = "free"]
    BY <1>10 DEF DestroyJoin, Goto
  <2>3. pc'[Main] = "free" /\ \A c \in Callers : c # Main => pc'[c] = pc[c]
    BY <1>t, <2>2
  <2>4. main = "destroying"
    BY <2>1 DEF MainInv
  <2>5. QED
    BY <1>u, <2>1, <2>3, <2>4 DEF MainInv, OthersIdle
<1>11. CASE FreeArrays(Main) \/ FreeRest(Main)
  <2>1. pc[Main] \in {"free", "free_lock"} /\ UNCHANGED accepted
    BY <1>11 DEF FreeArrays, FreeRest, At, hist
  <2>2. \/ pc' = [pc EXCEPT ![Main] = "free_lock"] /\ UNCHANGED ret
        \/ /\ pc' = [pc EXCEPT ![Main] = "idle"]
           /\ ret' = [ret EXCEPT ![Main] = "ok"]
    BY <1>11 DEF FreeArrays, FreeRest, Leave, Return, Goto
  <2>3. /\ pc'[Main] = "free_lock" \/ (pc'[Main] = "idle" /\ ret'[Main] = "ok")
        /\ \A c \in Callers : c # Main => pc'[c] = pc[c]
    BY <1>t, <2>2
  <2>4. main = "destroying"
    BY <2>1 DEF MainInv
  <2>5. QED
    BY <1>u, <2>1, <2>3, <2>4 DEF MainInv, OthersIdle
<1>12. ASSUME NEW w \in Workers, WorkerStep(w) \/ SpuriousWakeup(w) PROVE MainInv'
  <2>1. UNCHANGED <<shutdown, accepted, ret, handle>>
    BY <1>12 DEF WorkerStep, WorkerLock, WorkerWait, WorkerExit, WorkerGrab,
      WorkerTake, WorkerDone, SpuriousWakeup, fields, memory, calls, hist
  <2>2. PICK l \in Locations : pc' = [pc EXCEPT ![w] = l]
    BY <1>12, LocationsFact DEF WorkerStep, WorkerLock, WorkerWait, WorkerExit,
      WorkerGrab, WorkerTake, WorkerDone, SpuriousWakeup, Goto
  <2>3. \A c \in Callers : pc'[c] = pc[c]
    BY <1>t, <2>2
  <2>4. QED
    BY <1>u, <2>1, <2>3, MainSame
<1>13. QED
  BY <1>1, <1>2, <1>3, <1>4, <1>5, <1>6, <1>7, <1>8, <1>9, <1>10, <1>11, <1>12
  DEF PoolStep, AddStep, DestroyStep

(* Every step of the program keeps MainInv.                                *)
LEMMA MainInvStep ==
    Program /\ IInv /\ PlacesOK /\ Birth /\ Unique /\ MainInv
        /\ [PacketNext]_programVars => MainInv'
<1> SUFFICES ASSUME Program, IInv, PlacesOK, Birth, Unique, MainInv,
                    [PacketNext]_programVars
             PROVE  MainInv'
  OBVIOUS
<1> USE NamesAssumption
<1>1. CASE UNCHANGED programVars \/ \E w \in Workers : Task(w)
  BY <1>1, MainSame DEF Task, Share, TakeRest, Fail, dummy_task,
    programVars, allVars, mainVars, vars, fields, memory, calls, hist
<1>2. CASE Other(MainStep) \/ Other(PoolStep)
  BY <1>2, MainStepKeeps, MainPoolKeeps DEF Other
<1>3. ASSUME NEW w \in Workers, Other(TaskEnds(w)) PROVE MainInv'
  <2>1. WorkerDone(w) /\ UNCHANGED <<main, tasks>>
    BY <1>3 DEF Other, TaskEnds
  <2>2. UNCHANGED <<shutdown, accepted, ret, handle>>
    BY <2>1 DEF WorkerDone, fields, memory, calls
  <2>3. \A c \in Callers : pc'[c] = pc[c]
    BY <2>1 DEF WorkerDone, Goto, IInv, Types, CtlType, Procs
  <2>4. QED
    BY <2>1, <2>2, <2>3, MainSame
<1>4. CASE Ended
  BY <1>1, <1>4 DEF Ended
<1>5. QED
  BY <1>1, <1>2, <1>3, <1>4 DEF PacketNext

-----------------------------------------------------------------------------
(* The pool has nothing left when main destroys it.                        *)
LEMMA DrainedStep ==
    IInv /\ PlacesOK /\ Unspawned /\ CountInv /\ MainInv /\ Drained
        /\ [PacketNext]_programVars => Drained'
<1> SUFFICES ASSUME IInv, PlacesOK, Unspawned, CountInv, MainInv, Drained,
                    [PacketNext]_programVars
             PROVE  Drained'
  OBVIOUS
<1> USE NamesAssumption
<1>t. /\ taken \in Nat /\ done \in Nat /\ Len(accepted) \in Nat
      /\ taken <= Len(accepted) /\ count = Len(accepted) - taken
      /\ done <= taken
      /\ Fresh # {} /\ state = "running" => done + 1 <= taken
  BY PendingFact, DoneBelowTaken DEF IInv, Types, HistType, CountInv
<1>1. CASE UNCHANGED programVars
  BY <1>1 DEF Drained, programVars, allVars, mainVars, vars, hist
<1>2. CASE Other(MainStep)
  <2>1. UNCHANGED <<done, taken, accepted>>
    BY <1>2 DEF Other, MainStep, Created, Add, Added, Destroy, Destroyed,
                AddCall, DestroyCall, vars, hist
  <2>2. CASE Destroy
    <3>1. tasks = Len(accepted) /\ done >= tasks
      BY <2>2 DEF Destroy, AllDone, MainInv
    <3>2. done = Len(accepted) /\ taken = done
      BY <1>t, <3>1
    <3>3. QED
      BY <2>1, <3>2 DEF Drained
  <2>3. CASE Destroyed
    BY <2>1, <2>3 DEF Destroyed, Drained
  <2>4. CASE Created \/ Added \/ \E t \in Tasks : Add(t)
    BY <2>4 DEF Created, Added, Add, Assert, Drained
  <2>5. QED
    BY <1>2, <2>2, <2>3, <2>4 DEF Other, MainStep
<1>3. CASE Other(PoolStep)
  <2>1. PoolStep /\ UNCHANGED <<main, done>>
    BY <1>3 DEF Other, PoolStep, mainVars
  <2> SUFFICES ASSUME main \in {"destroying", "end"}
               PROVE  UNCHANGED <<accepted, taken>>
    BY <2>1 DEF Drained
  <2>2. count = 0
    BY <1>t DEF Drained
  <2>3. pc[Main] # "add"
    BY DEF MainInv
  <2>4. UNCHANGED accepted
    BY <2>1, <2>3
    DEF PoolStep, Create, Spawn, CountThread, AddStep, AddLock, AddStore,
        AddRefuse, DestroyStep, DestroyLock, DestroyAgain, DestroyBegin,
        DestroyJoin, FreeArrays, FreeRest, WorkerStep, WorkerLock, WorkerWait,
        WorkerExit, WorkerGrab, WorkerTake, WorkerDone, SpuriousWakeup, At, hist
  <2>5. ASSUME NEW w \in Workers, WorkerTake(w) PROVE FALSE
    <3>1. count > 0
      BY <2>5 DEF WorkerTake, At, IInv, BufferInv, LocalInv
    <3>2. QED
      BY <2>2, <3>1
  <2>6. QED
    BY <2>1, <2>4, <2>5, PoolStepRuns DEF IInv
<1>4. ASSUME NEW w \in Workers, Task(w) PROVE Drained'
  <2>1. /\ state = "running" /\ pc[w] = "run" /\ w \notin counted
        /\ UNCHANGED main
    BY <1>4 DEF Task, Share, TakeRest, Fail, dummy_task
  <2>2. w \in Fresh
    BY <2>1 DEF Fresh
  <2>3. taken # done
    BY <1>t, <2>1, <2>2
  <2>4. QED
    BY <2>1, <2>3 DEF Drained
<1>5. ASSUME NEW w \in Workers, Other(TaskEnds(w)) PROVE Drained'
  BY <1>5 DEF Other, TaskEnds, WorkerDone, Drained
<1>6. CASE Ended
  BY <1>1, <1>6 DEF Ended
<1>7. QED
  BY <1>1, <1>2, <1>3, <1>4, <1>5, <1>6 DEF PacketNext

-----------------------------------------------------------------------------
(* Of R tenths shared among n the base b is at most R / 10n whole units.   *)
LEMMA DivideBelow ==
    ASSUME NEW R \in Nat, NEW m \in Nat, m > 0
    PROVE  /\ R \div m \in Nat
           /\ m * (R \div m) <= R
  OBVIOUS

(* A draw leaves something, if at least two share.                         *)
LEMMA DrawLeaves ==
    ASSUME NEW R \in Nat, R > 0, NEW n \in Nat, n >= 2,
           NEW b \in Int, b <= R \div (10 * n), NEW d \in Draws(Limit(b))
    PROVE  R - d \in Nat /\ R - d > 0
<1>1. PICK a \in 1..Limit(b)-1 : d = 10 * a + 1
  BY DEF Draws
<1>2. Limit(b) \in Int /\ 10 * Limit(b) <= 18 * b
  BY DEF Limit
<1>3. a \in Int /\ 1 <= a /\ a <= Limit(b) - 1
  BY <1>1, <1>2
<1>4. d \in Nat /\ d <= 18 * b - 9 /\ b >= 1
  BY <1>1, <1>2, <1>3
<1>5. 20 * b <= R
  <2>1. 10 * n \in Nat /\ 10 * n > 0
    OBVIOUS
  <2> DEFINE q == R \div (10 * n)
  <2>2. q \in Nat /\ (10 * n) * q <= R
    BY <2>1, DivideBelow
  <2>3. b <= q
    OBVIOUS
  <2> HIDE DEF q
  <2>4. 20 * q <= (10 * n) * q
    <3>1. \A k \in Nat : 2 * k <= n * k
      OBVIOUS
    <3>2. 2 * q <= n * q /\ n * q \in Nat
      BY <2>2, <3>1
    <3>3. (10 * n) * q = 10 * (n * q)
      BY <2>2
    <3>4. QED
      BY <2>2, <3>2, <3>3
  <2>5. QED
    BY <1>4, <2>2, <2>3, <2>4
<1>6. QED
  BY <1>4, <1>5

(* Every step leaves money in the packet: whoever draws is not the last of *)
(* the tasks, so that at least two of them share.                          *)
LEMMA MoneyStep ==
    Program /\ IInv /\ Unique /\ CountInv /\ Money /\ [PacketNext]_programVars
        => Money'
<1> SUFFICES ASSUME Program, IInv, Unique, CountInv, Money,
                    [PacketNext]_programVars
             PROVE  Money'
  OBVIOUS
<1>1. CASE UNCHANGED redpacket
  BY <1>1 DEF Money
<1>2. ASSUME NEW w \in Workers, Task(w), Share(w) PROVE Money'
  <2>1. /\ w \in Fresh /\ state = "running"
    BY <1>2 DEF Task, Share, dummy_task, Fresh
  <2>2. done + 1 <= taken /\ taken <= Len(accepted) /\ Len(accepted) <= N
    BY <2>1, DoneBelowTaken, PendingFact, AcceptedFew DEF IInv
  <2>3. done \in Nat /\ N \in Nat /\ taken \in Nat /\ Len(accepted) \in Nat
    BY TasksFinite, PendingFact DEF CountInv
  <2>4. done + 1 # N
    BY <1>2 DEF Share, Last
  <2>5. N >= 2
    BY <2>2, <2>3, <2>4
  <2>6. PICK b \in Base : \E d \in Draws(Limit(b)) : redpacket' = redpacket - d
    BY <1>2 DEF Share
  <2>7. PICK d \in Draws(Limit(b)) : redpacket' = redpacket - d
    BY <2>6
  <2>8. redpacket \in Nat /\ redpacket > 0
    BY DEF Money
  <2>9. b \in Int /\ b <= redpacket \div (10 * N)
    <3>1. 10 * N \in Nat /\ 10 * N > 0
      BY <2>3, <2>5
    <3>2. redpacket \div (10 * N) \in Nat
      BY <2>8, <3>1, DivideBelow
    <3>3. b = redpacket \div (10 * N) \/ b = redpacket \div (10 * N) - 1
      BY <2>6 DEF Base
    <3>4. QED
      BY <3>2, <3>3
  <2>10. redpacket - d \in Nat /\ redpacket - d > 0
    BY <2>3, <2>5, <2>7, <2>8, <2>9, DrawLeaves
  <2>11. QED
    BY <2>7, <2>10 DEF Money
<1>3. ASSUME ~\E w \in Workers : Task(w) /\ Share(w) PROVE UNCHANGED redpacket
  BY <1>3 DEF PacketNext, Other, Task, TakeRest, Fail, Ended, packetVars,
    programVars
<1>4. QED
  BY <1>1, <1>2, <1>3

-----------------------------------------------------------------------------
(* The invariant holds at first,                                           *)
LEMMA PacketInvInit == PacketInit => PInv
<1> SUFFICES ASSUME PacketInit PROVE PInv
  OBVIOUS
<1> USE NamesAssumption
<1>1. /\ pc = [p \in Procs |-> IF p = Main THEN "create"
                               ELSE IF p \in Callers THEN "idle" ELSE "unborn"]
      /\ accepted = <<>> /\ taken = 0 /\ shutdown = "no"
      /\ main = "creating" /\ tasks = 0 /\ done = 0 /\ counted = {}
      /\ state = "running" /\ redpacket \in Totals
  BY DEF PacketInit, MainInit, Init
<1>2. /\ pc[Main] = "create"
      /\ \A c \in Callers : c # Main => pc[c] = "idle"
      /\ \A w \in Workers : pc[w] = "unborn"
  BY <1>1 DEF Procs
<1>3. Fresh = {}
  BY <1>2 DEF Fresh
<1>4. CountInv
  BY <1>1, <1>3, FS_EmptySet DEF CountInv
<1>5. MainInv
  BY <1>1, <1>2 DEF MainInv, OthersIdle
<1>6. Drained /\ Money
  BY <1>1, TotalsAssumption DEF Drained, Money
<1>7. QED
  BY <1>4, <1>5, <1>6 DEF PInv

(* and is invariant together with those of the pool.                       *)
LEMMA PacketInductive == ASSUME Program PROVE PacketSpec => []PInv
<1>1. PacketSpec => [](IInv /\ LifeInv /\ TaskInv)
  BY PacketUsesPool, Inductive, LifeInductive, TaskInductive, PTL
<1>2. IInv /\ LifeInv /\ TaskInv /\ PInv /\ [PacketNext]_programVars => PInv'
  BY Program, CountStep, MainInvStep, DrainedStep, MoneyStep
  DEF PInv, IInv, LifeInv, TaskInv
<1>3. QED
  BY <1>1, <1>2, PacketInvInit, PTL DEF PacketSpec

(* No assert of the programs fails when the pool can be created and its    *)
(* queue has room for all of their tasks (thrdtest.c:31, 44, 56,           *)
(* redpacket.c:69, 81, 93): no threadpool_add finds the queue full or the  *)
(* pool shut down, and the threadpool_destroy is the first.                *)
THEOREM NoAssertFails == ASSUME Program PROVE PacketSpec => []AssertsHold
<1>1. PInv => AssertsHold
  BY DEF PInv, MainInv, AssertsHold
<1>2. QED
  BY <1>1, PacketInductive, PTL

(* The immediate shutdown of these programs drops no task: main polls      *)
(* until all have been counted, and by then the queue is empty             *)
(* (thrdtest.c:51-56).                                                     *)
THEOREM NoTaskIsDropped == ASSUME Program PROVE PacketSpec => []NothingDropped
<1>1. IInv /\ PInv => NothingDropped
  <2> SUFFICES ASSUME IInv, PInv, shutdown # "no"
               PROVE  count = 0 /\ done = Len(accepted)
    BY DEF NothingDropped
  <2>1. main \in {"destroying", "end"}
    BY DEF PInv, MainInv
  <2>2. done = Len(accepted) /\ taken = done
    BY <2>1 DEF PInv, Drained
  <2>3. QED
    BY <2>2, PendingFact
<1>2. QED
  BY <1>1, PacketUsesPool, Inductive, PacketInductive, PTL

(* Nobody overdraws the packet or finds it empty, however many share it    *)
(* and whatever they draw (redpacket.c:43, 53-56).                         *)
THEOREM PacketNeverEmpty == ASSUME Program PROVE PacketSpec => []MoneyLeft
<1>1. PInv => MoneyLeft
  BY DEF PInv, Money, MoneyLeft
<1>2. QED
  BY <1>1, PacketInductive, PTL
=============================================================================
