------------------------------ MODULE PoolMain ------------------------------
(***************************************************************************)
(* The programs that use the pool, pthread_pool/thrdtest.c and redpacket.c:*)
(* main creates a pool, adds a fixed number of tasks, polls until all have *)
(* counted themselves as done and destroys the pool the immediate way, the *)
(* result of each call under an assert.  All it shares with its tasks is   *)
(* done, under a mutex of the program that nothing else is done under.     *)
(***************************************************************************)
EXTENDS ThreadPool

VARIABLES
    main,           \* where main is
    tasks, done,    \* the counters of main and of its tasks
    counted         \* the workers whose task has done its part

mainVars == <<main, tasks, done, counted>>
allVars  == <<vars, mainVars>>

MainInit == /\ Init
            /\ main = "creating"
            /\ tasks = 0 /\ done = 0 /\ counted = {}

(* The pool moves.  A task ends after dummy_task has counted it.           *)
PoolStep ==
    /\ \/ Create \/ Spawn \/ CountThread
       \/ AddStep(Main) \/ DestroyStep(Main)
       \/ \E w \in Workers : \/ pc[w] # "run" /\ WorkerStep(w)
                             \/ SpuriousWakeup(w)
    /\ UNCHANGED mainVars

TaskEnds(w) == /\ w \in counted
               /\ WorkerDone(w)
               /\ counted' = counted \ {w}
               /\ UNCHANGED <<main, tasks, done>>

dummy_task(w) ==
    /\ pc[w] = "run" /\ w \notin counted
    /\ done' = done + 1
    /\ counted' = counted \cup {w}
    /\ UNCHANGED <<vars, main, tasks>>

(* An assert passes, and main goes on at l, or the program aborts.         *)
Assert(b, l) == main' = IF b THEN l ELSE "aborted"

Created ==
    /\ main = "creating"
    /\ pc[Main] = "idle"
    /\ Assert(handle # "null", "adding")
    /\ UNCHANGED <<vars, tasks, done, counted>>

Add(t) ==
    /\ main = "adding"
    /\ AddCall(Main, t)
    /\ main' = "added"
    /\ UNCHANGED <<tasks, done, counted>>

Added ==
    /\ main = "added"
    /\ pc[Main] = "idle"
    /\ Assert(ret[Main] = "ok", "adding")
    /\ tasks' = IF ret[Main] = "ok" THEN tasks + 1 ELSE tasks
    /\ UNCHANGED <<vars, done, counted>>

(* The test main polls with.                                               *)
allStarted == done + 1 >= tasks                                 \* a mutant
AllDone    == done >= tasks

Destroy ==
    /\ main = "adding" /\ todo = {}
    /\ AllDone
    /\ DestroyCall(Main, "immediate")
    /\ main' = "destroying"
    /\ UNCHANGED <<tasks, done, counted>>

Destroyed ==
    /\ main = "destroying"
    /\ pc[Main] = "idle"
    /\ Assert(ret[Main] = "ok", "end")
    /\ UNCHANGED <<vars, tasks, done, counted>>

MainStep == \/ Created \/ Added \/ Destroy \/ Destroyed
            \/ \E t \in Tasks : Add(t)

-----------------------------------------------------------------------------
(* No assert of the program fails (thrdtest.c:31, 44, 56, redpacket.c:69,  *)
(* 81, 93).                                                                *)
AssertsHold == main # "aborted"

(* The pool is shut down the immediate way only when that drops no task:   *)
(* each has been counted, and so dequeued (thrdtest.c:51-56).              *)
NothingDropped ==
    shutdown # "no" => count = 0 /\ done = Len(accepted)
=============================================================================
