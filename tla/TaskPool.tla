------------------------------ MODULE TaskPool ------------------------------
(***************************************************************************)
(* What a thread pool promises (the comments of threadpool.h:135-175),     *)
(* without threads, mutexes or buffers: tasks are accepted while the pool  *)
(* is open and not full, started in the order they were accepted, at most  *)
(* Servers at a time, and each is completed once.  After a graceful        *)
(* shutdown all pending tasks are still processed; after an immediate one  *)
(* those not yet started are dropped.  The pool closes when no task runs.  *)
(***************************************************************************)
EXTENDS Integers, Sequences, FiniteSets

CONSTANTS Tasks, Capacity, Servers

VARIABLES
    accepted,       \* the tasks accepted so far, in order
    taken,          \* how many of them were started
    running,        \* the started tasks that have not ended
    completed,      \* the tasks that have ended
    mode            \* "open", "graceful", "immediate" or "closed"

vars == <<accepted, taken, running, completed, mode>>

Init == /\ accepted = <<>> /\ taken = 0
        /\ running = {} /\ completed = {}
        /\ mode = "open"

Submit(t) ==
    /\ mode = "open"
    /\ Len(accepted) - taken < Capacity
    /\ \A i \in DOMAIN accepted : accepted[i] # t
    /\ accepted' = Append(accepted, t)
    /\ UNCHANGED <<taken, running, completed, mode>>

(* After an immediate shutdown the pending tasks are not started any more. *)
Start ==
    /\ mode \in {"open", "graceful"}
    /\ taken < Len(accepted)
    /\ Cardinality(running) < Servers
    /\ taken' = taken + 1
    /\ running' = running \cup {accepted[taken + 1]}
    /\ UNCHANGED <<accepted, completed, mode>>

Finish(t) ==
    /\ t \in running \ completed
    /\ running' = running \ {t}
    /\ completed' = completed \cup {t}
    /\ UNCHANGED <<accepted, taken, mode>>

ShutDown(m) ==
    /\ mode = "open"
    /\ mode' = m
    /\ UNCHANGED <<accepted, taken, running, completed>>

(* A pool that could not be created closes without having been shut down.  *)
Close ==
    /\ \/ mode = "open" /\ accepted = <<>>
       \/ mode = "graceful" /\ taken = Len(accepted)
       \/ mode = "immediate"
    /\ running = {}
    /\ mode' = "closed"
    /\ UNCHANGED <<accepted, taken, running, completed>>

Next ==
    \/ \E t \in Tasks : Submit(t) \/ Finish(t)
    \/ Start
    \/ \E m \in {"graceful", "immediate"} : ShutDown(m)
    \/ Close

Spec == Init /\ [][Next]_vars
=============================================================================
