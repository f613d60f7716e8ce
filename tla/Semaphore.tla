----------------------------- MODULE Semaphore ------------------------------
(***************************************************************************)
(* A System V semaphore set of one semaphore, as the programs under IPC/   *)
(* use it: sem_p and sem_v pass SEM_UNDO, init_sem is SETVAL and del_sem   *)
(* IPC_RMID.  The functions are the same in IPC/sema.c and IPC/share_mem;  *)
(* what the kernel does is modelled from how Linux defines those calls.    *)
(* Processes that wait are served in the order they came.                  *)
(***************************************************************************)
EXTENDS Integers, Sequences, SequencesExt

CONSTANTS
    Procs           \* the processes that use the semaphore

VARIABLES
    sem,            \* the id of the set that has the key, 0 if there is none
    value,          \* the value of its semaphore
    adj,            \* what the exit of each process will add to it
    sleepers        \* the processes waiting in sem_p

semVars == <<sem, value, adj, sleepers>>

None == [p \in Procs |-> 0]

SemStart == sem = 0 /\ value = 0 /\ adj = None /\ sleepers = <<>>

(* The value becomes v and the first in the queue q take what they can of  *)
(* it, each with an undo of its own; a holds the undos so far.             *)
Settle(v, a, q) ==
    LET n     == IF v < Len(q) THEN v ELSE Len(q)
        first == {q[i] : i \in 1..n}
    IN  /\ value' = v - n
        /\ sleepers' = SubSeq(q, n + 1, Len(q))
        /\ adj' = [p \in Procs |-> IF p \in first THEN a[p] + 1 ELSE a[p]]

(* semget with IPC_CREAT: the set there is, or one numbered id.            *)
CreateSem(id) ==
    IF sem # 0 THEN UNCHANGED semVars
    ELSE sem' = id /\ value' = 0 /\ adj' = None /\ sleepers' = <<>>

(* SETVAL forgets what the exits of processes would undo.                  *)
init_sem(v) == Settle(v, None, sleepers) /\ UNCHANGED sem

(* semop on the set id fails if that has been removed.  A process is past  *)
(* its sem_p once it is no longer among the sleepers.                      *)
noUndoP(p, id) ==                                                    \* a mutant
    IF id = sem
    THEN /\ value' = IF value > 0 THEN value - 1 ELSE 0
         /\ sleepers' = IF value > 0 THEN sleepers ELSE Append(sleepers, p)
         /\ UNCHANGED <<sem, adj>>
    ELSE UNCHANGED semVars
sem_p(p, id) ==
    IF id = sem THEN Settle(value, adj, Append(sleepers, p)) /\ UNCHANGED sem
    ELSE UNCHANGED semVars

Asleep(p) == p \in ToSet(sleepers)

noUndoV(p, id) ==                                                    \* a mutant
    IF id = sem THEN Settle(value + 1, adj, sleepers) /\ UNCHANGED sem
    ELSE UNCHANGED semVars
sem_v(p, id) ==
    IF id = sem
    THEN Settle(value + 1, [adj EXCEPT ![p] = @ - 1], sleepers) /\ UNCHANGED sem
    ELSE UNCHANGED semVars

(* The exit of p, or its death: what it has done is undone, as far as the  *)
(* value does not fall below 0.                                            *)
Undo(p) ==
    LET v == value + adj[p]
    IN  /\ Settle(IF v < 0 THEN 0 ELSE v, [adj EXCEPT ![p] = 0],
                  RemoveFirst(sleepers, p))
        /\ UNCHANGED sem

(* Those who wait are woken, their sem_p having failed.                    *)
del_sem(id) ==
    IF id = sem
    THEN sem' = 0 /\ value' = 0 /\ adj' = None /\ sleepers' = <<>>
    ELSE UNCHANGED semVars
=============================================================================
