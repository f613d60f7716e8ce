------------------------------ MODULE ShareMem ------------------------------
(***************************************************************************)
(* IPC/share_mem: clients write a text into shared memory under a          *)
(* semaphore and tell the server, by a message, to print it.  The server   *)
(* creates the three objects and removes them when a client sends q; it    *)
(* may be started again.  An object is named by the run of the server that *)
(* created it, 0 for none.                                                 *)
(***************************************************************************)
EXTENDS Semaphore, FiniteSets

CONSTANTS
    Server, Clients,    \* the processes
    Runs,               \* bound on the starts of the server
    Updates,            \* bound on the texts written
    Depth,              \* messages the queue holds
    Mortal              \* the processes that may be killed

ASSUME ShareAssumption == /\ Procs = Clients \cup {Server} /\ Server \notin Clients
                          /\ Runs \in Nat /\ Updates \in Nat /\ Depth \in Nat \ {0}
                          /\ Mortal \subseteq Procs

VARIABLES
    pc,                 \* where each process is
    run,                \* how often the server has been started
    seg, que,           \* the memory and the queue that have the key
    ids,                \* the objects each process has opened
    text,               \* the number of the text in the memory seg
    msgs,               \* the queue que
    writes,             \* how many texts have been written
    shown,              \* the text the server printed last
    mute                \* has a client been killed that still had to tell it?

vars == <<semVars, pc, run, seg, que, ids, text, msgs, writes, shown, mute>>

Nothing == [seg |-> 0, que |-> 0, sem |-> 0]

Init == /\ SemStart
        /\ pc = [p \in Procs |-> "off"]
        /\ run = 0 /\ seg = 0 /\ que = 0
        /\ ids = [p \in Procs |-> Nothing]
        /\ text = 0 /\ msgs = <<>> /\ writes = 0 /\ shown = 0
        /\ mute = FALSE

Goto(p, l) == pc' = [pc EXCEPT ![p] = l]
Open(p, f, id) == ids' = [ids EXCEPT ![p][f] = id]

(* P, and the way past it: the result of sem_p is not looked at.           *)
Ask(p) ==
    /\ pc[p] = "ask"
    /\ sem_p(p, ids[p].sem)
    /\ Goto(p, "asked")
    /\ UNCHANGED <<run, seg, que, ids, text, msgs, writes, shown, mute>>

Enter(p) ==
    /\ pc[p] = "asked" /\ ~Asleep(p)
    /\ Goto(p, "inside")
    /\ UNCHANGED <<semVars, run, seg, que, ids, text, msgs, writes, shown, mute>>

Leave(p) ==
    /\ pc[p] = "leaving"
    /\ sem_v(p, ids[p].sem)
    /\ Goto(p, IF p = Server THEN "wait" ELSE "tell")
    /\ UNCHANGED <<run, seg, que, ids, text, msgs, writes, shown, mute>>

-----------------------------------------------------------------------------
Launch ==
    /\ pc[Server] = "off" /\ run < Runs
    /\ run' = run + 1 /\ shown' = 0
    /\ Goto(Server, "shm")
    /\ UNCHANGED <<semVars, seg, que, ids, text, msgs, writes, mute>>

ShmGet ==
    LET id == IF seg = 0 THEN run ELSE seg
    IN  /\ pc[Server] = "shm"
        /\ seg' = id /\ Open(Server, "seg", id)
        /\ text' = IF seg = 0 THEN 0 ELSE text
        /\ Goto(Server, "msg")
        /\ UNCHANGED <<semVars, run, que, msgs, writes, shown, mute>>

MsgGet ==
    LET id == IF que = 0 THEN run ELSE que
    IN  /\ pc[Server] = "msg"
        /\ que' = id /\ Open(Server, "que", id)
        /\ Goto(Server, "sem")
        /\ UNCHANGED <<semVars, run, seg, text, msgs, writes, shown, mute>>

creat_sem ==
    /\ pc[Server] = "sem"
    /\ CreateSem(run)
    /\ Open(Server, "sem", IF sem = 0 THEN run ELSE sem)
    /\ Goto(Server, "init")
    /\ UNCHANGED <<run, seg, que, text, msgs, writes, shown, mute>>

InitSem ==
    /\ pc[Server] = "init"
    /\ init_sem(1)
    /\ Goto(Server, "wait")
    /\ UNCHANGED <<run, seg, que, ids, text, msgs, writes, shown, mute>>

(* msgrcv of the first message; r makes the server read, q makes it end.   *)
semFirst ==                                                          \* a mutant
    /\ pc[Server] = "wait"
    /\ msgs # <<>>
    /\ msgs' = Tail(msgs)
    /\ Goto(Server, IF Head(msgs) = "q" THEN "rm_sem" ELSE "ask")
    /\ UNCHANGED <<semVars, run, seg, que, ids, text, writes, shown, mute>>
Receive ==
    /\ pc[Server] = "wait"
    /\ msgs # <<>>
    /\ msgs' = Tail(msgs)
    /\ Goto(Server, IF Head(msgs) = "q" THEN "rm_shm" ELSE "ask")
    /\ UNCHANGED <<semVars, run, seg, que, ids, text, writes, shown, mute>>

ReadText ==
    /\ pc[Server] = "inside"
    /\ shown' = text
    /\ Goto(Server, "leaving")
    /\ UNCHANGED <<semVars, run, seg, que, ids, text, msgs, writes, mute>>

RemoveShm ==
    /\ pc[Server] = "rm_shm"
    /\ seg' = 0 /\ text' = 0
    /\ Goto(Server, "rm_msg")
    /\ UNCHANGED <<semVars, run, que, ids, msgs, writes, shown, mute>>

RemoveMsg ==
    /\ pc[Server] = "rm_msg"
    /\ que' = 0 /\ msgs' = <<>>
    /\ Goto(Server, "rm_sem")
    /\ UNCHANGED <<semVars, run, seg, ids, text, writes, shown, mute>>

(* The last thing main does: there is nothing left to undo.                *)
RemoveSem ==
    /\ pc[Server] = "rm_sem"
    /\ del_sem(ids[Server].sem)
    /\ Goto(Server, "off") /\ ids' = [ids EXCEPT ![Server] = Nothing]
    /\ UNCHANGED <<run, seg, que, text, msgs, writes, shown, mute>>

-----------------------------------------------------------------------------
(* A client is started.  It ends if an object it opens is not there.       *)
Start(c) ==
    /\ pc[c] = "off"
    /\ seg # 0 /\ Open(c, "seg", seg)
    /\ Goto(c, "attach")
    /\ UNCHANGED <<semVars, run, seg, que, text, msgs, writes, shown, mute>>

(* shmat fails if the memory has been removed since and nobody uses it.    *)
(* The test for that is of a pointer that is less than 0, which none is:   *)
(* the client goes on with a bad one.                                      *)
Attach(c) ==
    LET used == \E d \in Clients : /\ pc[d] \notin {"off", "attach"}
                                   /\ ids[d].seg = ids[c].seg
    IN  /\ pc[c] = "attach"
        /\ Open(c, "seg", IF ids[c].seg = seg \/ used THEN ids[c].seg ELSE 0)
        /\ Goto(c, "msg")
        /\ UNCHANGED <<semVars, run, seg, que, text, msgs, writes, shown, mute>>

OpenMsg(c) ==
    /\ pc[c] = "msg"
    /\ IF que # 0 THEN Open(c, "que", que) /\ Goto(c, "sem")
       ELSE ids' = [ids EXCEPT ![c] = Nothing] /\ Goto(c, "off")
    /\ UNCHANGED <<semVars, run, seg, que, text, msgs, writes, shown, mute>>

OpenSem(c) ==
    /\ pc[c] = "sem"
    /\ IF sem # 0 THEN Open(c, "sem", sem) /\ Goto(c, "menu")
       ELSE ids' = [ids EXCEPT ![c] = Nothing] /\ Goto(c, "off")
    /\ UNCHANGED <<semVars, run, seg, que, text, msgs, writes, shown, mute>>

(* The user enters r or q.                                                 *)
Command(c) ==
    /\ pc[c] = "menu"
    /\ \/ writes < Updates /\ Goto(c, "ask")
       \/ Goto(c, "quit")
    /\ UNCHANGED <<semVars, run, seg, que, ids, text, msgs, writes, shown, mute>>

(* scanf into the memory, which may have been removed but for its users.   *)
Write(c) ==
    /\ pc[c] = "inside" /\ ids[c].seg # 0
    /\ writes' = writes + 1
    /\ text' = IF ids[c].seg = seg THEN writes + 1 ELSE text
    /\ Goto(c, "leaving")
    /\ UNCHANGED <<semVars, run, seg, que, ids, msgs, shown, mute>>

(* msgsnd waits for room; its failure is not looked at.                    *)
msgsnd(c, m) ==
    IF ids[c].que = que THEN Len(msgs) < Depth /\ msgs' = Append(msgs, m)
    ELSE UNCHANGED msgs

noTell(c) ==                                                         \* a mutant
    /\ pc[c] = "tell"
    /\ Goto(c, "menu")
    /\ UNCHANGED <<semVars, run, seg, que, ids, text, msgs, writes, shown, mute>>
Tell(c) ==
    /\ pc[c] = "tell"
    /\ msgsnd(c, "r")
    /\ Goto(c, "menu")
    /\ UNCHANGED <<semVars, run, seg, que, ids, text, writes, shown, mute>>

End(p) == /\ Undo(p)
          /\ Goto(p, "off") /\ ids' = [ids EXCEPT ![p] = Nothing]

Quit(c) ==
    /\ pc[c] = "quit"
    /\ msgsnd(c, "q")
    /\ End(c)
    /\ UNCHANGED <<run, seg, que, text, writes, shown, mute>>

Dies(p) ==
    /\ pc[p] # "off"
    /\ End(p)
    /\ mute' = (mute \/ (p # Server /\ pc[p] \in {"leaving", "tell"}))
    /\ UNCHANGED <<run, seg, que, text, msgs, writes, shown>>

(* scanf to where no memory is attached.                                   *)
Crash(c) == pc[c] = "inside" /\ ids[c].seg = 0 /\ Dies(c)

Kill(p) == p \in Mortal /\ Dies(p)

-----------------------------------------------------------------------------
ServerStep == \/ ShmGet \/ MsgGet \/ creat_sem \/ InitSem
              \/ Receive \/ Ask(Server) \/ Enter(Server) \/ ReadText \/ Leave(Server)
              \/ RemoveShm \/ RemoveMsg \/ RemoveSem

(* What a client does once it is started or has a command; Write and Crash *)
(* also need their user.                                                   *)
Proceed(c) == \/ Attach(c) \/ OpenMsg(c) \/ OpenSem(c) \/ Crash(c)
              \/ Ask(c) \/ Enter(c) \/ Write(c) \/ Leave(c) \/ Tell(c) \/ Quit(c)

Next == \/ Launch \/ ServerStep
        \/ \E c \in Clients : Start(c) \/ Command(c) \/ Proceed(c)
        \/ \E p \in Procs : Kill(p)

(* Processes are scheduled, and a user who was asked for a text types one. *)
Fairness == /\ WF_vars(ServerStep)
            /\ \A c \in Clients : WF_vars(Proceed(c))

Spec == Init /\ [][Next]_vars /\ Fairness

-----------------------------------------------------------------------------
(* Who has the semaphore that exists, by its sem_p.                        *)
Holders == {p \in Procs : /\ \/ pc[p] \in {"inside", "leaving"}
                             \/ pc[p] = "asked" /\ ~Asleep(p)
                          /\ ids[p].sem = sem /\ sem # 0}

(* The semaphore has the value 1 when nobody has it, else 0 and one        *)
(* process has it, though clients are killed with it and the server is     *)
(* started again (shamem.c:63-65, 81-83).                                  *)
OneHolder ==
    pc[Server] \notin {"off", "shm", "msg", "sem", "init"}
        => value + Cardinality(Holders) = (IF sem = 0 THEN 0 ELSE 1)

(* One at a time is in the shared memory as long as it is not removed,     *)
(* though clients ignore the failure of sem_p and the server removes the   *)
(* semaphore under them (shamem.c:191-193, shamem_client.c:30-31, 125).    *)
Exclusive ==
    \A p, q \in Procs :
        (/\ pc[p] = "inside" /\ pc[q] = "inside"
         /\ seg # 0 /\ ids[p].seg = seg /\ ids[q].seg = seg) => p = q

(* When the server has read its messages and no client is about to send    *)
(* one, what it printed last is what the memory holds: though texts may be *)
(* overwritten unread, the last one is not missed, unless its writer was   *)
(* killed (shamem.c:133).                                                  *)
LastTextShown ==
    (/\ pc[Server] = "wait" /\ msgs = <<>>
     /\ \A c \in Clients : pc[c] \notin {"leaving", "tell"}
     /\ ~mute) => shown = text

(* Whoever asks for the semaphore gets it, or its failure, though others   *)
(* are killed with it (shamem.c:71, 82-83).                                *)
Granted == \A p \in Procs : pc[p] = "asked" ~> pc[p] # "asked"
=============================================================================
