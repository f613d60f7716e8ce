--------------------------- MODULE ShareMemProofs ---------------------------
(***************************************************************************)
(* Proofs about ShareMem, for any number of clients, runs of the server    *)
(* and texts, as long as the server is not killed; clients may be.         *)
(*                                                                         *)
(* Objects and Opened say of which run the objects are that exist and that *)
(* a process has opened.  From them Lock is inductive, which says that the *)
(* semaphore is binary and that SEM_UNDO accounts for its holder, and from *)
(* Lock follows that a text is not written while a server starts, which    *)
(* makes Fresh inductive.                                                  *)
(***************************************************************************)
EXTENDS ShareMem, SequenceTheorems, FiniteSetTheorems, TLAPS

(* Where the server and a client can be; Early is the server without a     *)
(* semaphore, Ready the server that has set it.                            *)
ServerPlaces == {"off", "shm", "msg", "sem", "init", "wait", "ask", "asked",
                 "inside", "leaving", "rm_shm", "rm_msg", "rm_sem"}
ClientPlaces == {"off", "attach", "msg", "sem", "menu", "ask", "asked",
                 "inside", "leaving", "tell", "quit"}
Early == {"off", "shm", "msg", "sem"}
Ready == pc[Server] \notin Early \cup {"init"}

(* What kind of value each variable has.                                   *)
Types ==
    /\ DOMAIN pc = Procs
    /\ \A c \in Clients : pc[c] \in ClientPlaces
    /\ pc[Server] \in ServerPlaces
    /\ run \in Nat /\ (pc[Server] # "off" => run > 0)
    /\ ids \in [Procs -> [seg : Nat, que : Nat, sem : Nat]]

(* The queue holds requests to read and to quit.                           *)
Letters == msgs \in Seq({"r", "q"})

(* The server that runs creates its objects in this order and removes them *)
(* in the same: an object that exists is of this run.                      *)
Objects ==
    /\ seg = IF pc[Server] \in {"off", "shm", "rm_msg", "rm_sem"} THEN 0 ELSE run
    /\ que = IF pc[Server] \in {"off", "shm", "msg", "rm_sem"} THEN 0 ELSE run
    /\ sem = IF pc[Server] \in Early THEN 0 ELSE run

(* The server works with the objects of its own run.                       *)
ServerHas ==
    /\ Ready \/ pc[Server] = "init" => ids[Server].sem = run /\ ids[Server].seg = run
    /\ pc[Server] \in {"msg", "sem"} => ids[Server].seg = run

(* A client opens the memory, the queue and the semaphore in this order,   *)
(* so each is of a run not before that of the one opened earlier, and of a *)
(* former run as long as this one has not created its own.  Only the       *)
(* memory can be 0: the client goes on when it could not attach it.        *)
ClientHas(c) ==
    /\ pc[c] # "off" =>
          /\ ids[c].seg <= run
          /\ pc[Server] = "shm" => ids[c].seg < run
    /\ pc[c] \notin {"off", "attach", "msg"} =>
          /\ ids[c].seg <= ids[c].que /\ 1 <= ids[c].que /\ ids[c].que <= run
          /\ pc[Server] \in {"shm", "msg"} => ids[c].que < run
    /\ pc[c] \notin {"off", "attach", "msg", "sem"} =>
          /\ ids[c].que <= ids[c].sem /\ ids[c].sem <= run
          /\ pc[Server] \in {"shm", "msg", "sem"} => ids[c].sem < run

Opened == ServerHas /\ \A c \in Clients : ClientHas(c)

-----------------------------------------------------------------------------
(* The processes are the clients and the server.                           *)
LEMMA ProcsFact == Procs = Clients \cup {Server} /\ Server \notin Clients
BY ShareAssumption

(* A server that runs is of a numbered run.                                *)
LEMMA RunFact == Types => run \in Nat /\ (pc[Server] # "off" => 1 <= run)
<1>. SUFFICES ASSUME Types PROVE run \in Nat /\ (pc[Server] # "off" => 1 <= run)
  OBVIOUS
<1>1. run \in Nat /\ (pc[Server] # "off" => run > 0)
  BY DEF Types
<1>2. QED
  BY <1>1

(* The steps there are when the server is not killed.                      *)
LEMMA NextCases ==
    ASSUME Server \notin Mortal, [Next]_vars
    PROVE  \/ UNCHANGED vars
           \/ Launch \/ ShmGet \/ MsgGet \/ creat_sem \/ InitSem \/ Receive
           \/ ReadText \/ RemoveShm \/ RemoveMsg \/ RemoveSem
           \/ \E p \in Procs : Ask(p) \/ Enter(p) \/ Leave(p)
           \/ \E c \in Clients : \/ Start(c) \/ Attach(c) \/ OpenMsg(c) \/ OpenSem(c)
                                 \/ Command(c) \/ Write(c) \/ Tell(c)
                                 \/ Quit(c) \/ Dies(c)
BY ShareAssumption DEF Next, ServerStep, Proceed, Kill, Crash

(* Opening an object changes one entry of the process.                     *)
LEMMA Opens ==
    ASSUME Types, NEW p \in Procs, NEW f \in {"seg", "que", "sem"}, NEW id \in Nat,
           Open(p, f, id)
    PROVE  /\ ids' \in [Procs -> [seg : Nat, que : Nat, sem : Nat]]
           /\ \A q \in Procs : q # p => ids'[q] = ids[q]
           /\ ids'[p].seg = IF f = "seg" THEN id ELSE ids[p].seg
           /\ ids'[p].que = IF f = "que" THEN id ELSE ids[p].que
           /\ ids'[p].sem = IF f = "sem" THEN id ELSE ids[p].sem
<1>1. ids[p] \in [seg : Nat, que : Nat, sem : Nat]
  BY DEF Types
<1>2. ids' = [ids EXCEPT ![p] = [ids[p] EXCEPT ![f] = id]]
  BY DEF Open
<1>3. CASE f = "seg"
  BY <1>1, <1>2, <1>3 DEF Types
<1>4. CASE f = "que"
  BY <1>1, <1>2, <1>4 DEF Types
<1>5. CASE f = "sem"
  BY <1>1, <1>2, <1>5 DEF Types
<1>6. QED
  BY <1>3, <1>4, <1>5

(* A client keeps its number for the memory, or gets none.                 *)
LEMMA AttachOpens ==
    ASSUME Types, NEW c \in Clients, Attach(c)
    PROVE  /\ ids' \in [Procs -> [seg : Nat, que : Nat, sem : Nat]]
           /\ \A q \in Procs : q # c => ids'[q] = ids[q] /\ pc'[q] = pc[q]
           /\ ids'[c].seg \in {0, ids[c].seg}
           /\ pc'[c] = "msg"
<1>1. c \in Procs
  BY ProcsFact
<1>2. PICK id \in {0, ids[c].seg} : Open(c, "seg", id)
  BY DEF Attach
<1>3. id \in Nat
  BY <1>1 DEF Types
<1>4. pc' = [pc EXCEPT ![c] = "msg"]
  BY DEF Attach, Goto
<1>5. QED
  BY <1>1, <1>2, <1>3, <1>4, Opens DEF Types

(* A process that ends has opened nothing.                                 *)
LEMMA Forgets ==
    ASSUME Types, NEW p \in Procs, ids' = [ids EXCEPT ![p] = Nothing]
    PROVE  /\ ids' \in [Procs -> [seg : Nat, que : Nat, sem : Nat]]
           /\ \A q \in Procs : q # p => ids'[q] = ids[q]
BY DEF Types, Nothing

(* Every step keeps the types.                                             *)
LEMMA TypesStep ==
    ASSUME Server \notin Mortal
    PROVE  Types /\ Objects /\ [Next]_vars => Types'
<1>. SUFFICES ASSUME Types, Objects, [Next]_vars PROVE Types'
  OBVIOUS
<1>. USE ProcsFact DEF Goto, Types, Objects, ServerPlaces, ClientPlaces, Early
<1>1. CASE UNCHANGED vars
  BY <1>1 DEF vars, semVars
<1>2. CASE Launch
  BY <1>2 DEF Launch
<1>3. CASE ShmGet
  BY <1>3, Opens DEF ShmGet
<1>4. CASE MsgGet
  BY <1>4, Opens DEF MsgGet
<1>5. CASE creat_sem
  BY <1>5, Opens DEF creat_sem, CreateSem
<1>6. CASE InitSem
  BY <1>6 DEF InitSem
<1>7. CASE Receive
  BY <1>7 DEF Receive
<1>8. CASE ReadText
  BY <1>8 DEF ReadText
<1>9. CASE RemoveShm
  BY <1>9 DEF RemoveShm
<1>10. CASE RemoveMsg
  BY <1>10 DEF RemoveMsg
<1>11. CASE RemoveSem
  BY <1>11, Forgets DEF RemoveSem
<1>12. ASSUME NEW p \in Procs, Ask(p) PROVE Types'
  BY <1>12 DEF Ask
<1>13. ASSUME NEW p \in Procs, Enter(p) PROVE Types'
  BY <1>13 DEF Enter
<1>14. ASSUME NEW p \in Procs, Leave(p) PROVE Types'
  BY <1>14 DEF Leave
<1>15. ASSUME NEW c \in Clients, Start(c) PROVE Types'
  BY <1>15, Opens DEF Start
<1>16. ASSUME NEW c \in Clients, OpenMsg(c) PROVE Types'
  BY <1>16, Opens, Forgets DEF OpenMsg
<1>17. ASSUME NEW c \in Clients, OpenSem(c) PROVE Types'
  BY <1>17, Opens, Forgets DEF OpenSem
<1>18. ASSUME NEW c \in Clients, Command(c) PROVE Types'
  BY <1>18 DEF Command
<1>19. ASSUME NEW c \in Clients, Write(c) PROVE Types'
  BY <1>19 DEF Write
<1>20. ASSUME NEW c \in Clients, Tell(c) PROVE Types'
  BY <1>20 DEF Tell, msgsnd
<1>21. ASSUME NEW c \in Clients, Quit(c) PROVE Types'
  BY <1>21, Forgets DEF Quit, msgsnd, End
<1>22. ASSUME NEW c \in Clients, Dies(c) PROVE Types'
  BY <1>22, Forgets DEF Dies, End
<1>23. ASSUME NEW c \in Clients, Attach(c) PROVE Types'
  BY <1>23, AttachOpens DEF Attach
<1>24. QED
  BY <1>1, <1>2, <1>3, <1>4, <1>5, <1>6, <1>7, <1>8, <1>9, <1>10, <1>11, <1>12,
     <1>13, <1>14, <1>15, <1>16, <1>17, <1>18, <1>19, <1>20, <1>21, <1>22,
     <1>23, NextCases

(* Every step keeps Objects.                                               *)
LEMMA ObjectsStep ==
    ASSUME Server \notin Mortal
    PROVE  Types /\ Objects /\ Opened /\ [Next]_vars => Objects'
<1>. SUFFICES ASSUME Types, Objects, Opened, [Next]_vars PROVE Objects'
  OBVIOUS
<1>. USE ProcsFact DEF Goto, Types, Objects, Opened, ServerHas, ClientHas,
         ServerPlaces, ClientPlaces, Early, Ready
<1>1. CASE UNCHANGED vars
  BY <1>1 DEF vars, semVars
<1>2. CASE Launch
  BY <1>2 DEF Launch, semVars
<1>3. CASE ShmGet
  BY <1>3, Opens DEF ShmGet, semVars
<1>4. CASE MsgGet
  BY <1>4, Opens DEF MsgGet, semVars
<1>5. CASE creat_sem
  BY <1>5, Opens DEF creat_sem, CreateSem, semVars
<1>6. CASE InitSem
  BY <1>6 DEF InitSem, semVars, init_sem
<1>7. CASE Receive
  BY <1>7 DEF Receive, semVars
<1>8. CASE ReadText
  BY <1>8 DEF ReadText, semVars
<1>9. CASE RemoveShm
  BY <1>9 DEF RemoveShm, semVars
<1>10. CASE RemoveMsg
  BY <1>10 DEF RemoveMsg, semVars
<1>11. CASE RemoveSem
  BY <1>11, Forgets DEF RemoveSem, semVars, del_sem
<1>12. ASSUME NEW p \in Procs, Ask(p) PROVE Objects'
  BY <1>12 DEF Ask, semVars, sem_p
<1>13. ASSUME NEW p \in Procs, Enter(p) PROVE Objects'
  BY <1>13 DEF Enter, semVars
<1>14. ASSUME NEW p \in Procs, Leave(p) PROVE Objects'
  BY <1>14 DEF Leave, semVars, sem_v
<1>15. ASSUME NEW c \in Clients, Start(c) PROVE Objects'
  BY <1>15, Opens DEF Start, semVars
<1>16. ASSUME NEW c \in Clients, OpenMsg(c) PROVE Objects'
  BY <1>16, Opens, Forgets DEF OpenMsg, semVars
<1>17. ASSUME NEW c \in Clients, OpenSem(c) PROVE Objects'
  BY <1>17, Opens, Forgets DEF OpenSem, semVars
<1>18. ASSUME NEW c \in Clients, Command(c) PROVE Objects'
  BY <1>18 DEF Command, semVars
<1>19. ASSUME NEW c \in Clients, Write(c) PROVE Objects'
  BY <1>19 DEF Write, semVars
<1>20. ASSUME NEW c \in Clients, Tell(c) PROVE Objects'
  BY <1>20 DEF Tell, msgsnd, semVars
<1>21. ASSUME NEW c \in Clients, Quit(c) PROVE Objects'
  BY <1>21, Forgets DEF Quit, msgsnd, End, semVars, Undo
<1>22. ASSUME NEW c \in Clients, Dies(c) PROVE Objects'
  BY <1>22, Forgets DEF Dies, End, semVars, Undo
<1>23. ASSUME NEW c \in Clients, Attach(c) PROVE Objects'
  BY <1>23, AttachOpens DEF Attach, semVars
<1>24. QED
  BY <1>1, <1>2, <1>3, <1>4, <1>5, <1>6, <1>7, <1>8, <1>9, <1>10, <1>11, <1>12,
     <1>13, <1>14, <1>15, <1>16, <1>17, <1>18, <1>19, <1>20, <1>21, <1>22,
     <1>23, NextCases

(* Every step keeps Opened: what a client opens is of this run, and the    *)
(* run number grows only when no object exists.                            *)
LEMMA OpenedStep ==
    ASSUME Server \notin Mortal
    PROVE  Types /\ Objects /\ Opened /\ [Next]_vars => Opened'
<1>. SUFFICES ASSUME Types, Objects, Opened, [Next]_vars PROVE Opened'
  OBVIOUS
<1>. USE ProcsFact DEF Goto, Types, Objects, Opened, ServerHas, ClientHas,
         ServerPlaces, ClientPlaces, Early, Ready
<1>1. CASE UNCHANGED vars
  BY <1>1 DEF vars, semVars
<1>2. CASE Launch
  BY <1>2 DEF Launch
<1>3. CASE ShmGet
  BY <1>3, Opens DEF ShmGet
<1>4. CASE MsgGet
  BY <1>4, Opens DEF MsgGet
<1>5. CASE creat_sem
  BY <1>5, Opens DEF creat_sem, CreateSem
<1>6. CASE InitSem
  BY <1>6 DEF InitSem
<1>7. CASE Receive
  BY <1>7 DEF Receive
<1>8. CASE ReadText
  BY <1>8 DEF ReadText
<1>9. CASE RemoveShm
  BY <1>9 DEF RemoveShm
<1>10. CASE RemoveMsg
  BY <1>10 DEF RemoveMsg
<1>11. CASE RemoveSem
  BY <1>11, Forgets DEF RemoveSem
<1>12. ASSUME NEW p \in Procs, Ask(p) PROVE Opened'
  BY <1>12 DEF Ask
<1>13. ASSUME NEW p \in Procs, Enter(p) PROVE Opened'
  BY <1>13 DEF Enter
<1>14. ASSUME NEW p \in Procs, Leave(p) PROVE Opened'
  BY <1>14 DEF Leave
<1>15. ASSUME NEW c \in Clients, Start(c) PROVE Opened'
  <2>1. /\ ids'[c].seg = seg
        /\ \A q \in Procs : q # c => ids'[q] = ids[q]
        /\ pc[c] = "off" /\ seg # 0 /\ run' = run /\ pc'[c] = "attach"
        /\ \A q \in Procs : q # c => pc'[q] = pc[q]
    <3>1. seg \in Nat
      BY RunFact DEF Objects
    <3>2. QED
      BY <1>15, <3>1, Opens DEF Start, Goto, Types
  <2>3. pc[Server] \notin {"off", "shm", "rm_msg", "rm_sem"} /\ seg = run
    BY <2>1 DEF Objects
  <2>4. run \in Nat /\ 1 <= run
    BY <2>3, RunFact
  <2>6. /\ ids'[Server] = ids[Server] /\ pc'[Server] = pc[Server] /\ run' = run
        /\ \A d \in Clients \ {c} : ids'[d] = ids[d] /\ pc'[d] = pc[d]
    BY <2>1
  <2>5. ids'[c].seg = run /\ run' = run /\ pc'[c] = "attach" /\ pc'[Server] # "shm"
    <3>1. ids'[c].seg = run
      BY <2>1, <2>3
    <3>2. pc'[Server] = pc[Server]
      BY <2>6
    <3>3. QED
      BY <2>1, <2>3, <3>1, <3>2
  <2>7. ClientHas(c)'
    BY <2>4, <2>5 DEF ClientHas
  <2>8. ServerHas'
    BY <2>6 DEF Opened, ServerHas, Ready
  <2>9. \A d \in Clients \ {c} : ClientHas(d)'
    BY <2>6 DEF Opened, ClientHas
  <2>10. QED
    BY <2>7, <2>8, <2>9 DEF Opened
<1>16. ASSUME NEW c \in Clients, OpenMsg(c) PROVE Opened'
  <2>1. CASE que # 0 /\ Open(c, "que", que) /\ Goto(c, "sem")
    <3>1. que \in Nat
      BY RunFact DEF Objects
    <3>2. /\ ids'[c].que = que /\ ids'[c].seg = ids[c].seg /\ ids'[c].seg = ids[c].seg
          /\ \A q \in Procs : q # c => ids'[q] = ids[q]
      BY <2>1, <3>1, Opens
    <3>3. /\ pc[c] = "msg" /\ run' = run /\ pc'[c] = "sem"
          /\ \A q \in Procs : q # c => pc'[q] = pc[q]
      BY <1>16, <2>1 DEF OpenMsg, Goto, Types
    <3>4. pc[Server] \notin {"shm", "msg"} /\ que = run /\ run \in Nat /\ 1 <= run
      BY <2>1, RunFact DEF Objects, Early
    <3>5. ids[c].seg <= run /\ ClientHas(c)
      BY <3>3 DEF Opened, ClientHas
    <3>6. /\ ids'[Server] = ids[Server] /\ pc'[Server] = pc[Server] /\ run' = run
          /\ \A d \in Clients \ {c} : ids'[d] = ids[d] /\ pc'[d] = pc[d]
      BY <3>2, <3>3
    <3>7. ClientHas(c)'
      BY <3>2, <3>3, <3>4, <3>5, <3>6 DEF ClientHas
    <3>8. ServerHas'
      BY <3>6 DEF Opened, ServerHas, Ready
    <3>9. \A d \in Clients \ {c} : ClientHas(d)'
      BY <3>6 DEF Opened, ClientHas
    <3>10. QED
      BY <3>7, <3>8, <3>9 DEF Opened
  <2>2. CASE ids' = [ids EXCEPT ![c] = Nothing] /\ Goto(c, "off")
    BY <1>16, <2>2, Forgets DEF OpenMsg, Goto, Types, Objects, Opened, ServerHas,
       ClientHas, ServerPlaces, Early, Ready
  <2>3. QED
    BY <1>16, <2>1, <2>2 DEF OpenMsg
<1>17. ASSUME NEW c \in Clients, OpenSem(c) PROVE Opened'
  <2>1. CASE sem # 0 /\ Open(c, "sem", sem) /\ Goto(c, "menu")
    <3>1. sem \in Nat
      BY RunFact DEF Objects
    <3>2. /\ ids'[c].sem = sem /\ ids'[c].que = ids[c].que /\ ids'[c].seg = ids[c].seg
          /\ \A q \in Procs : q # c => ids'[q] = ids[q]
      BY <2>1, <3>1, Opens
    <3>3. /\ pc[c] = "sem" /\ run' = run /\ pc'[c] = "menu"
          /\ \A q \in Procs : q # c => pc'[q] = pc[q]
      BY <1>17, <2>1 DEF OpenSem, Goto, Types
    <3>4. pc[Server] \notin {"shm", "msg", "sem"} /\ sem = run /\ run \in Nat
      BY <2>1, RunFact DEF Objects, Early
    <3>5. ids[c].que <= run /\ ClientHas(c)
      BY <3>3 DEF Opened, ClientHas
    <3>6. /\ ids'[Server] = ids[Server] /\ pc'[Server] = pc[Server] /\ run' = run
          /\ \A d \in Clients \ {c} : ids'[d] = ids[d] /\ pc'[d] = pc[d]
      BY <3>2, <3>3
    <3>7. ClientHas(c)'
      BY <3>2, <3>3, <3>4, <3>5, <3>6 DEF ClientHas
    <3>8. ServerHas'
      BY <3>6 DEF Opened, ServerHas, Ready
    <3>9. \A d \in Clients \ {c} : ClientHas(d)'
      BY <3>6 DEF Opened, ClientHas
    <3>10. QED
      BY <3>7, <3>8, <3>9 DEF Opened
  <2>2. CASE ids' = [ids EXCEPT ![c] = Nothing] /\ Goto(c, "off")
    BY <1>17, <2>2, Forgets DEF OpenSem, Goto, Types, Objects, Opened, ServerHas,
       ClientHas, ServerPlaces, Early, Ready
  <2>3. QED
    BY <1>17, <2>1, <2>2 DEF OpenSem
<1>18. ASSUME NEW c \in Clients, Command(c) PROVE Opened'
  BY <1>18 DEF Command
<1>19. ASSUME NEW c \in Clients, Write(c) PROVE Opened'
  BY <1>19 DEF Write
<1>20. ASSUME NEW c \in Clients, Tell(c) PROVE Opened'
  BY <1>20 DEF Tell, msgsnd
<1>21. ASSUME NEW c \in Clients, Quit(c) PROVE Opened'
  BY <1>21, Forgets DEF Quit, msgsnd, End
<1>22. ASSUME NEW c \in Clients, Dies(c) PROVE Opened'
  BY <1>22, Forgets DEF Dies, End
<1>23. ASSUME NEW c \in Clients, Attach(c) PROVE Opened'
  <2>1. /\ ids'[c].seg \in {0, ids[c].seg} /\ run' = run
        /\ pc[c] = "attach" /\ pc'[c] = "msg"
        /\ \A q \in Procs : q # c => ids'[q] = ids[q] /\ pc'[q] = pc[q]
    BY <1>23, AttachOpens DEF Attach
  <2>2. /\ ids[c].seg \in Nat /\ ids[c].seg <= run /\ run \in Nat
        /\ pc[Server] = "shm" => ids[c].seg < run
    BY <2>1 DEF Types, Opened, ClientHas
  <2>3. /\ ids'[Server] = ids[Server] /\ pc'[Server] = pc[Server] /\ run' = run
        /\ \A d \in Clients \ {c} : ids'[d] = ids[d] /\ pc'[d] = pc[d]
    BY <2>1
  <2>4. pc[Server] = "shm" => 1 <= run
    BY RunFact
  <2>5. ClientHas(c)'
    BY <2>1, <2>2, <2>3, <2>4 DEF ClientHas
  <2>6. ServerHas'
    BY <2>3 DEF Opened, ServerHas, Ready
  <2>7. \A d \in Clients \ {c} : ClientHas(d)'
    BY <2>3 DEF Opened, ClientHas
  <2>8. QED
    BY <2>5, <2>6, <2>7 DEF Opened
<1>24. QED
  BY <1>1, <1>2, <1>3, <1>4, <1>5, <1>6, <1>7, <1>8, <1>9, <1>10, <1>11, <1>12,
     <1>13, <1>14, <1>15, <1>16, <1>17, <1>18, <1>19, <1>20, <1>21, <1>22,
     <1>23, NextCases

(* Every step keeps Letters.                                               *)
LEMMA LettersStep ==
    ASSUME Server \notin Mortal
    PROVE  Letters /\ [Next]_vars => Letters'
<1>. SUFFICES ASSUME Letters, [Next]_vars PROVE Letters'
  OBVIOUS
<1>. USE ProcsFact
<1>1. CASE UNCHANGED vars
  BY <1>1 DEF vars, semVars, Letters
<1>2. CASE Launch
  BY <1>2 DEF Launch, Goto, Letters
<1>3. CASE ShmGet
  BY <1>3 DEF ShmGet, Goto, Letters
<1>4. CASE MsgGet
  BY <1>4 DEF MsgGet, Goto, Letters
<1>5. CASE creat_sem
  BY <1>5 DEF creat_sem, CreateSem, Goto, Letters
<1>6. CASE InitSem
  BY <1>6 DEF InitSem, Goto, Letters
<1>7. CASE Receive
  BY <1>7, HeadTailProperties DEF Receive, Letters
<1>8. CASE ReadText
  BY <1>8 DEF ReadText, Goto, Letters
<1>9. CASE RemoveShm
  BY <1>9 DEF RemoveShm, Goto, Letters
<1>10. CASE RemoveMsg
  BY <1>10, EmptySeq DEF RemoveMsg, Letters
<1>11. CASE RemoveSem
  BY <1>11 DEF RemoveSem, Goto, Letters
<1>12. ASSUME NEW p \in Procs, Ask(p) PROVE Letters'
  BY <1>12 DEF Ask, Goto, Letters
<1>13. ASSUME NEW p \in Procs, Enter(p) PROVE Letters'
  BY <1>13 DEF Enter, Goto, Letters
<1>14. ASSUME NEW p \in Procs, Leave(p) PROVE Letters'
  BY <1>14 DEF Leave, Goto, Letters
<1>15. ASSUME NEW c \in Clients, Start(c) PROVE Letters'
  BY <1>15 DEF Start, Goto, Letters
<1>16. ASSUME NEW c \in Clients, OpenMsg(c) PROVE Letters'
  BY <1>16 DEF OpenMsg, Goto, Letters
<1>17. ASSUME NEW c \in Clients, OpenSem(c) PROVE Letters'
  BY <1>17 DEF OpenSem, Goto, Letters
<1>18. ASSUME NEW c \in Clients, Command(c) PROVE Letters'
  BY <1>18 DEF Command, Goto, Letters
<1>19. ASSUME NEW c \in Clients, Write(c) PROVE Letters'
  BY <1>19 DEF Write, Goto, Letters
<1>20. ASSUME NEW c \in Clients, Tell(c) PROVE Letters'
  <2>1. \A m \in {"r", "q"} : Append(msgs, m) \in Seq({"r", "q"})
    BY AppendProperties DEF Letters
  <2>2. QED
    BY <1>20, <2>1 DEF Tell, msgsnd, Letters
<1>21. ASSUME NEW c \in Clients, Quit(c) PROVE Letters'
  <2>1. \A m \in {"r", "q"} : Append(msgs, m) \in Seq({"r", "q"})
    BY AppendProperties DEF Letters
  <2>2. QED
    BY <1>21, <2>1 DEF Quit, msgsnd, Letters
<1>22. ASSUME NEW c \in Clients, Dies(c) PROVE Letters'
  BY <1>22 DEF Dies, End, Goto, Letters
<1>23. ASSUME NEW c \in Clients, Attach(c) PROVE Letters'
  BY <1>23 DEF Attach, Goto, Letters
<1>24. QED
  BY <1>1, <1>2, <1>3, <1>4, <1>5, <1>6, <1>7, <1>8, <1>9, <1>10, <1>11, <1>12,
     <1>13, <1>14, <1>15, <1>16, <1>17, <1>18, <1>19, <1>20, <1>21, <1>22,
     <1>23, NextCases

-----------------------------------------------------------------------------
(* Nobody is in the sequence s twice.                                      *)
Distinct(s) == \A i, j \in 1..Len(s) : s[i] = s[j] => i = j

(* The sequence without its entry k, when it has no repetitions.           *)
LEMMA RemoveAtProperties ==
    ASSUME NEW S, NEW s \in Seq(S), NEW k \in 1..Len(s), Distinct(s)
    PROVE  /\ RemoveAt(s, k) \in Seq(S)
           /\ Distinct(RemoveAt(s, k))
           /\ ToSet(RemoveAt(s, k)) = ToSet(s) \ {s[k]}
<1>. DEFINE a == SubSeq(s, 1, k - 1)
           b == SubSeq(s, k + 1, Len(s))
           r == RemoveAt(s, k)
           from(j) == IF j < k THEN j ELSE j + 1
<1>0. Len(s) \in Nat /\ \A j \in 1..Len(s) : s[j] \in S
  BY LenProperties, ElementOfSeq
<1>1. /\ a \in Seq(S) /\ Len(a) = k - 1
      /\ \A j \in 1..k-1 : a[j] = s[j]
  BY <1>0, SubSeqProperties
<1>2. /\ b \in Seq(S) /\ Len(b) = Len(s) - k
      /\ \A j \in 1..Len(s)-k : b[j] = s[k + j]
  BY <1>0, SubSeqProperties
<1>3. /\ r \in Seq(S) /\ Len(r) = Len(s) - 1
      /\ \A j \in 1..Len(s)-1 : r[j] = s[from(j)] /\ from(j) \in 1..Len(s) \ {k}
  <2>1. r = a \o b
    BY DEF RemoveAt
  <2>. HIDE DEF r, a, b
  <2>9. /\ a \o b \in Seq(S) /\ Len(a \o b) = Len(a) + Len(b)
        /\ \A j \in 1..Len(a)+Len(b) :
              (a \o b)[j] = IF j <= Len(a) THEN a[j] ELSE b[j - Len(a)]
    BY <1>1, <1>2, ConcatProperties
  <2>8. Len(a) + Len(b) = Len(s) - 1
    BY <1>0, <1>1, <1>2
  <2>2. /\ r \in Seq(S) /\ Len(r) = Len(s) - 1
        /\ \A j \in 1..Len(s)-1 : r[j] = IF j <= Len(a) THEN a[j] ELSE b[j - Len(a)]
    BY <2>1, <2>8, <2>9
  <2>3. ASSUME NEW j \in 1..Len(s)-1
        PROVE  r[j] = s[from(j)] /\ from(j) \in 1..Len(s) \ {k}
    <3>1. CASE j < k
      BY <3>1, <2>2, <1>0, <1>1
    <3>2. CASE ~(j < k)
      <4>1. j - Len(a) \in 1..Len(s)-k /\ k + (j - Len(a)) = j + 1
        BY <3>2, <1>0, <1>1
      <4>2. r[j] = b[j - Len(a)]
        BY <3>2, <2>2, <1>0, <1>1
      <4>3. QED
        BY <4>1, <4>2, <3>2, <1>0, <1>2
    <3>3. QED
      BY <3>1, <3>2
  <2>4. QED
    BY <2>2, <2>3
<1>4. \A i \in 1..Len(s) \ {k} : \E j \in 1..Len(s)-1 : from(j) = i
  <2>1. SUFFICES ASSUME NEW i \in 1..Len(s) \ {k}
                 PROVE  \E j \in 1..Len(s)-1 : from(j) = i
    OBVIOUS
  <2>2. CASE i < k
    <3>1. i \in 1..Len(s)-1 /\ from(i) = i
      BY <1>0, <2>2
    <3>2. QED
      BY <3>1
  <2>3. CASE ~(i < k)
    <3>1. i - 1 \in 1..Len(s)-1 /\ from(i - 1) = i
      BY <1>0, <2>3
    <3>2. QED
      BY <3>1
  <2>4. QED
    BY <2>2, <2>3
<1>. HIDE DEF r
<1>5. Distinct(r)
  <2>. SUFFICES ASSUME NEW i \in 1..Len(s)-1, NEW j \in 1..Len(s)-1, r[i] = r[j]
               PROVE  i = j
    BY <1>3 DEF Distinct
  <2>1. from(i) = from(j)
    BY <1>3 DEF Distinct
  <2>2. QED
    BY <2>1, <1>0
<1>6. ToSet(r) = {s[i] : i \in 1..Len(s) \ {k}}
  <2>1. DOMAIN r = 1..Len(s)-1
    BY <1>3, LenProperties
  <2>. HIDE DEF from
  <2>2. \A j \in 1..Len(s)-1 : r[j] \in {s[i] : i \in 1..Len(s) \ {k}}
    BY <1>3
  <2>3. ASSUME NEW i \in 1..Len(s) \ {k} PROVE s[i] \in ToSet(r)
    <3>1. PICK j \in 1..Len(s)-1 : from(j) = i
      BY <1>4
    <3>2. r[j] = s[i]
      BY <1>3, <3>1
    <3>3. QED
      BY <3>2, <2>1 DEF ToSet
  <2>4. QED
    BY <2>1, <2>2, <2>3 DEF ToSet
<1>7. ToSet(s) \ {s[k]} = {s[i] : i \in 1..Len(s) \ {k}}
  BY LenProperties DEF ToSet, Distinct
<1>8. QED
  BY <1>3, <1>5, <1>6, <1>7 DEF r

(* The same without the entry p, if it is there.                           *)
LEMMA RemoveFirstProperties ==
    ASSUME NEW S, NEW s \in Seq(S), NEW p, Distinct(s)
    PROVE  /\ RemoveFirst(s, p) \in Seq(S)
           /\ Distinct(RemoveFirst(s, p))
           /\ ToSet(RemoveFirst(s, p)) = ToSet(s) \ {p}
           /\ p \notin ToSet(s) => RemoveFirst(s, p) = s
<1>1. CASE \E i \in 1..Len(s) : s[i] = p
  <2>1. PICK k \in 1..Len(s) : s[k] = p
    BY <1>1
  <2>2. {i \in 1..Len(s) : s[i] = p} = {k}
    BY <2>1 DEF Distinct
  <2>3. Min({k}) = k
    BY DEF Min
  <2>4. SelectInSeq(s, LAMBDA v : v = p) = k
    BY <2>2, <2>3 DEF SelectInSeq
  <2>5. RemoveFirst(s, p) = RemoveAt(s, k)
    BY <1>1, <2>4 DEF RemoveFirst
  <2>6. p \in ToSet(s)
    BY <2>1, LenProperties DEF ToSet
  <2>7. QED
    BY <2>1, <2>5, <2>6, RemoveAtProperties
<1>2. CASE ~ \E i \in 1..Len(s) : s[i] = p
  <2>1. RemoveFirst(s, p) = s
    BY <1>2 DEF RemoveFirst
  <2>2. p \notin ToSet(s)
    BY <1>2, LenProperties DEF ToSet
  <2>3. QED
    BY <2>1, <2>2
<1>3. QED
  BY <1>1, <1>2

(* The same with somebody new at the end.                                  *)
LEMMA AppendSleeper ==
    ASSUME NEW S, NEW s \in Seq(S), NEW p \in S, Distinct(s), p \notin ToSet(s)
    PROVE  /\ Append(s, p) \in Seq(S)
           /\ Distinct(Append(s, p))
           /\ ToSet(Append(s, p)) = ToSet(s) \cup {p}
           /\ Append(s, p) # <<>>
<1>. DEFINE r == Append(s, p)
<1>1. /\ r \in Seq(S) /\ Len(r) = Len(s) + 1 /\ Len(s) \in Nat /\ r # <<>>
      /\ \A i \in 1..Len(s) : r[i] = s[i]
      /\ r[Len(s) + 1] = p
  BY AppendProperties, LenProperties
<1>. HIDE DEF r
<1>2. \A i \in 1..Len(s) : s[i] # p
  BY LenProperties DEF ToSet
<1>3. \A i \in 1..Len(r) : i \in 1..Len(s) \/ i = Len(s) + 1
  BY <1>1
<1>4. Distinct(r)
  BY <1>1, <1>2, <1>3 DEF Distinct
<1>5. ToSet(r) = ToSet(s) \cup {p}
  <2>1. DOMAIN r = 1..Len(s)+1 /\ DOMAIN s = 1..Len(s)
    BY <1>1, LenProperties
  <2>2. Len(s) + 1 \in 1..Len(s)+1 /\ \A i \in 1..Len(s) : i \in 1..Len(s)+1
    BY <1>1
  <2>3. \A q : q \in ToSet(r) <=> q \in ToSet(s) \/ q = p
    BY <1>1, <1>3, <2>1, <2>2 DEF ToSet
  <2>4. QED
    BY <2>3
<1>6. QED
  BY <1>1, <1>4, <1>5 DEF r

(* A semaphore of value 0 wakes nobody.                                    *)
LEMMA SettleNone ==
    ASSUME NEW a \in [Procs -> Int], NEW q \in Seq(Procs), Settle(0, a, q)
    PROVE  value' = 0 /\ sleepers' = q /\ adj' = a
<1>1. Len(q) \in Nat
  BY LenProperties
<1>. DEFINE n == IF 0 < Len(q) THEN 0 ELSE Len(q)
           first == {q[i] : i \in 1..n}
<1>2. n = 0
  BY <1>1
<1>3. /\ value' = 0 - n /\ sleepers' = SubSeq(q, n + 1, Len(q))
      /\ adj' = [p \in Procs |-> IF p \in first THEN a[p] + 1 ELSE a[p]]
  BY DEF Settle
<1>4. first = {}
  BY <1>2
<1>. HIDE DEF n, first
<1>5. adj' = [p \in Procs |-> a[p]]
  BY <1>3, <1>4
<1>6. SubSeq(q, 1, Len(q)) = q
  BY SubSeqFull
<1>7. value' = 0 /\ sleepers' = q
  BY <1>2, <1>3, <1>6
<1>8. QED
  BY <1>5, <1>7

(* A semaphore of value 1 is taken by the first in the queue, or stays 1   *)
(* when there is none.                                                     *)
LEMMA SettleOne ==
    ASSUME NEW a \in [Procs -> Int], NEW q \in Seq(Procs), Distinct(q), Settle(1, a, q)
    PROVE  \/ q = <<>> /\ value' = 1 /\ sleepers' = <<>> /\ adj' = a
           \/ /\ value' = 0 /\ sleepers' \in Seq(Procs) /\ Distinct(sleepers')
              /\ \E h \in ToSet(q) : /\ ToSet(sleepers') = ToSet(q) \ {h}
                                     /\ adj' = [a EXCEPT ![h] = @ + 1]
<1>. DEFINE n == IF 1 < Len(q) THEN 1 ELSE Len(q)
           first == {q[i] : i \in 1..n}
<1>0. /\ value' = 1 - n /\ sleepers' = SubSeq(q, n + 1, Len(q))
      /\ adj' = [p \in Procs |-> IF p \in first THEN a[p] + 1 ELSE a[p]]
  BY DEF Settle
<1>. HIDE DEF n, first
<1>1. CASE q = <<>>
  <2>1. Len(q) = 0
    BY <1>1, EmptySeq
  <2>2. n = 0
    BY <2>1 DEF n
  <2>3. value' = 1 /\ sleepers' = SubSeq(q, 1, Len(q))
    BY <1>0, <2>2
  <2>4. first = {}
    BY <2>2 DEF first
  <2>5. adj' = [p \in Procs |-> a[p]]
    BY <1>0, <2>4
  <2>6. SubSeq(q, 1, Len(q)) = q
    BY SubSeqFull
  <2>7. QED
    BY <1>1, <2>3, <2>5, <2>6
<1>2. CASE q # <<>>
  <2>1. Len(q) \in Nat /\ Len(q) >= 1
    BY <1>2, EmptySeq, LenProperties
  <2>2. n = 1
    <3>1. CASE 1 < Len(q)
      BY <3>1 DEF n
    <3>2. CASE ~(1 < Len(q))
      <4>1. \A k \in Nat : k >= 1 /\ ~(1 < k) => k = 1
        OBVIOUS
      <4>2. Len(q) = 1
        BY <2>1, <3>2, <4>1
      <4>3. QED
        BY <3>2, <4>2 DEF n
    <3>3. QED
      BY <3>1, <3>2
  <2>3. value' = 0 /\ sleepers' = SubSeq(q, 2, Len(q))
    BY <1>0, <2>2
  <2>4. 1 \in 1..Len(q) /\ q[1] \in ToSet(q) /\ q[1] \in Procs
    BY <2>1, LenProperties, ElementOfSeq DEF ToSet
  <2>5. RemoveAt(q, 1) = SubSeq(q, 2, Len(q))
    <3>1. SubSeq(q, 1, 0) = <<>> /\ SubSeq(q, 2, Len(q)) \in Seq(Procs)
      <4>1. \A i \in 2..Len(q) : q[i] \in Procs
        BY <2>1, LenProperties, ElementOfSeq
      <4>2. SubSeq(q, 2, Len(q)) \in Seq(Procs)
        BY <2>1, <4>1, SubSeqProperties
      <4>3. SubSeq(q, 1, 0) = <<>>
        BY SubSeqEmpty
      <4>4. QED
        BY <4>2, <4>3
    <3>2. QED
      BY <3>1, ConcatEmptySeq DEF RemoveAt
  <2>6. /\ RemoveAt(q, 1) \in Seq(Procs) /\ Distinct(RemoveAt(q, 1))
        /\ ToSet(RemoveAt(q, 1)) = ToSet(q) \ {q[1]}
    BY <2>4, RemoveAtProperties
  <2>7. sleepers' = RemoveAt(q, 1)
    BY <2>3, <2>5
  <2>8. first = {q[1]}
    BY <2>2 DEF first
  <2>9. adj' = [p \in Procs |-> IF p = q[1] THEN a[p] + 1 ELSE a[p]]
    BY <1>0, <2>8
  <2>10. adj' = [a EXCEPT ![q[1]] = @ + 1]
    BY <2>9, <2>4
  <2>11. value' = 0
    BY <2>3
  <2>12. QED
    BY <2>4, <2>6, <2>7, <2>10, <2>11
<1>3. QED
  BY <1>1, <1>2

-----------------------------------------------------------------------------
(* Where a process can have the semaphore, or wait for it.                 *)
Busy == {"asked", "inside", "leaving"}

(* Who sleeps has asked for the semaphore there is, and did so once.       *)
Queue ==
    /\ sleepers \in Seq(Procs)
    /\ Distinct(sleepers)
    /\ \A p \in Procs : Asleep(p) => pc[p] = "asked" /\ ids[p].sem = sem
    /\ sem = 0 => sleepers = <<>>

(* The semaphore is binary: once set, its value is 1 and nobody has or     *)
(* waits for it, or 0 and exactly one process has it. Before that nobody   *)
(* has it. The exit of a process gives back what it has.                   *)
Lock ==
    /\ Queue
    /\ adj \in [Procs -> Int]
    /\ value = 0 \/ (value = 1 /\ Holders = {} /\ sleepers = <<>>)
    /\ \A p, q \in Holders : p = q
    /\ Ready /\ value = 0 => \E p \in Procs : p \in Holders
    /\ ~Ready => value = 0 /\ Holders = {}
    /\ \A p \in Procs : (p \in Holders => adj[p] = 1) /\ (p \notin Holders => adj[p] = 0)

(* What Goto does to the places.                                           *)
LEMMA Moves ==
    ASSUME Types, NEW p \in Procs, NEW l, Goto(p, l)
    PROVE  pc'[p] = l /\ \A q \in Procs : q # p => pc'[q] = pc[q]
BY DEF Types, Goto

(* None is no undo for anybody.                                            *)
LEMMA NoneFact == None \in [Procs -> Int] /\ \A p \in Procs : None[p] = 0
BY DEF None

(* The empty sequence.                                                     *)
LEMMA EmptyFact == <<>> \in Seq(Procs) /\ Distinct(<<>>) /\ \A p : p \notin ToSet(<<>>)
BY EmptySeq DEF Distinct, ToSet

(* Lock holds as before when the semaphore, its sleepers and its holder    *)
(* are the same.                                                           *)
LEMMA Frame ==
    ASSUME Lock, UNCHANGED semVars, Ready' <=> Ready,
           \A p \in Procs : Asleep(p) => pc'[p] = "asked" /\ ids'[p].sem = ids[p].sem,
           \A p \in Procs : p \in Holders' <=> p \in Holders
    PROVE  Lock'
<1>1. sem' = sem /\ value' = value /\ adj' = adj /\ sleepers' = sleepers
  BY DEF semVars
<1>2. Holders' = Holders
  BY DEF Holders
<1>3. \A p \in Procs : Asleep(p)' <=> Asleep(p)
  BY <1>1 DEF Asleep
<1>4. Queue'
  BY <1>1, <1>3 DEF Lock, Queue
<1>5. QED
  BY <1>1, <1>2, <1>4 DEF Lock

(* A step of a process that neither has nor wants the semaphore.           *)
LEMMA Elsewhere ==
    ASSUME Lock, UNCHANGED semVars, Ready' <=> Ready,
           NEW p \in Procs, pc[p] \notin Busy, pc'[p] \notin Busy,
           \A q \in Procs : q # p => pc'[q] = pc[q] /\ ids'[q] = ids[q]
    PROVE  Lock'
<1>1. sem' = sem /\ \A q \in Procs : Asleep(q)' <=> Asleep(q)
  BY DEF semVars, Asleep
<1>2. \A q \in Procs : Asleep(q) => pc[q] = "asked"
  BY DEF Lock, Queue
<1>3. \A q \in Procs : Asleep(q) => q # p
  BY <1>2 DEF Busy
<1>4. \A q \in Procs : q # p => (q \in Holders' <=> q \in Holders)
  BY <1>1 DEF Holders
<1>5. p \notin Holders /\ p \notin Holders'
  BY DEF Holders, Busy
<1>6. \A q \in Procs : Asleep(q) => pc'[q] = "asked" /\ ids'[q].sem = ids[q].sem
  BY <1>2, <1>3
<1>7. \A q \in Procs : q \in Holders' <=> q \in Holders
  BY <1>4, <1>5
<1>8. QED
  BY <1>6, <1>7, Frame

(* A step of a process that is past its sem_p and keeps what it has.       *)
LEMMA GoesOn ==
    ASSUME Lock, Types, UNCHANGED <<semVars, ids>>, Ready' <=> Ready,
           NEW p \in Procs, pc[p] \in Busy, ~Asleep(p),
           NEW l \in {"inside", "leaving"}, Goto(p, l)
    PROVE  Lock'
<1>1. sem' = sem /\ ids' = ids /\ \A q \in Procs : Asleep(q)' <=> Asleep(q)
  BY DEF semVars, Asleep
<1>2. pc'[p] = l /\ \A q \in Procs : q # p => pc'[q] = pc[q]
  BY Moves
<1>3. \A q \in Procs : Asleep(q) => pc[q] = "asked" /\ q # p
  BY DEF Lock, Queue
<1>4. \A q \in Procs : q # p => (q \in Holders' <=> q \in Holders)
  BY <1>1, <1>2 DEF Holders
<1>5. p \in Holders' <=> p \in Holders
  BY <1>1, <1>2 DEF Holders, Busy
<1>6. \A q \in Procs : Asleep(q) => pc'[q] = "asked" /\ ids'[q].sem = ids[q].sem
  BY <1>1, <1>2, <1>3
<1>7. \A q \in Procs : q \in Holders' <=> q \in Holders
  BY <1>4, <1>5
<1>8. QED
  BY <1>6, <1>7, Frame

(* Lock holds of a semaphore that was just created or removed, as long as  *)
(* nobody has opened it.                                                   *)
LEMMA Emptied ==
    ASSUME value' = 0, adj' = None, sleepers' = <<>>, ~Ready',
           \A p \in Procs : ~(pc'[p] \in Busy /\ ids'[p].sem = sem' /\ sem' # 0)
    PROVE  Lock'
<1>1. Holders' = {}
  BY DEF Holders, Busy
<1>2. \A p \in Procs : ~Asleep(p)'
  BY EmptyFact DEF Asleep
<1>3. Queue'
  BY <1>2, EmptyFact DEF Queue
<1>4. QED
  BY <1>1, <1>3, NoneFact DEF Lock

(* Lock holds after the value became 1, with q the queue at that time,     *)
(* when nobody outside q has the semaphore.                                *)
LEMMA Granting ==
    ASSUME NEW q \in Seq(Procs), Distinct(q), Settle(1, None, q),
           sem' = sem, sem # 0, Ready',
           \A x \in Procs : x \in ToSet(q) => pc'[x] = "asked" /\ ids'[x].sem = sem,
           \A x \in Procs : x \notin ToSet(q) => ~(pc'[x] \in Busy /\ ids'[x].sem = sem)
    PROVE  Lock'
<1>0. ToSet(q) \subseteq Procs
  BY ElementOfSeq, LenProperties DEF ToSet
<1>1. CASE q = <<>> /\ value' = 1 /\ sleepers' = <<>> /\ adj' = None
  <2>1. \A x \in Procs : x \notin ToSet(q) /\ ~Asleep(x)'
    BY <1>1, EmptyFact DEF Asleep
  <2>2. Holders' = {}
    BY <2>1 DEF Holders, Busy
  <2>3. Queue'
    BY <1>1, <2>1, EmptyFact DEF Queue
  <2>4. QED
    BY <1>1, <2>2, <2>3, NoneFact DEF Lock
<1>2. ASSUME value' = 0, sleepers' \in Seq(Procs), Distinct(sleepers'),
             NEW h \in ToSet(q), ToSet(sleepers') = ToSet(q) \ {h},
             adj' = [None EXCEPT ![h] = @ + 1]
      PROVE  Lock'
  <2>1. h \in Procs /\ pc'[h] = "asked" /\ ids'[h].sem = sem
    BY <1>0
  <2>2. \A x \in Procs : Asleep(x)' <=> x \in ToSet(q) /\ x # h
    BY <1>2 DEF Asleep
  <2>3. \A x \in Procs : x \in Holders' <=> x = h
    BY <2>1, <2>2 DEF Holders, Busy
  <2>4. Holders' = {h}
    BY <2>1, <2>3 DEF Holders
  <2>5. \A x \in Procs : Asleep(x)' => pc'[x] = "asked" /\ ids'[x].sem = sem
    BY <2>2
  <2>6. Queue'
    BY <1>2, <2>5 DEF Queue
  <2>7. adj' \in [Procs -> Int] /\ adj'[h] = 1 /\ \A x \in Procs : x # h => adj'[x] = 0
    BY <1>2, <2>1, NoneFact
  <2>8. QED
    BY <1>2, <2>1, <2>4, <2>6, <2>7 DEF Lock
<1>3. QED
  BY <1>1, <1>2, NoneFact, SettleOne

(* Lock holds after a process that has nothing began or stopped to wait    *)
(* while another has the semaphore.                                        *)
LEMMA Waiting ==
    ASSUME Lock, value = 0, NEW q \in Seq(Procs), Distinct(q), Settle(0, adj, q),
           sem' = sem, sem # 0, Ready' <=> Ready,
           NEW p \in Procs, p \notin Holders,
           ToSet(q) \ {p} = ToSet(sleepers) \ {p},
           p \in ToSet(q) => pc'[p] = "asked" /\ ids'[p].sem = sem,
           p \notin ToSet(q) => pc'[p] \notin Busy \/ ids'[p].sem # sem,
           \A x \in Procs : x # p => pc'[x] = pc[x] /\ ids'[x] = ids[x]
    PROVE  Lock'
<1>0. adj \in [Procs -> Int]
  BY DEF Lock
<1>1. value' = 0 /\ sleepers' = q /\ adj' = adj
  BY <1>0, SettleNone
<1>2. \A x \in Procs : x # p => (Asleep(x)' <=> Asleep(x))
  BY <1>1 DEF Asleep
<1>3. Asleep(p)' <=> p \in ToSet(q)
  BY <1>1 DEF Asleep
<1>4. \A x \in Procs : x # p => (x \in Holders' <=> x \in Holders)
  BY <1>2 DEF Holders
<1>5. p \notin Holders'
  BY <1>3 DEF Holders, Busy
<1>6. Holders' = Holders
  BY <1>4, <1>5 DEF Holders
<1>7. \A x \in Procs : Asleep(x)' => pc'[x] = "asked" /\ ids'[x].sem = sem
  BY <1>2, <1>3 DEF Lock, Queue
<1>8. Queue'
  BY <1>1, <1>7 DEF Queue
<1>9. QED
  BY <1>0, <1>1, <1>6, <1>8 DEF Lock

-----------------------------------------------------------------------------
(* A process that asks for the semaphore has opened one.                   *)
LEMMA SemOpened ==
    ASSUME Types, Objects, Opened, NEW p \in Procs, pc[p] \in Busy \cup {"ask"}
    PROVE  ids[p].sem # 0
<1>1. run \in Nat /\ (pc[Server] # "off" => 1 <= run)
  BY RunFact
<1>2. CASE p = Server
  BY <1>1, <1>2 DEF Opened, ServerHas, Ready, Early, Busy
<1>3. CASE p \in Clients
  <2>1. ClientHas(p) /\ ids[p] \in [seg : Nat, que : Nat, sem : Nat]
    BY <1>3, ProcsFact DEF Opened, Types
  <2>2. 1 <= ids[p].que /\ ids[p].que <= ids[p].sem
    BY <2>1 DEF ClientHas, Busy
  <2>3. QED
    BY <2>1, <2>2
<1>4. QED
  BY <1>2, <1>3, ProcsFact

(* When the semaphore exists.                                              *)
LEMMA SemThere ==
    ASSUME Types, Objects
    PROVE  sem # 0 <=> pc[Server] \notin Early
<1>1. run \in Nat /\ (pc[Server] # "off" => 1 <= run)
  BY RunFact
<1>2. QED
  BY <1>1 DEF Objects, Early

(* sem_p keeps Lock: the process waits, or takes the semaphore that is     *)
(* free, or had opened one that was removed.                               *)
LEMMA LockAsk ==
    ASSUME Types, Objects, Opened, Lock, NEW p \in Procs, Ask(p)
    PROVE  Lock'
<1>1. /\ pc[p] = "ask" /\ pc'[p] = "asked" /\ ids' = ids
      /\ \A q \in Procs : q # p => pc'[q] = pc[q]
  BY Moves DEF Ask
<1>2. Ready' <=> Ready
  BY <1>1, ProcsFact DEF Ready, Early
<1>3. ids[p].sem # 0
  BY <1>1, SemOpened DEF Busy
<1>4. ~Asleep(p) /\ p \notin Holders
  BY <1>1 DEF Lock, Queue, Holders
<1>5. CASE ids[p].sem # sem
  <2>1. UNCHANGED semVars
    BY <1>5 DEF Ask, sem_p
  <2>2. sem' = sem /\ \A q \in Procs : Asleep(q)' <=> Asleep(q)
    BY <2>1 DEF semVars, Asleep
  <2>3. \A q \in Procs : Asleep(q) => pc'[q] = "asked" /\ ids'[q].sem = ids[q].sem
    BY <1>1, <1>4 DEF Lock, Queue
  <2>4. \A q \in Procs : q \in Holders' <=> q \in Holders
    BY <1>1, <1>4, <1>5, <2>2 DEF Holders
  <2>5. QED
    BY <1>2, <2>1, <2>3, <2>4, Frame
<1>6. CASE ids[p].sem = sem
  <2>. DEFINE q == Append(sleepers, p)
  <2>1. sleepers \in Seq(Procs) /\ Distinct(sleepers) /\ p \notin ToSet(sleepers)
    BY <1>4 DEF Lock, Queue, Asleep
  <2>2. /\ q \in Seq(Procs) /\ Distinct(q)
        /\ ToSet(q) = ToSet(sleepers) \cup {p}
    BY <2>1, AppendSleeper
  <2>3. Settle(value, adj, q) /\ sem' = sem
    BY <1>6 DEF Ask, sem_p
  <2>. HIDE DEF q
  <2>4. CASE value = 0
    <3>1. Settle(0, adj, q)
      BY <2>3, <2>4
    <3>2. ToSet(q) \ {p} = ToSet(sleepers) \ {p} /\ p \in ToSet(q)
      BY <2>2
    <3>3. QED
      BY <1>1, <1>2, <1>3, <1>4, <1>6, <2>2, <2>3, <2>4, <3>1, <3>2, Waiting
  <2>5. CASE value = 1 /\ Holders = {} /\ sleepers = <<>>
    <3>1. Ready /\ \A x \in Procs : adj[x] = 0
      BY <2>5 DEF Lock
    <3>2. adj = None
      BY <3>1 DEF None, Lock
    <3>3. Settle(1, None, q)
      BY <2>3, <2>5, <3>2
    <3>4. ToSet(q) = {p}
      BY <2>2, <2>5, EmptyFact
    <3>5. \A x \in Procs : x # p => ~(pc'[x] \in Busy /\ ids'[x].sem = sem)
      BY <1>1, <1>3, <1>6, <2>5, EmptyFact DEF Holders, Busy, Asleep
    <3>6. \A x \in Procs : x \in ToSet(q) => pc'[x] = "asked" /\ ids'[x].sem = sem
      BY <1>1, <1>6, <3>4
    <3>7. \A x \in Procs : x \notin ToSet(q) => ~(pc'[x] \in Busy /\ ids'[x].sem = sem)
      BY <3>4, <3>5
    <3>8. QED
      BY <1>2, <1>3, <1>6, <2>2, <2>3, <3>1, <3>3, <3>6, <3>7, Granting
  <2>6. QED
    BY <2>4, <2>5 DEF Lock
<1>7. QED
  BY <1>5, <1>6

(* A holder that gives the semaphore back keeps Lock.                      *)
LEMMA Releases ==
    ASSUME Types, Objects, Lock, NEW p \in Holders, Settle(1, None, sleepers), sem' = sem,
           pc'[p] \notin Busy, Ready' <=> Ready,
           \A x \in Procs : x # p => pc'[x] = pc[x] /\ ids'[x] = ids[x]
    PROVE  Lock'
<1>1. sem # 0 /\ p \in Procs /\ (Asleep(p) => pc[p] = "asked") /\ ~Asleep(p)
  BY DEF Holders, Lock, Queue
<1>2. Ready'
  BY DEF Lock
<1>3. sleepers \in Seq(Procs) /\ Distinct(sleepers)
  BY DEF Lock, Queue
<1>4. \A x \in Procs : x \in ToSet(sleepers) => pc'[x] = "asked" /\ ids'[x].sem = sem
  BY <1>1 DEF Lock, Queue, Asleep
<1>5. \A x \in Procs : x \notin ToSet(sleepers) => ~(pc'[x] \in Busy /\ ids'[x].sem = sem)
  <2>1. \A x \in Procs : x \in Holders => x = p
    BY DEF Lock
  <2>2. \A x \in Procs : x # p /\ ~Asleep(x) => ~(pc[x] \in Busy /\ ids[x].sem = sem)
    BY <1>1, <2>1 DEF Holders, Busy
  <2>3. QED
    BY <2>2 DEF Asleep
<1>6. QED
  BY <1>1, <1>2, <1>3, <1>4, <1>5, Granting

(* Nobody but the holder has something to undo.                            *)
LEMMA HolderOnly ==
    ASSUME Lock, NEW p \in Holders, NEW n \in Int, n = 0
    PROVE  adj[p] = 1 /\ value = 0 /\ [adj EXCEPT ![p] = n] = None
<1>1. p \in Procs /\ adj[p] = 1 /\ value = 0
  BY DEF Lock, Holders
<1>2. \A q \in Procs : q # p => adj[q] = 0
  BY DEF Lock
<1>3. QED
  BY <1>1, <1>2 DEF Lock, None

(* sem_v keeps Lock.                                                       *)
LEMMA LockLeave ==
    ASSUME Types, Objects, Opened, Lock, NEW p \in Procs, Leave(p)
    PROVE  Lock'
<1>. DEFINE l == IF p = Server THEN "wait" ELSE "tell"
<1>1. /\ pc[p] = "leaving" /\ pc'[p] = l /\ ids' = ids
      /\ \A q \in Procs : q # p => pc'[q] = pc[q]
  BY Moves DEF Leave
<1>2. Ready' <=> Ready
  BY <1>1, ProcsFact DEF Ready, Early
<1>3. l \notin Busy
  BY DEF Busy
<1>. HIDE DEF l
<1>4. ids[p].sem # 0
  BY <1>1, SemOpened DEF Busy
<1>5. CASE ids[p].sem # sem
  <2>1. UNCHANGED semVars
    BY <1>5 DEF Leave, sem_v
  <2>2. sem' = sem /\ \A q \in Procs : Asleep(q)' <=> Asleep(q)
    BY <2>1 DEF semVars, Asleep
  <2>3. \A q \in Procs : Asleep(q) => pc'[q] = "asked" /\ ids'[q].sem = ids[q].sem
    BY <1>1 DEF Lock, Queue
  <2>4. \A q \in Procs : q \in Holders' <=> q \in Holders
    BY <1>1, <1>5, <2>2 DEF Holders
  <2>5. QED
    BY <1>2, <2>1, <2>3, <2>4, Frame
<1>6. CASE ids[p].sem = sem
  <2>1. p \in Holders
    BY <1>1, <1>4, <1>6 DEF Holders
  <2>2. Settle(value + 1, [adj EXCEPT ![p] = @ - 1], sleepers) /\ sem' = sem
    BY <1>6 DEF Leave, sem_v
  <2>3. adj[p] = 1 /\ value = 0
    BY <2>1, HolderOnly
  <2>4. [adj EXCEPT ![p] = @ - 1] = [adj EXCEPT ![p] = 1 - 1]
    BY <2>3
  <2>5. [adj EXCEPT ![p] = 1 - 1] = None
    BY <2>1, HolderOnly
  <2>6. value + 1 = 1
    BY <2>3
  <2>7. Settle(1, None, sleepers)
    BY <2>2, <2>4, <2>5, <2>6
  <2>8. QED
    BY <1>1, <1>2, <1>3, <2>1, <2>2, <2>7, Releases
<1>7. QED
  BY <1>5, <1>6

(* The exit or the death of a client keeps Lock: SEM_UNDO gives back what  *)
(* it had, and nothing else.                                               *)
LEMMA LockEnd ==
    ASSUME Types, Objects, Opened, Lock, NEW p \in Clients, End(p)
    PROVE  Lock'
<1>0. p \in Procs /\ p # Server
  BY ProcsFact
<1>1. /\ pc'[p] = "off"
      /\ \A q \in Procs : q # p => pc'[q] = pc[q] /\ ids'[q] = ids[q]
  BY <1>0, Moves, Forgets DEF End
<1>2. Ready' <=> Ready
  BY <1>0, <1>1, ProcsFact DEF Ready
<1>3. pc'[p] \notin Busy
  BY <1>1 DEF Busy
<1>. DEFINE v == value + adj[p]
           s == RemoveFirst(sleepers, p)
<1>4. /\ Settle(IF v < 0 THEN 0 ELSE v, [adj EXCEPT ![p] = 0], s)
      /\ sem' = sem
  BY DEF End, Undo
<1>5. sleepers \in Seq(Procs) /\ Distinct(sleepers)
  BY DEF Lock, Queue
<1>6. /\ s \in Seq(Procs) /\ Distinct(s) /\ ToSet(s) = ToSet(sleepers) \ {p}
      /\ (p \notin ToSet(sleepers) => s = sleepers)
  BY <1>5, RemoveFirstProperties
<1>. HIDE DEF s
<1>7. CASE p \in Holders
  <2>1. adj[p] = 1 /\ value = 0 /\ [adj EXCEPT ![p] = 0] = None
    BY <1>7, HolderOnly
  <2>2. (IF v < 0 THEN 0 ELSE v) = 1
    BY <2>1
  <2>3. p \notin ToSet(sleepers)
    BY <1>7 DEF Holders, Lock, Queue, Asleep
  <2>4. Settle(1, None, sleepers)
    BY <1>4, <1>6, <2>1, <2>2, <2>3
  <2>5. QED
    BY <1>1, <1>2, <1>3, <1>4, <1>7, <2>4, Releases
<1>8. CASE p \notin Holders
  <2>1. adj[p] = 0 /\ [adj EXCEPT ![p] = 0] = adj
    BY <1>0, <1>8 DEF Lock
  <2>2. CASE value = 0
    <3>1. (IF v < 0 THEN 0 ELSE v) = 0
      BY <2>1, <2>2
    <3>2. Settle(0, adj, s)
      BY <1>4, <2>1, <3>1
    <3>3. CASE sem # 0
      <4>1. ToSet(s) \ {p} = ToSet(sleepers) \ {p} /\ p \notin ToSet(s)
        BY <1>6
      <4>2. QED
        BY <1>0, <1>1, <1>2, <1>3, <1>4, <1>6, <1>8, <2>2, <3>2, <3>3, <4>1,
           Waiting
    <3>4. CASE sem = 0
      <4>1. sleepers = <<>>
        BY <3>4 DEF Lock, Queue
      <4>2. s = <<>>
        BY <4>1, <1>6, EmptyFact
      <4>3. adj \in [Procs -> Int]
        BY DEF Lock
      <4>4. value' = 0 /\ sleepers' = <<>> /\ adj' = adj
        BY <1>6, <3>2, <4>2, <4>3, SettleNone
      <4>5. UNCHANGED semVars
        BY <1>4, <2>2, <4>1, <4>4 DEF semVars
      <4>6. \A x \in Procs : x \notin Holders /\ x \notin Holders' /\ ~Asleep(x)
        BY <1>4, <3>4, <4>1, EmptyFact DEF Holders, Asleep
      <4>7. QED
        BY <1>2, <4>5, <4>6, Frame
    <3>5. QED
      BY <3>3, <3>4
  <2>3. CASE value = 1 /\ Holders = {} /\ sleepers = <<>>
    <3>1. (IF v < 0 THEN 0 ELSE v) = 1
      BY <2>1, <2>3
    <3>2. Ready /\ \A x \in Procs : adj[x] = 0
      BY <2>3 DEF Lock
    <3>3. adj = None
      BY <3>2 DEF None, Lock
    <3>4. s = <<>>
      BY <2>3, <1>6, EmptyFact
    <3>5. Settle(1, None, <<>>)
      BY <1>4, <2>1, <3>1, <3>3, <3>4
    <3>6. sem # 0
      BY <3>2, SemThere DEF Ready
    <3>7. \A x \in Procs : ~(pc[x] \in Busy /\ ids[x].sem = sem)
      BY <2>3, <3>6, EmptyFact DEF Holders, Asleep, Busy
    <3>8. \A x \in Procs : ~(pc'[x] \in Busy /\ ids'[x].sem = sem)
      BY <1>1, <1>3, <3>7
    <3>9. \A x \in Procs : x \notin ToSet(<<>>)
      BY EmptyFact
    <3>10. QED
      BY <1>2, <1>4, <3>2, <3>5, <3>6, <3>8, <3>9, EmptyFact, Granting
  <2>4. QED
    BY <2>2, <2>3 DEF Lock
<1>9. QED
  BY <1>7, <1>8

(* creat_sem keeps Lock: no client can have opened a semaphore of a run in *)
(* which none existed.                                                     *)
LEMMA LockCreate ==
    ASSUME Types, Objects, Opened, Lock, creat_sem
    PROVE  Lock'
<1>1. pc[Server] = "sem" /\ sem = 0
  BY DEF creat_sem, Objects, Early
<1>2. sem' = run /\ value' = 0 /\ adj' = None /\ sleepers' = <<>>
  BY <1>1 DEF creat_sem, CreateSem
<1>3. pc'[Server] = "init" /\ \A q \in Procs : q # Server => pc'[q] = pc[q]
  BY Moves, ProcsFact DEF creat_sem
<1>4. run \in Nat
  BY RunFact
<1>5. \A q \in Procs : q # Server => ids'[q] = ids[q]
  BY <1>1, <1>4, Opens, ProcsFact DEF creat_sem
<1>6. \A c \in Clients : pc[c] \in Busy => ids[c].sem < run /\ ids[c].sem \in Nat
  BY <1>1, ProcsFact DEF Opened, ClientHas, Busy, Types
<1>7. \A c \in Clients : pc[c] \in Busy => ids[c].sem # run
  BY <1>4, <1>6
<1>8. \A p \in Procs : ~(pc'[p] \in Busy /\ ids'[p].sem = sem' /\ sem' # 0)
  <2>1. \A c \in Clients : c \in Procs /\ c # Server
    BY ProcsFact
  <2>2. \A c \in Clients : ~(pc'[c] \in Busy /\ ids'[c].sem = sem')
    BY <1>2, <1>3, <1>5, <1>7, <2>1
  <2>3. pc'[Server] \notin Busy
    BY <1>3 DEF Busy
  <2>4. QED
    BY <2>2, <2>3, ProcsFact
<1>9. ~Ready'
  BY <1>3 DEF Ready
<1>10. QED
  BY <1>2, <1>8, <1>9, Emptied

(* init_sem keeps Lock: nobody had the semaphore before, who waits for it  *)
(* is served.                                                              *)
LEMMA LockInit ==
    ASSUME Types, Objects, Opened, Lock, InitSem
    PROVE  Lock'
<1>1. pc[Server] = "init" /\ ~Ready
  BY DEF InitSem, Ready
<1>2. /\ pc'[Server] = "wait" /\ \A q \in Procs : q # Server => pc'[q] = pc[q]
      /\ ids' = ids
  BY Moves, ProcsFact DEF InitSem
<1>3. Settle(1, None, sleepers) /\ sem' = sem
  BY DEF InitSem, init_sem
<1>4. sem # 0
  BY <1>1, SemThere DEF Early
<1>5. Holders = {}
  BY <1>1 DEF Lock
<1>6. Ready'
  BY <1>2 DEF Ready, Early
<1>7. sleepers \in Seq(Procs) /\ Distinct(sleepers)
  BY DEF Lock, Queue
<1>8. \A x \in Procs : x \in ToSet(sleepers) => pc[x] = "asked" /\ ids[x].sem = sem
  BY DEF Lock, Queue, Asleep
<1>9. \A x \in Procs : x \in ToSet(sleepers) => pc'[x] = "asked" /\ ids'[x].sem = sem
  BY <1>1, <1>2, <1>8
<1>10. \A x \in Procs : x \notin ToSet(sleepers) => ~(pc[x] \in Busy /\ ids[x].sem = sem)
  BY <1>4, <1>5 DEF Holders, Busy, Asleep
<1>11. \A x \in Procs : x \notin ToSet(sleepers) => ~(pc'[x] \in Busy /\ ids'[x].sem = sem)
  <2>1. pc'[Server] \notin Busy
    BY <1>2 DEF Busy
  <2>2. QED
    BY <1>2, <1>10, <2>1
<1>12. QED
  BY <1>3, <1>4, <1>6, <1>7, <1>9, <1>11, Granting

(* del_sem keeps Lock.                                                     *)
LEMMA LockRemove ==
    ASSUME Types, Objects, Opened, Lock, RemoveSem
    PROVE  Lock'
<1>1. pc[Server] = "rm_sem" /\ Ready
  BY DEF RemoveSem, Ready, Early
<1>2. sem = run /\ ids[Server].sem = run
  BY <1>1 DEF Objects, Opened, ServerHas, Early
<1>3. sem' = 0 /\ value' = 0 /\ adj' = None /\ sleepers' = <<>>
  BY <1>2 DEF RemoveSem, del_sem
<1>4. pc'[Server] = "off"
  BY Moves, ProcsFact DEF RemoveSem
<1>5. ~Ready'
  BY <1>4 DEF Ready, Early
<1>6. QED
  BY <1>3, <1>5, Emptied

(* Every step keeps Lock.                                                  *)
LEMMA LockStep ==
    ASSUME Server \notin Mortal
    PROVE  Types /\ Objects /\ Opened /\ Lock /\ [Next]_vars => Lock'
<1>. SUFFICES ASSUME Types, Objects, Opened, Lock, [Next]_vars PROVE Lock'
  OBVIOUS
<1>. USE ProcsFact
<1>1. CASE UNCHANGED vars
  <2>1. UNCHANGED semVars /\ pc' = pc /\ ids' = ids
    BY <1>1 DEF vars
  <2>2. Ready' <=> Ready
    BY <2>1 DEF Ready
  <2>3. sem' = sem /\ \A q \in Procs : Asleep(q)' <=> Asleep(q)
    BY <2>1 DEF semVars, Asleep
  <2>4. \A p \in Procs : Asleep(p) => pc'[p] = "asked" /\ ids'[p].sem = ids[p].sem
    BY <2>1 DEF Lock, Queue
  <2>5. \A p \in Procs : p \in Holders' <=> p \in Holders
    BY <2>1, <2>3 DEF Holders
  <2>6. QED
    BY <2>1, <2>2, <2>4, <2>5, Frame
<1>2. CASE Launch
  <2>1. Server \in Procs
    BY ProcsFact
  <2>2. UNCHANGED semVars /\ pc[Server] \notin Busy
    BY <1>2 DEF Launch, Busy
  <2>3. pc'[Server] \notin Busy /\ \A q \in Procs : q # Server => pc'[q] = pc[q]
    BY <1>2, <2>1, Moves DEF Launch, Busy
  <2>4. \A q \in Procs : q # Server => ids'[q] = ids[q]
    BY <1>2, <2>1 DEF Launch, Open, Nothing, Types
  <2>5. Ready' <=> Ready
    BY <1>2, <2>1, <2>3, Moves, ProcsFact DEF Launch, Ready, Early
  <2>6. QED
    BY <2>1, <2>2, <2>3, <2>4, <2>5, Elsewhere
<1>3. CASE ShmGet
  <2>1. Server \in Procs
    BY ProcsFact
  <2>2. UNCHANGED semVars /\ pc[Server] \notin Busy
    BY <1>3 DEF ShmGet, Busy
  <2>3. pc'[Server] \notin Busy /\ \A q \in Procs : q # Server => pc'[q] = pc[q]
    BY <1>3, <2>1, Moves DEF ShmGet, Busy
  <2>4. \A q \in Procs : q # Server => ids'[q] = ids[q]
    BY <1>3, <2>1 DEF ShmGet, Open, Nothing, Types
  <2>5. Ready' <=> Ready
    BY <1>3, <2>1, <2>3, Moves, ProcsFact DEF ShmGet, Ready, Early
  <2>6. QED
    BY <2>1, <2>2, <2>3, <2>4, <2>5, Elsewhere
<1>4. CASE MsgGet
  <2>1. Server \in Procs
    BY ProcsFact
  <2>2. UNCHANGED semVars /\ pc[Server] \notin Busy
    BY <1>4 DEF MsgGet, Busy
  <2>3. pc'[Server] \notin Busy /\ \A q \in Procs : q # Server => pc'[q] = pc[q]
    BY <1>4, <2>1, Moves DEF MsgGet, Busy
  <2>4. \A q \in Procs : q # Server => ids'[q] = ids[q]
    BY <1>4, <2>1 DEF MsgGet, Open, Nothing, Types
  <2>5. Ready' <=> Ready
    BY <1>4, <2>1, <2>3, Moves, ProcsFact DEF MsgGet, Ready, Early
  <2>6. QED
    BY <2>1, <2>2, <2>3, <2>4, <2>5, Elsewhere
<1>5. CASE creat_sem
  BY <1>5, LockCreate
<1>6. CASE InitSem
  BY <1>6, LockInit
<1>7. CASE Receive
  <2>1. Server \in Procs
    BY ProcsFact
  <2>2. UNCHANGED semVars /\ pc[Server] \notin Busy
    BY <1>7 DEF Receive, Busy
  <2>3. pc'[Server] \notin Busy /\ \A q \in Procs : q # Server => pc'[q] = pc[q]
    BY <1>7, <2>1, Moves DEF Receive, Busy
  <2>4. \A q \in Procs : q # Server => ids'[q] = ids[q]
    BY <1>7, <2>1 DEF Receive, Open, Nothing, Types
  <2>5. Ready' <=> Ready
    BY <1>7, <2>1, <2>3, Moves, ProcsFact DEF Receive, Ready, Early
  <2>6. QED
    BY <2>1, <2>2, <2>3, <2>4, <2>5, Elsewhere
<1>8. CASE ReadText
  <2>1. Server \in Procs /\ pc[Server] \in Busy /\ ~Asleep(Server)
    BY <1>8, ProcsFact DEF ReadText, Busy, Lock, Queue
  <2>2. UNCHANGED <<semVars, ids>>
    BY <1>8 DEF ReadText
  <2>3. Goto(Server, "leaving")
    BY <1>8 DEF ReadText
  <2>4. Ready' <=> Ready
    BY <1>8, <2>1, Moves, ProcsFact DEF ReadText, Ready, Early
  <2>5. QED
    BY <2>1, <2>2, <2>3, <2>4, GoesOn
<1>9. CASE RemoveShm
  <2>1. Server \in Procs
    BY ProcsFact
  <2>2. UNCHANGED semVars /\ pc[Server] \notin Busy
    BY <1>9 DEF RemoveShm, Busy
  <2>3. pc'[Server] \notin Busy /\ \A q \in Procs : q # Server => pc'[q] = pc[q]
    BY <1>9, <2>1, Moves DEF RemoveShm, Busy
  <2>4. \A q \in Procs : q # Server => ids'[q] = ids[q]
    BY <1>9, <2>1 DEF RemoveShm, Open, Nothing, Types
  <2>5. Ready' <=> Ready
    BY <1>9, <2>1, <2>3, Moves, ProcsFact DEF RemoveShm, Ready, Early
  <2>6. QED
    BY <2>1, <2>2, <2>3, <2>4, <2>5, Elsewhere
<1>10. CASE RemoveMsg
  <2>1. Server \in Procs
    BY ProcsFact
  <2>2. UNCHANGED semVars /\ pc[Server] \notin Busy
    BY <1>10 DEF RemoveMsg, Busy
  <2>3. pc'[Server] \notin Busy /\ \A q \in Procs : q # Server => pc'[q] = pc[q]
    BY <1>10, <2>1, Moves DEF RemoveMsg, Busy
  <2>4. \A q \in Procs : q # Server => ids'[q] = ids[q]
    BY <1>10, <2>1 DEF RemoveMsg, Open, Nothing, Types
  <2>5. Ready' <=> Ready
    BY <1>10, <2>1, <2>3, Moves, ProcsFact DEF RemoveMsg, Ready, Early
  <2>6. QED
    BY <2>1, <2>2, <2>3, <2>4, <2>5, Elsewhere
<1>11. CASE RemoveSem
  BY <1>11, LockRemove
<1>12. ASSUME NEW p \in Procs, Ask(p) PROVE Lock'
  BY <1>12, LockAsk
<1>13. ASSUME NEW p \in Procs, Enter(p) PROVE Lock'
  <2>1. p \in Procs /\ pc[p] \in Busy /\ ~Asleep(p)
    BY <1>13, ProcsFact DEF Enter, Busy, Lock, Queue
  <2>2. UNCHANGED <<semVars, ids>>
    BY <1>13 DEF Enter
  <2>3. Goto(p, "inside")
    BY <1>13 DEF Enter
  <2>4. Ready' <=> Ready
    BY <1>13, <2>1, Moves, ProcsFact DEF Enter, Ready, Early
  <2>5. QED
    BY <2>1, <2>2, <2>3, <2>4, GoesOn
<1>14. ASSUME NEW p \in Procs, Leave(p) PROVE Lock'
  BY <1>14, LockLeave
<1>15. ASSUME NEW c \in Clients, Start(c) PROVE Lock'
  <2>1. c \in Procs
    BY ProcsFact
  <2>2. UNCHANGED semVars /\ pc[c] \notin Busy
    BY <1>15 DEF Start, Busy
  <2>3. pc'[c] \notin Busy /\ \A q \in Procs : q # c => pc'[q] = pc[q]
    BY <1>15, <2>1, Moves DEF Start, Busy
  <2>4. \A q \in Procs : q # c => ids'[q] = ids[q]
    BY <1>15, <2>1 DEF Start, Open, Nothing, Types
  <2>5. Ready' <=> Ready
    BY <1>15, <2>1, <2>3, Moves, ProcsFact DEF Start, Ready, Early
  <2>6. QED
    BY <2>1, <2>2, <2>3, <2>4, <2>5, Elsewhere
<1>16. ASSUME NEW c \in Clients, OpenMsg(c) PROVE Lock'
  <2>1. c \in Procs
    BY ProcsFact
  <2>2. UNCHANGED semVars /\ pc[c] \notin Busy
    BY <1>16 DEF OpenMsg, Busy
  <2>3. pc'[c] \notin Busy /\ \A q \in Procs : q # c => pc'[q] = pc[q]
    BY <1>16, <2>1, Moves DEF OpenMsg, Busy
  <2>4. \A q \in Procs : q # c => ids'[q] = ids[q]
    BY <1>16, <2>1 DEF OpenMsg, Open, Nothing, Types
  <2>5. Ready' <=> Ready
    BY <1>16, <2>1, <2>3, Moves, ProcsFact DEF OpenMsg, Ready, Early
  <2>6. QED
    BY <2>1, <2>2, <2>3, <2>4, <2>5, Elsewhere
<1>17. ASSUME NEW c \in Clients, OpenSem(c) PROVE Lock'
  <2>1. c \in Procs
    BY ProcsFact
  <2>2. UNCHANGED semVars /\ pc[c] \notin Busy
    BY <1>17 DEF OpenSem, Busy
  <2>3. pc'[c] \notin Busy /\ \A q \in Procs : q # c => pc'[q] = pc[q]
    BY <1>17, <2>1, Moves DEF OpenSem, Busy
  <2>4. \A q \in Procs : q # c => ids'[q] = ids[q]
    BY <1>17, <2>1 DEF OpenSem, Open, Nothing, Types
  <2>5. Ready' <=> Ready
    BY <1>17, <2>1, <2>3, Moves, ProcsFact DEF OpenSem, Ready, Early
  <2>6. QED
    BY <2>1, <2>2, <2>3, <2>4, <2>5, Elsewhere
<1>18. ASSUME NEW c \in Clients, Command(c) PROVE Lock'
  <2>1. c \in Procs
    BY ProcsFact
  <2>2. UNCHANGED semVars /\ pc[c] \notin Busy
    BY <1>18 DEF Command, Busy
  <2>3. pc'[c] \notin Busy /\ \A q \in Procs : q # c => pc'[q] = pc[q]
    BY <1>18, <2>1, Moves DEF Command, Busy
  <2>4. \A q \in Procs : q # c => ids'[q] = ids[q]
    BY <1>18, <2>1 DEF Command, Open, Nothing, Types
  <2>5. Ready' <=> Ready
    BY <1>18, <2>1, <2>3, Moves, ProcsFact DEF Command, Ready, Early
  <2>6. QED
    BY <2>1, <2>2, <2>3, <2>4, <2>5, Elsewhere
<1>19. ASSUME NEW c \in Clients, Write(c) PROVE Lock'
  <2>1. c \in Procs /\ pc[c] \in Busy /\ ~Asleep(c)
    BY <1>19, ProcsFact DEF Write, Busy, Lock, Queue
  <2>2. UNCHANGED <<semVars, ids>>
    BY <1>19 DEF Write
  <2>3. Goto(c, "leaving")
    BY <1>19 DEF Write
  <2>4. Ready' <=> Ready
    BY <1>19, <2>1, Moves, ProcsFact DEF Write, Ready, Early
  <2>5. QED
    BY <2>1, <2>2, <2>3, <2>4, GoesOn
<1>20. ASSUME NEW c \in Clients, Tell(c) PROVE Lock'
  <2>1. c \in Procs
    BY ProcsFact
  <2>2. UNCHANGED semVars /\ pc[c] \notin Busy
    BY <1>20 DEF Tell, Busy
  <2>3. pc'[c] \notin Busy /\ \A q \in Procs : q # c => pc'[q] = pc[q]
    BY <1>20, <2>1, Moves DEF Tell, Busy
  <2>4. \A q \in Procs : q # c => ids'[q] = ids[q]
    BY <1>20, <2>1 DEF Tell, Open, Nothing, Types
  <2>5. Ready' <=> Ready
    BY <1>20, <2>1, <2>3, Moves, ProcsFact DEF Tell, Ready, Early
  <2>6. QED
    BY <2>1, <2>2, <2>3, <2>4, <2>5, Elsewhere
<1>21. ASSUME NEW c \in Clients, Quit(c) PROVE Lock'
  BY <1>21, LockEnd DEF Quit
<1>22. ASSUME NEW c \in Clients, Dies(c) PROVE Lock'
  BY <1>22, LockEnd DEF Dies
<1>23. ASSUME NEW c \in Clients, Attach(c) PROVE Lock'
  <2>1. c \in Procs
    BY ProcsFact
  <2>2. UNCHANGED semVars /\ pc[c] \notin Busy
    BY <1>23 DEF Attach, Busy
  <2>3. pc'[c] \notin Busy /\ \A q \in Procs : q # c => pc'[q] = pc[q]
    BY <1>23, <2>1, Moves DEF Attach, Busy
  <2>4. \A q \in Procs : q # c => ids'[q] = ids[q]
    BY <1>23, <2>1 DEF Attach, Open, Types
  <2>5. Ready' <=> Ready
    BY <1>23, <2>1, <2>3, Moves, ProcsFact DEF Attach, Ready, Early
  <2>6. QED
    BY <2>1, <2>2, <2>3, <2>4, <2>5, Elsewhere
<1>24. QED
  BY <1>1, <1>2, <1>3, <1>4, <1>5, <1>6, <1>7, <1>8, <1>9, <1>10, <1>11, <1>12,
     <1>13, <1>14, <1>15, <1>16, <1>17, <1>18, <1>19, <1>20, <1>21, <1>22,
     <1>23, NextCases

-----------------------------------------------------------------------------
(* The client c wrote, and has yet to tell the server of this run.         *)
Telling(c) == pc[c] \in {"leaving", "tell"} /\ ids[c].que = que

(* The server starts with an empty memory, and when it waits for messages  *)
(* without having shown the last text, it has a message or will get one    *)
(* from a client that lives.                                               *)
Fresh ==
    /\ mute \in BOOLEAN
    /\ pc[Server] = "shm" => shown = 0
    /\ pc[Server] \in {"msg", "sem", "init"} => text = 0 /\ shown = 0
    /\ pc[Server] \in {"wait", "leaving"} /\ ~mute /\ shown # text =>
          msgs # <<>> \/ \E c \in Clients : Telling(c)

(* Nobody writes into the memory of the server that is being started; who  *)
(* writes into that of a server at work will tell this server.             *)
LEMMA NotWriting ==
    ASSUME Types, Objects, Opened, Lock, NEW c \in Clients, pc[c] = "inside",
           ids[c].seg = seg
    PROVE  /\ pc[Server] \notin {"msg", "sem", "init"}
           /\ pc[Server] \in {"wait", "leaving"} => ids[c].que = que
<1>1. c \in Procs /\ ids[c] \in [seg : Nat, que : Nat, sem : Nat] /\ run \in Nat
  BY ProcsFact, RunFact DEF Types
<1>2. /\ ids[c].seg <= ids[c].que /\ ids[c].que <= ids[c].sem /\ ids[c].sem <= run
      /\ pc[Server] \in {"shm", "msg", "sem"} => ids[c].sem < run
  BY <1>1 DEF Opened, ClientHas
<1>3. pc[Server] \notin {"off", "shm", "rm_msg", "rm_sem"} => seg = run
  BY DEF Objects
<1>4. CASE pc[Server] \notin {"off", "shm", "rm_msg", "rm_sem"}
  <2>1. ids[c].seg = run
    BY <1>3, <1>4
  <2>2. ids[c].que = run /\ ids[c].sem = run
    BY <1>1, <1>2, <2>1
  <2>3. pc[Server] \notin {"msg", "sem"}
    BY <1>1, <1>2, <2>2
  <2>4. pc[Server] # "init"
    <3>1. SUFFICES ASSUME pc[Server] = "init" PROVE FALSE
      OBVIOUS
    <3>2. sem = run /\ sem # 0 /\ ~Ready
      BY <3>1, SemThere DEF Objects, Early, Ready
    <3>3. c \in Holders
      BY <1>1, <2>2, <3>2 DEF Holders
    <3>4. QED
      BY <3>2, <3>3 DEF Lock
  <2>5. pc[Server] \in {"wait", "leaving"} => que = run
    BY DEF Objects
  <2>6. QED
    BY <2>2, <2>3, <2>4, <2>5
<1>5. CASE pc[Server] \in {"off", "shm", "rm_msg", "rm_sem"}
  BY <1>5
<1>6. QED
  BY <1>4, <1>5

(* Fresh holds as before when nobody who has yet to tell is lost.          *)
LEMMA FreshFrame ==
    ASSUME Fresh, UNCHANGED <<shown, text, mute, que>>,
           pc'[Server] = pc[Server], msgs # <<>> => msgs' # <<>>,
           \A c \in Clients : Telling(c) => Telling(c)' \/ msgs' # <<>>
    PROVE  Fresh'
BY DEF Fresh

(* A client is a process, and not the server.                              *)
LEMMA Apart ==
    ASSUME NEW c \in Clients, Types
    PROVE  c \in Procs /\ c # Server /\ Server \in Procs
BY ProcsFact

(* A client that writes keeps Fresh: it will tell the server.              *)
LEMMA FreshWrite ==
    ASSUME Types, Objects, Opened, Lock, Fresh, NEW c \in Clients, Write(c)
    PROVE  Fresh'
<1>1. /\ pc'[c] = "leaving" /\ pc[c] = "inside" /\ pc'[Server] = pc[Server]
      /\ \A d \in Clients : d # c => pc'[d] = pc[d]
  BY Apart, Moves, ProcsFact DEF Write
<1>2. UNCHANGED <<ids, que, msgs, shown, mute>>
  BY DEF Write
<1>3. CASE ids[c].seg = seg
  <2>1. /\ pc[Server] \notin {"msg", "sem", "init"}
        /\ pc[Server] \in {"wait", "leaving"} => ids[c].que = que
    BY <1>1, <1>3, NotWriting
  <2>2. pc[Server] \in {"wait", "leaving"} => Telling(c)'
    BY <1>1, <1>2, <2>1 DEF Telling
  <2>3. QED
    BY <1>1, <1>2, <2>1, <2>2 DEF Fresh
<1>4. CASE ids[c].seg # seg
  <2>1. text' = text
    BY <1>4 DEF Write
  <2>2. \A d \in Clients : Telling(d) => Telling(d)'
    BY <1>1, <1>2 DEF Telling
  <2>3. QED
    BY <1>1, <1>2, <2>1, <2>2, FreshFrame
<1>5. QED
  BY <1>3, <1>4

(* What was sent is in the queue.                                          *)
LEMMA SentIsThere ==
    ASSUME Letters, NEW c \in Clients, NEW m \in {"r", "q"}, msgsnd(c, m)
    PROVE  /\ msgs # <<>> => msgs' # <<>>
           /\ ids[c].que = que => msgs' # <<>>
<1>1. CASE ids[c].que = que
  <2>1. msgs' = Append(msgs, m)
    BY <1>1 DEF msgsnd
  <2>2. QED
    BY <2>1, AppendProperties DEF Letters
<1>2. CASE ids[c].que # que
  BY <1>2 DEF msgsnd
<1>3. QED
  BY <1>1, <1>2

(* The death of a client keeps Fresh: mute says when it had yet to tell.   *)
LEMMA FreshDies ==
    ASSUME Types, Fresh, NEW c \in Clients, Dies(c)
    PROVE  Fresh'
<1>1. c \in Procs /\ c # Server
  BY Apart
<1>2. /\ pc'[c] = "off" /\ pc'[Server] = pc[Server]
      /\ \A d \in Clients : d # c => pc'[d] = pc[d] /\ ids'[d] = ids[d]
  BY <1>1, Moves, Forgets, ProcsFact DEF Dies, End
<1>3. UNCHANGED <<shown, text, que, msgs>>
  BY DEF Dies
<1>4. mute' = (mute \/ (c # Server /\ pc[c] \in {"leaving", "tell"}))
  BY DEF Dies
<1>5. CASE pc[c] \in {"leaving", "tell"}
  <2>1. mute' = TRUE
    BY <1>1, <1>4, <1>5
  <2>2. QED
    BY <1>2, <1>3, <2>1 DEF Fresh
<1>6. CASE pc[c] \notin {"leaving", "tell"}
  <2>1. mute' = mute
    BY <1>4, <1>6 DEF Fresh
  <2>2. \A d \in Clients : Telling(d) => Telling(d)'
    BY <1>2, <1>3, <1>6 DEF Telling
  <2>3. QED
    BY <1>2, <1>3, <2>1, <2>2, FreshFrame
<1>7. QED
  BY <1>5, <1>6

(* Every step keeps Fresh.                                                 *)
LEMMA FreshStep ==
    ASSUME Server \notin Mortal
    PROVE  Types /\ Objects /\ Opened /\ Lock /\ Letters /\ Fresh /\ [Next]_vars => Fresh'
<1>. SUFFICES ASSUME Types, Objects, Opened, Lock, Letters, Fresh, [Next]_vars
              PROVE  Fresh'
  OBVIOUS
<1>. USE ProcsFact
<1>1. CASE UNCHANGED vars
  <2>1. UNCHANGED <<pc, ids, shown, text, mute, que, msgs>>
    BY <1>1 DEF vars
  <2>2. \A d \in Clients : Telling(d) => Telling(d)'
    BY <2>1 DEF Telling
  <2>3. QED
    BY <2>1, <2>2, FreshFrame
<1>2. CASE Launch
  <2>1. pc[Server] = "off" /\ pc'[Server] = "shm"
    BY <1>2, Moves, ProcsFact DEF Launch
  <2>2. shown' = 0 /\ mute' = mute
    BY <1>2, <2>1 DEF Launch
  <2>3. QED
    BY <2>1, <2>2 DEF Fresh
<1>3. CASE ShmGet
  <2>1. pc[Server] = "shm" /\ pc'[Server] = "msg"
    BY <1>3, Moves, ProcsFact DEF ShmGet
  <2>2. text' = 0 /\ shown' = shown /\ mute' = mute
    BY <1>3, <2>1 DEF ShmGet, Objects
  <2>3. QED
    BY <2>1, <2>2 DEF Fresh
<1>4. CASE MsgGet
  <2>1. pc[Server] = "msg" /\ pc'[Server] = "sem"
    BY <1>4, Moves, ProcsFact DEF MsgGet
  <2>2. text' = text /\ shown' = shown /\ mute' = mute
    BY <1>4, <2>1 DEF MsgGet
  <2>3. QED
    BY <2>1, <2>2 DEF Fresh
<1>5. CASE creat_sem
  <2>1. pc[Server] = "sem" /\ pc'[Server] = "init"
    BY <1>5, Moves, ProcsFact DEF creat_sem
  <2>2. text' = text /\ shown' = shown /\ mute' = mute
    BY <1>5, <2>1 DEF creat_sem
  <2>3. QED
    BY <2>1, <2>2 DEF Fresh
<1>6. CASE InitSem
  <2>1. pc[Server] = "init" /\ pc'[Server] = "wait"
    BY <1>6, Moves, ProcsFact DEF InitSem
  <2>2. text' = text /\ shown' = shown /\ mute' = mute
    BY <1>6, <2>1 DEF InitSem
  <2>3. QED
    BY <2>1, <2>2 DEF Fresh
<1>7. CASE Receive
  <2>1. pc'[Server] \in {"rm_shm", "ask"} /\ mute' = mute
    BY <1>7, Moves, ProcsFact DEF Receive
  <2>2. QED
    BY <2>1 DEF Fresh
<1>8. CASE ReadText
  <2>1. pc[Server] = "inside" /\ pc'[Server] = "leaving"
    BY <1>8, Moves, ProcsFact DEF ReadText
  <2>2. text' = text /\ shown' = text /\ mute' = mute
    BY <1>8, <2>1 DEF ReadText
  <2>3. QED
    BY <2>1, <2>2 DEF Fresh
<1>9. CASE RemoveShm
  <2>1. pc[Server] = "rm_shm" /\ pc'[Server] = "rm_msg"
    BY <1>9, Moves, ProcsFact DEF RemoveShm
  <2>2. mute' = mute
    BY <1>9, <2>1 DEF RemoveShm
  <2>3. QED
    BY <2>1, <2>2 DEF Fresh
<1>10. CASE RemoveMsg
  <2>1. pc[Server] = "rm_msg" /\ pc'[Server] = "rm_sem"
    BY <1>10, Moves, ProcsFact DEF RemoveMsg
  <2>2. mute' = mute
    BY <1>10, <2>1 DEF RemoveMsg
  <2>3. QED
    BY <2>1, <2>2 DEF Fresh
<1>11. CASE RemoveSem
  <2>1. pc[Server] = "rm_sem" /\ pc'[Server] = "off"
    BY <1>11, Moves, ProcsFact DEF RemoveSem
  <2>2. mute' = mute
    BY <1>11, <2>1 DEF RemoveSem
  <2>3. QED
    BY <2>1, <2>2 DEF Fresh
<1>12. ASSUME NEW p \in Procs, Ask(p) PROVE Fresh'
  <2>1. pc[p] = "ask" /\ pc'[p] = "asked" /\ \A q \in Procs : q # p => pc'[q] = pc[q]
    BY <1>12, Moves DEF Ask
  <2>2. UNCHANGED <<ids, shown, text, mute, que, msgs>>
    BY <1>12 DEF Ask
  <2>3. \A d \in Clients : Telling(d) => Telling(d)'
    BY <2>1, <2>2, Apart DEF Telling
  <2>4. CASE p = Server
    BY <2>1, <2>2, <2>3, <2>4 DEF Fresh
  <2>5. CASE p # Server
    <3>1. pc'[Server] = pc[Server]
      BY <2>1, <2>5, ProcsFact
    <3>2. QED
      BY <2>2, <2>3, <3>1, FreshFrame
  <2>6. QED
    BY <2>4, <2>5
<1>13. ASSUME NEW p \in Procs, Enter(p) PROVE Fresh'
  <2>1. pc[p] = "asked" /\ pc'[p] = "inside" /\ \A q \in Procs : q # p => pc'[q] = pc[q]
    BY <1>13, Moves DEF Enter
  <2>2. UNCHANGED <<ids, shown, text, mute, que, msgs>>
    BY <1>13 DEF Enter
  <2>3. \A d \in Clients : Telling(d) => Telling(d)'
    BY <2>1, <2>2, Apart DEF Telling
  <2>4. CASE p = Server
    BY <2>1, <2>2, <2>3, <2>4 DEF Fresh
  <2>5. CASE p # Server
    <3>1. pc'[Server] = pc[Server]
      BY <2>1, <2>5, ProcsFact
    <3>2. QED
      BY <2>2, <2>3, <3>1, FreshFrame
  <2>6. QED
    BY <2>4, <2>5
<1>14. ASSUME NEW p \in Procs, Leave(p) PROVE Fresh'
  <2>1. /\ pc[p] = "leaving"
        /\ pc'[p] = (IF p = Server THEN "wait" ELSE "tell")
        /\ \A q \in Procs : q # p => pc'[q] = pc[q]
    BY <1>14, Moves DEF Leave
  <2>2. UNCHANGED <<ids, shown, text, mute, que, msgs>>
    BY <1>14 DEF Leave
  <2>3. \A d \in Clients : Telling(d) => Telling(d)'
    BY <2>1, <2>2, Apart DEF Telling
  <2>4. CASE p = Server
    BY <2>1, <2>2, <2>3, <2>4 DEF Fresh
  <2>5. CASE p # Server
    <3>1. pc'[Server] = pc[Server]
      BY <2>1, <2>5, ProcsFact
    <3>2. QED
      BY <2>2, <2>3, <3>1, FreshFrame
  <2>6. QED
    BY <2>4, <2>5
<1>15. ASSUME NEW c \in Clients, Start(c) PROVE Fresh'
  <2>1. c \in Procs /\ pc'[Server] = pc[Server] /\ pc[c] \notin {"leaving", "tell"}
    BY <1>15, Moves, Apart, ProcsFact DEF Start
  <2>2. \A d \in Clients : d # c => pc'[d] = pc[d] /\ ids'[d] = ids[d]
    BY <1>15, <2>1, Moves, ProcsFact DEF Start, Open, Types
  <2>3. UNCHANGED <<shown, text, mute, que, msgs>>
    BY <1>15 DEF Start
  <2>4. \A d \in Clients : Telling(d) => Telling(d)'
    BY <2>1, <2>2, <2>3 DEF Telling
  <2>5. QED
    BY <2>1, <2>3, <2>4, FreshFrame
<1>16. ASSUME NEW c \in Clients, OpenMsg(c) PROVE Fresh'
  <2>1. c \in Procs /\ pc'[Server] = pc[Server] /\ pc[c] \notin {"leaving", "tell"}
    BY <1>16, Moves, Apart, ProcsFact DEF OpenMsg
  <2>2. \A d \in Clients : d # c => pc'[d] = pc[d] /\ ids'[d] = ids[d]
    BY <1>16, <2>1, Moves, ProcsFact DEF OpenMsg, Open, Types
  <2>3. UNCHANGED <<shown, text, mute, que, msgs>>
    BY <1>16 DEF OpenMsg
  <2>4. \A d \in Clients : Telling(d) => Telling(d)'
    BY <2>1, <2>2, <2>3 DEF Telling
  <2>5. QED
    BY <2>1, <2>3, <2>4, FreshFrame
<1>17. ASSUME NEW c \in Clients, OpenSem(c) PROVE Fresh'
  <2>1. c \in Procs /\ pc'[Server] = pc[Server] /\ pc[c] \notin {"leaving", "tell"}
    BY <1>17, Moves, Apart, ProcsFact DEF OpenSem
  <2>2. \A d \in Clients : d # c => pc'[d] = pc[d] /\ ids'[d] = ids[d]
    BY <1>17, <2>1, Moves, ProcsFact DEF OpenSem, Open, Types
  <2>3. UNCHANGED <<shown, text, mute, que, msgs>>
    BY <1>17 DEF OpenSem
  <2>4. \A d \in Clients : Telling(d) => Telling(d)'
    BY <2>1, <2>2, <2>3 DEF Telling
  <2>5. QED
    BY <2>1, <2>3, <2>4, FreshFrame
<1>18. ASSUME NEW c \in Clients, Command(c) PROVE Fresh'
  <2>1. c \in Procs /\ pc'[Server] = pc[Server] /\ pc[c] \notin {"leaving", "tell"}
    BY <1>18, Moves, Apart, ProcsFact DEF Command
  <2>2. \A d \in Clients : d # c => pc'[d] = pc[d] /\ ids'[d] = ids[d]
    BY <1>18, <2>1, Moves, ProcsFact DEF Command, Open, Types
  <2>3. UNCHANGED <<shown, text, mute, que, msgs>>
    BY <1>18 DEF Command
  <2>4. \A d \in Clients : Telling(d) => Telling(d)'
    BY <2>1, <2>2, <2>3 DEF Telling
  <2>5. QED
    BY <2>1, <2>3, <2>4, FreshFrame
<1>19. ASSUME NEW c \in Clients, Write(c) PROVE Fresh'
  BY <1>19, FreshWrite
<1>20. ASSUME NEW c \in Clients, Tell(c) PROVE Fresh'
  <2>1. c \in Procs /\ pc'[Server] = pc[Server]
    BY <1>20, Moves, Apart, ProcsFact DEF Tell
  <2>2. \A d \in Clients : d # c => pc'[d] = pc[d] /\ ids'[d] = ids[d]
    BY <1>20, <2>1, Moves, Forgets, ProcsFact DEF Tell
  <2>3. /\ msgs # <<>> => msgs' # <<>>
        /\ Telling(c) => msgs' # <<>>
    BY <1>20, SentIsThere DEF Tell, Telling
  <2>4. UNCHANGED <<shown, text, mute, que>>
    BY <1>20 DEF Tell
  <2>5. \A d \in Clients : Telling(d) => Telling(d)' \/ msgs' # <<>>
    BY <2>2, <2>3, <2>4 DEF Telling
  <2>6. QED
    BY <2>1, <2>3, <2>4, <2>5, FreshFrame
<1>21. ASSUME NEW c \in Clients, Quit(c) PROVE Fresh'
  <2>1. c \in Procs /\ pc'[Server] = pc[Server]
    BY <1>21, Moves, Apart, ProcsFact DEF Quit, End
  <2>2. \A d \in Clients : d # c => pc'[d] = pc[d] /\ ids'[d] = ids[d]
    BY <1>21, <2>1, Moves, Forgets, ProcsFact DEF Quit, End
  <2>3. /\ msgs # <<>> => msgs' # <<>>
        /\ Telling(c) => msgs' # <<>>
    BY <1>21, SentIsThere DEF Quit, Telling
  <2>4. UNCHANGED <<shown, text, mute, que>>
    BY <1>21 DEF Quit
  <2>5. \A d \in Clients : Telling(d) => Telling(d)' \/ msgs' # <<>>
    BY <2>2, <2>3, <2>4 DEF Telling
  <2>6. QED
    BY <2>1, <2>3, <2>4, <2>5, FreshFrame
<1>22. ASSUME NEW c \in Clients, Dies(c) PROVE Fresh'
  BY <1>22, FreshDies
<1>23. ASSUME NEW c \in Clients, Attach(c) PROVE Fresh'
  <2>1. c \in Procs /\ pc'[Server] = pc[Server] /\ pc[c] \notin {"leaving", "tell"}
    BY <1>23, Moves, Apart, ProcsFact DEF Attach
  <2>2. \A d \in Clients : d # c => pc'[d] = pc[d] /\ ids'[d] = ids[d]
    BY <1>23, <2>1, Moves, ProcsFact DEF Attach, Open, Types
  <2>3. UNCHANGED <<shown, text, mute, que, msgs>>
    BY <1>23 DEF Attach
  <2>4. \A d \in Clients : Telling(d) => Telling(d)'
    BY <2>1, <2>2, <2>3 DEF Telling
  <2>5. QED
    BY <2>1, <2>3, <2>4, FreshFrame
<1>24. QED
  BY <1>1, <1>2, <1>3, <1>4, <1>5, <1>6, <1>7, <1>8, <1>9, <1>10, <1>11, <1>12,
     <1>13, <1>14, <1>15, <1>16, <1>17, <1>18, <1>19, <1>20, <1>21, <1>22,
     <1>23, NextCases

-----------------------------------------------------------------------------
(* The inductive invariant.                                                *)
ShareInv == Types /\ Objects /\ Opened /\ Letters /\ Lock /\ Fresh

(* It holds at the start.                                                  *)
LEMMA ShareStart == Init => ShareInv
<1>. SUFFICES ASSUME Init PROVE ShareInv
  OBVIOUS
<1>1. /\ pc = [p \in Procs |-> "off"] /\ run = 0 /\ seg = 0 /\ que = 0 /\ sem = 0
      /\ ids = [p \in Procs |-> Nothing] /\ value = 0 /\ adj = None /\ sleepers = <<>>
      /\ text = 0 /\ msgs = <<>> /\ shown = 0 /\ mute = FALSE
  BY DEF Init, SemStart
<1>2. \A p \in Procs : pc[p] = "off"
  BY <1>1
<1>3. pc[Server] = "off" /\ \A c \in Clients : pc[c] = "off"
  BY <1>2, ProcsFact
<1>4. Types
  <2>1. Nothing \in [seg : Nat, que : Nat, sem : Nat]
    BY DEF Nothing
  <2>2. QED
    BY <1>1, <1>3, <2>1 DEF Types, ServerPlaces, ClientPlaces
<1>5. Objects
  BY <1>1, <1>3 DEF Objects, Early
<1>6. Opened
  BY <1>3 DEF Opened, ServerHas, ClientHas, Ready, Early
<1>7. Letters
  BY <1>1, EmptySeq DEF Letters
<1>8. Lock
  <2>1. Holders = {}
    BY <1>1 DEF Holders
  <2>2. \A p \in Procs : ~Asleep(p)
    BY <1>1, EmptyFact DEF Asleep
  <2>3. Queue
    BY <1>1, <2>2, EmptyFact DEF Queue
  <2>4. ~Ready
    BY <1>3 DEF Ready, Early
  <2>5. QED
    BY <1>1, <2>1, <2>3, <2>4, NoneFact DEF Lock
<1>9. Fresh
  BY <1>1, <1>3 DEF Fresh
<1>10. QED
  BY <1>4, <1>5, <1>6, <1>7, <1>8, <1>9 DEF ShareInv

(* It holds of every behaviour in which the server is not killed.          *)
LEMMA ShareInvariant ==
    ASSUME Server \notin Mortal
    PROVE  Spec => []ShareInv
<1>1. Init => ShareInv
  BY ShareStart
<1>2. ShareInv /\ [Next]_vars => ShareInv'
  BY TypesStep, ObjectsStep, OpenedStep, LettersStep, LockStep, FreshStep DEF
     ShareInv
<1>3. QED
  BY <1>1, <1>2, PTL DEF Spec

(* sem_p and sem_v of a semaphore set to 1 give it to one process at a     *)
(* time, and to nobody else when its holder is killed or its creator       *)
(* removes it and creates another, for any number of clients and runs:     *)
(* SEM_UNDO (shamem.c:63-65, 81-83) is enough. A server that is killed and *)
(* started again sets the semaphore under its holder (shamem.c:120): that  *)
(* is the assumption.                                                      *)
THEOREM SemaphoreHasOneHolder ==
    ASSUME Server \notin Mortal
    PROVE  Spec => []OneHolder
<1>1. ShareInv => OneHolder
  <2>. SUFFICES ASSUME ShareInv, pc[Server] \notin {"off", "shm", "msg", "sem", "init"}
               PROVE  value + Cardinality(Holders) = (IF sem = 0 THEN 0 ELSE 1)
    BY DEF OneHolder
  <2>1. Types /\ Objects /\ Lock /\ Ready
    BY DEF ShareInv, Ready, Early
  <2>2. sem # 0
    BY <2>1, SemThere DEF Ready
  <2>3. CASE value = 0
    <3>1. PICK p \in Procs : p \in Holders
      BY <2>1, <2>3 DEF Lock
    <3>2. Holders = {p}
      BY <2>1, <3>1 DEF Lock
    <3>3. Cardinality(Holders) = 1
      BY <3>2, FS_Singleton
    <3>4. QED
      BY <2>2, <2>3, <3>3
  <2>4. CASE value = 1 /\ Holders = {}
    <3>1. Cardinality(Holders) = 0
      BY <2>4, FS_EmptySet
    <3>2. QED
      BY <2>2, <2>4, <3>1
  <2>5. QED
    BY <2>1, <2>3, <2>4 DEF Lock
<1>2. QED
  BY <1>1, ShareInvariant, PTL

(* One process at a time is in the shared memory, though sem_p may fail in *)
(* a client whose semaphore was removed (shamem.c:191-193,                 *)
(* shamem_client.c:30-31): such a client has opened a memory that was      *)
(* removed before.                                                         *)
THEOREM MemoryIsExclusive ==
    ASSUME Server \notin Mortal
    PROVE  Spec => []Exclusive
<1>1. ShareInv => Exclusive
  <2>. SUFFICES ASSUME ShareInv, NEW p \in Procs, NEW q \in Procs,
                      pc[p] = "inside", pc[q] = "inside",
                      seg # 0, ids[p].seg = seg, ids[q].seg = seg
               PROVE  p = q
    BY DEF Exclusive
  <2>1. Types /\ Objects /\ Opened /\ Lock
    BY DEF ShareInv
  <2>2. ASSUME NEW x \in Procs, pc[x] = "inside", ids[x].seg = seg
        PROVE  x \in Holders
    <3>1. CASE x = Server
      <4>1. Ready /\ ids[x].sem = run /\ sem = run
        BY <2>1, <2>2, <3>1 DEF Ready, Early, Opened, ServerHas, Objects
      <4>2. sem # 0
        BY <2>1, <4>1, SemThere DEF Ready
      <4>3. QED
        BY <2>2, <4>1, <4>2 DEF Holders
    <3>2. CASE x \in Clients
      <4>1. run \in Nat /\ ids[x] \in [seg : Nat, que : Nat, sem : Nat]
        BY <2>1, RunFact DEF Types
      <4>2. /\ ids[x].seg <= ids[x].que /\ ids[x].que <= ids[x].sem /\ ids[x].sem <= run
            /\ pc[Server] \in {"shm", "msg", "sem"} => ids[x].sem < run
        BY <2>1, <2>2, <3>2 DEF Opened, ClientHas
      <4>3. seg = run /\ pc[Server] \notin {"off", "shm"}
        BY <2>1 DEF Objects
      <4>4. ids[x].sem = run
        BY <2>2, <4>1, <4>2, <4>3
      <4>5. pc[Server] \notin Early
        BY <4>1, <4>2, <4>3, <4>4 DEF Early
      <4>6. sem = run /\ sem # 0
        BY <2>1, <4>5, SemThere DEF Objects
      <4>7. QED
        BY <2>2, <4>4, <4>6 DEF Holders
    <3>3. QED
      BY <3>1, <3>2, ProcsFact
  <2>3. p \in Holders /\ q \in Holders
    BY <2>2
  <2>4. QED
    BY <2>1, <2>3 DEF Lock
<1>2. QED
  BY <1>1, ShareInvariant, PTL

(* A server that waits for messages, with none coming, has shown the last  *)
(* text that a client wrote and lived to report (shamem.c:133).            *)
THEOREM LastTextIsShown ==
    ASSUME Server \notin Mortal
    PROVE  Spec => []LastTextShown
<1>1. ShareInv => LastTextShown
  BY DEF ShareInv, Fresh, Telling, LastTextShown
<1>2. QED
  BY <1>1, ShareInvariant, PTL
=============================================================================
