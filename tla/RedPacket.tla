----------------------------- MODULE RedPacket -----------------------------
(***************************************************************************)
(* The program pthread_pool/redpacket.c: the tasks it gives to the pool    *)
(* share out a red packet, in the order in which they get the program's    *)
(* mutex.  Money is counted in tenths, the unit of every share: a whole    *)
(* number and 0.1.  (thrdtest.c is the same program without the packet.)   *)
(***************************************************************************)
EXTENDS PoolMain

CONSTANT Totals         \* the tenths there may be in the packet

ASSUME TotalsAssumption == Totals \subseteq Nat \ {0}

VARIABLES
    redpacket,          \* what is left
    paid,               \* the sum of the shares
    state               \* "running", "spinning" in my_rand or "crashed"

packetVars  == <<redpacket, paid, state>>
programVars == <<allVars, packetVars>>

N == Cardinality(Tasks)

PacketInit == /\ MainInit
              /\ redpacket \in Totals /\ paid = 0
              /\ state = "running"

(* int base = redpacket / *p: rounded down, but the sum of many tenths in  *)
(* a double may lie just below a whole number.                             *)
ofAll     == {redpacket \div 10}                                \* a mutant
Base      == {redpacket \div (10 * N)} \cup
             (IF redpacket % (10 * N) = 0 /\ paid # 0
              THEN {redpacket \div (10 * N) - 1} ELSE {})
Limit(b)  == (18 * b) \div 10

(* my_rand(s) draws from 1..s-1, again and again if that is empty, which   *)
(* it is for 1; modulo 0 is a crash.                                       *)
Draws(s)  == {10 * a + 1 : a \in 1..s-1}

lastEarly == done + 2 = N                                       \* a mutant
Last      == done + 1 = N

(* A task gets the mutex.  That the packet is empty then, the other case   *)
(* of the code, is excluded by MoneyLeft.                                  *)
Share(w) ==
    /\ dummy_task(w)
    /\ ~Last
    /\ \E b \in Base : \E d \in Draws(Limit(b)) :
          redpacket' = redpacket - d /\ paid' = paid + d
    /\ UNCHANGED state

(* The last one is given what is left, which is not deducted.              *)
TakeRest(w) ==
    /\ dummy_task(w)
    /\ Last
    /\ paid' = paid + redpacket
    /\ UNCHANGED <<redpacket, state>>

(* The task has been counted, but does not come back from my_rand.         *)
Fail(w) ==
    /\ pc[w] = "run" /\ w \notin counted
    /\ ~Last
    /\ \E b \in Base :
          /\ Draws(Limit(b)) = {}
          /\ state' = IF Limit(b) = 0 THEN "crashed" ELSE "spinning"
    /\ done' = done + 1
    /\ UNCHANGED <<vars, main, tasks, counted, redpacket, paid>>

Task(w) == state = "running" /\ (Share(w) \/ TakeRest(w) \/ Fail(w))

(* The rest of the program.  A spinning worker does not end its task: it   *)
(* is not counted.                                                         *)
Other(A) == state # "crashed" /\ main # "aborted" /\ A /\ UNCHANGED packetVars

Ended == /\ main \in {"end", "aborted"} \/ state # "running"
         /\ UNCHANGED programVars

PacketNext ==
    \/ Other(MainStep) \/ Other(PoolStep)
    \/ \E w \in Workers : Task(w) \/ Other(TaskEnds(w))
    \/ Ended

(* As for the pool, and main and the tasks are scheduled too.              *)
PacketFairness ==
    /\ WF_programVars(Other(MainStep))
    /\ WF_programVars(Other((Create \/ Spawn \/ CountThread) /\ PoolStep))
    /\ SF_programVars(Other((AddStep(Main) \/ DestroyStep(Main)) /\ PoolStep))
    /\ \A w \in Workers : /\ SF_programVars(Other(WorkerStep(w) /\ PoolStep))
                          /\ WF_programVars(Task(w))
                          /\ WF_programVars(Other(TaskEnds(w)))

PacketSpec == PacketInit /\ [][PacketNext]_programVars /\ PacketFairness

-----------------------------------------------------------------------------
(* The packet is not overdrawn, and never empty when somebody draws        *)
(* (redpacket.c:43, 53-56).                                                *)
MoneyLeft == redpacket > 0

(* Unless a draw fails the program ends, having done every task once, and  *)
(* then the shares are the packet (redpacket.c:47-57, 88-97).              *)
EveryoneServed ==
    \A T \in Totals :
        redpacket = T =>
            <>(\/ state # "running"
               \/ /\ main = "end" /\ \A t \in Tasks : runs[t] = 1
                  /\ paid = T)
=============================================================================
