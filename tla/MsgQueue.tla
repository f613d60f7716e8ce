------------------------------ MODULE MsgQueue ------------------------------
(***************************************************************************)
(* IPC/pipe_fifo: clients (msg.c) send a request on a message queue and    *)
(* wait for a reply; a server (msg of ipc.c) reads the requests in a loop  *)
(* and sends a reply to each on the same queue.  Requests have one type,   *)
(* replies another, and neither says whose it is: any reply will do for    *)
(* any client.  The queue holds so many messages of both types together.   *)
(***************************************************************************)
EXTENDS Integers, FiniteSets

CONSTANTS
    Clients,            \* clients, each of which may be run again
    Depth,              \* messages the queue holds
    Deaths              \* bound on the clients that are killed

ASSUME QueueAssumption == /\ IsFiniteSet(Clients)
                          /\ Depth \in Nat \ {0} /\ Deaths \in Nat

VARIABLES
    server,             \* "receive", or "reply" once it has read a request
    client,             \* where each client is
    requests, replies,  \* how many messages of each type are in the queue
    deaths              \* how often a client has been killed

vars == <<server, client, requests, replies, deaths>>

Init == /\ server = "receive"
        /\ client = [c \in Clients |-> "off"]
        /\ requests = 0 /\ replies = 0 /\ deaths = 0

(* msgsnd waits for room, whatever the type.                               *)
Room == requests + replies < Depth

drainFirst ==                                                        \* a mutant
    /\ server = "receive"
    /\ requests > 0
    /\ requests' = 0
    /\ server' = "reply"
    /\ UNCHANGED <<client, replies, deaths>>
Receive ==
    /\ server = "receive"
    /\ requests > 0
    /\ requests' = requests - 1
    /\ server' = "reply"
    /\ UNCHANGED <<client, replies, deaths>>

replyOverReply ==                                                    \* a mutant
    /\ server = "reply"
    /\ replies' = 1
    /\ server' = "receive"
    /\ UNCHANGED <<client, requests, deaths>>
Reply ==
    /\ server = "reply"
    /\ Room
    /\ replies' = replies + 1
    /\ server' = "receive"
    /\ UNCHANGED <<client, requests, deaths>>

Start(c) == /\ client[c] = "off"
            /\ client' = [client EXCEPT ![c] = "send"]
            /\ UNCHANGED <<server, requests, replies, deaths>>

Send(c) ==
    /\ client[c] = "send"
    /\ Room
    /\ requests' = requests + 1
    /\ client' = [client EXCEPT ![c] = "wait"]
    /\ UNCHANGED <<server, replies, deaths>>

Read(c) ==
    /\ client[c] = "wait"
    /\ replies > 0
    /\ replies' = replies - 1
    /\ client' = [client EXCEPT ![c] = "off"]
    /\ UNCHANGED <<server, requests, deaths>>

(* A client is killed; what it sent, or would have read, stays behind.     *)
Kill(c) == /\ deaths < Deaths /\ client[c] # "off"
           /\ client' = [client EXCEPT ![c] = "off"]
           /\ deaths' = deaths + 1
           /\ UNCHANGED <<server, requests, replies>>

Next == \/ Receive \/ Reply
        \/ \E c \in Clients : Start(c) \/ Send(c) \/ Read(c) \/ Kill(c)

(* Processes are scheduled, and the kernel hands messages and room to      *)
(* those who wait in the order they came.                                  *)
Spec == /\ Init /\ [][Next]_vars
        /\ WF_vars(Receive) /\ SF_vars(Reply)
        /\ \A c \in Clients : SF_vars(Send(c)) /\ SF_vars(Read(c))

-----------------------------------------------------------------------------
(* There is something on its way for each client that waits, though others *)
(* have been killed and a client may take the reply to another's request   *)
(* (ipc.c:143-149, msg.c:54-57).                                           *)
Waiting == {c \in Clients : client[c] = "wait"}

EnoughOnTheWay ==
    Cardinality(Waiting)
        <= requests + replies + (IF server = "reply" THEN 1 ELSE 0)

(* Every client gets a reply, if the queue has room for a message of each  *)
(* client and for what clients that were killed left behind, so that the   *)
(* server never waits for room for a reply that nobody can make            *)
(* (ipc.c:140-150).                                                        *)
EveryoneAnswered ==
    \A c \in Clients : client[c] = "send" ~> client[c] = "off"
=============================================================================
