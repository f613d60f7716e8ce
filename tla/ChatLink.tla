------------------------------ MODULE ChatLink ------------------------------
(***************************************************************************)
(* The packets of ChatRoom/chatlinker.c and the connections they travel    *)
(* on.  A TCP connection is one queue of packets each way; closing one end *)
(* is seen by the other after what is still in flight.  A packet is two    *)
(* writes, so writing one to a peer that has closed can raise SIGPIPE,     *)
(* which the server does not handle.                                       *)
(***************************************************************************)
EXTENDS Integers, Sequences

CONSTANTS Clients

VARIABLES
    up,             \* is the server process alive?
    open,           \* the clients whose process, and so socket, still exists
    toServer,       \* [Clients -> packets not yet read by the server]
    toClient        \* [Clients -> packets not yet read by the client]

linkVars == <<up, open, toServer, toClient>>

(* sendpkt in a client.  To a server that is gone it has no effect: the    *)
(* client finds out when it reads.                                         *)
sendpkt(c, pkt) == toServer' = [toServer EXCEPT ![c] = Append(@, pkt)]

(* sendpkt in the server, to the clients of the sequence cs in turn; what  *)
(* is no client is skipped.  At a closed connection the server may die,    *)
(* having served only those before.                                        *)
sendpkts(cs, pkt) ==
    \E k \in 0..Len(cs) :
        /\ k < Len(cs) => cs[k + 1] \in Clients \ open
        /\ up' = (k = Len(cs))
        /\ toClient' = [c \in Clients |->
                          IF \E i \in 1..k : cs[i] = c
                          THEN Append(toClient[c], pkt) ELSE toClient[c]]

(* The outcome of recvpkt in the server: the next packet, or that the      *)
(* connection is closed; it blocks while Readable is false.                *)
(* A connection the client closed before it had read everything is reset.  *)
Closed(c)   == toServer[c] = <<>> /\ c \notin open
Readable(c) == toServer[c] # <<>> \/ c \notin open
Reset(c)    == c \notin open /\ toClient[c] # <<>>
=============================================================================
