---------------------------- MODULE SocketServer ----------------------------
(***************************************************************************)
(* What the servers of poll/, select/ and epoll/ have in common: one       *)
(* process with a listening socket, standard input and blocking sockets,   *)
(* each with a client at its other end, and a table of descriptors.        *)
(* Their modules extend this one; the clients below are their environment. *)
(*                                                                         *)
(* A client connects once.  Descriptors are numbers, and a new one is the  *)
(* lowest that is free.                                                    *)
(***************************************************************************)
EXTENDS Integers, Sequences, FiniteSets

CONSTANTS
    Clients,
    NoClient,
    MaxSends,           \* bound: [Clients -> how often each sends]
    MaxTyped            \* bound: lines typed

ASSUME SocketAssumption == /\ IsFiniteSet(Clients) /\ NoClient \notin Clients
                           /\ MaxSends \in [Clients -> Nat] /\ MaxTyped \in Nat

VARIABLES
    desc,               \* [Fds -> the client at the other end]
    conn,               \* the state of each client's connection
    backlog,            \* the connections that wait for accept
    pending,            \* how many messages of each client are unread
    sent,               \* how many each has sent
    got,                \* how many from the server each has not yet read
    typed,              \* lines that were typed, and those not yet read
    at, i,              \* where the server is, and a variable of its loops
    table,              \* its array of descriptors
    events              \* what its last wait has reported

netVars    == <<desc, conn, backlog, pending, sent, got>>
socketVars == <<netVars, typed, at, i, table, events>>

NoFd  == -1
Stdin == 0
Sock  == 1                                        \* the listening socket
Fds   == 2..Cardinality(Clients) + 1

Open == {f \in Fds : desc[f] # NoClient}

SocketInit ==
    /\ desc = [f \in Fds |-> NoClient]
    /\ conn = [c \in Clients |-> "off"]
    /\ backlog = <<>>
    /\ pending = [c \in Clients |-> 0] /\ sent = [c \in Clients |-> 0]
    /\ got = [c \in Clients |-> 0]
    /\ typed = [all |-> 0, left |-> 0]

-----------------------------------------------------------------------------
(* Read of the descriptor f returns at once: with data, with an error that *)
(* is reported once, or with the end of the file.                          *)
HasData(f)  == desc[f] # NoClient /\ pending[desc[f]] > 0
HasError(f) == f \in Open /\ ~HasData(f) /\ conn[desc[f]] = "reset"
HasEnd(f)   == f \in Open /\ ~HasData(f) /\ conn[desc[f]] = "closed"
Readable(f) == HasData(f) \/ HasError(f) \/ HasEnd(f)

LowestFree(f) == desc[f] = NoClient /\ \A g \in Fds : g < f => desc[g] # NoClient

AcceptAs(f) == /\ LowestFree(f)
               /\ desc' = [desc EXCEPT ![f] = Head(backlog)]
               /\ backlog' = Tail(backlog)
               /\ UNCHANGED conn

acceptAndKeep == \E f \in Fds : AcceptAs(f)                         \* a mutant
AcceptAndClose == /\ conn' = [conn EXCEPT ![Head(backlog)] = "over"]
                  /\ backlog' = Tail(backlog)
                  /\ UNCHANGED desc

ReadData(f)  == /\ HasData(f)
                /\ pending' = [pending EXCEPT ![desc[f]] = 0]
                /\ UNCHANGED <<desc, conn, backlog, sent, got, typed>>

ReadError(f) == /\ HasError(f)
                /\ conn' = [conn EXCEPT ![desc[f]] = "closed"]
                /\ UNCHANGED <<desc, backlog, pending, sent, got, typed>>

ReadEnd(f)   == /\ HasEnd(f)
                /\ desc' = [desc EXCEPT ![f] = NoClient]
                /\ conn' = [conn EXCEPT ![desc[f]] = "over"]
                /\ UNCHANGED <<backlog, pending, sent, got, typed>>

(* The server writes times[f] messages to each descriptor f; to one that   *)
(* is not open that does nothing.  A write to a closed connection resets   *)
(* it, one to a reset connection is told the error, or raises SIGPIPE.     *)
Wrote(times) ==
    LET Times(c) == IF \E f \in Open : desc[f] = c
                    THEN times[CHOOSE f \in Open : desc[f] = c] ELSE 0
    IN  /\ conn' = [c \in Clients |->
                      CASE Times(c) > 0 /\ conn[c] = "closed" -> "reset"
                        [] Times(c) > 0 /\ conn[c] = "reset"  -> "closed"
                        [] OTHER -> conn[c]]
        /\ got' = [c \in Clients |-> IF conn[c] = "on" THEN got[c] + Times(c)
                                                      ELSE got[c]]

SigPipe(times) ==
    \E f \in Open : \/ times[f] > 0 /\ conn[desc[f]] = "reset"
                    \/ times[f] > 1 /\ conn[desc[f]] = "closed"

(* A typed line is read and written, or the writing kills the server.      *)
LineRead == typed.left > 0 /\ typed' = [typed EXCEPT !.left = @ - 1]

WriteLine(times) == /\ LineRead
                    /\ Wrote(times)
                    /\ UNCHANGED <<desc, backlog, pending, sent>>

DieWriting(times) == /\ LineRead
                     /\ SigPipe(times)
                     /\ at' = "killed"
                     /\ UNCHANGED <<netVars, i, table, events>>

-----------------------------------------------------------------------------
Connect(c) ==
    /\ conn[c] = "off"
    /\ conn' = [conn EXCEPT ![c] = "on"]
    /\ backlog' = Append(backlog, c)
    /\ UNCHANGED <<desc, pending, sent, got, typed>>

Send(c) ==
    /\ conn[c] = "on"
    /\ sent[c] < MaxSends[c]
    /\ sent' = [sent EXCEPT ![c] = @ + 1]
    /\ pending' = [pending EXCEPT ![c] = @ + 1]
    /\ UNCHANGED <<desc, conn, backlog, got, typed>>

Receive(c) ==
    /\ conn[c] = "on"
    /\ got[c] > 0
    /\ got' = [got EXCEPT ![c] = 0]
    /\ UNCHANGED <<desc, conn, backlog, pending, sent, typed>>

(* The connection is reset if the client leaves messages unread.           *)
Close(c) ==
    /\ conn[c] = "on"
    /\ conn' = [conn EXCEPT ![c] = IF got[c] > 0 THEN "reset" ELSE "closed"]
    /\ got' = [got EXCEPT ![c] = 0]
    /\ UNCHANGED <<desc, backlog, pending, sent, typed>>

TypeLine ==
    /\ typed.all < MaxTyped
    /\ typed' = [all |-> typed.all + 1, left |-> typed.left + 1]
    /\ UNCHANGED netVars

ClientStep ==
    /\ \/ TypeLine
       \/ \E c \in Clients : Connect(c) \/ Send(c) \/ Receive(c) \/ Close(c)
    /\ UNCHANGED <<at, i, table, events>>
=============================================================================
