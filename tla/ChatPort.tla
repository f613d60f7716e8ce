------------------------------ MODULE ChatPort ------------------------------
(***************************************************************************)
(* How a chat server and its clients find each other: the symbolic link    *)
(* ~/.chatport, which the server creates when it listens and removes when  *)
(* SIGTERM or SIGINT stops it (ChatRoom/chatserver.c, chatlinker.c).       *)
(***************************************************************************)
EXTENDS Integers

CONSTANTS
    Servers, Callers,   \* processes that are started, each once
    NoLink,             \* the link does not exist
    Signals,            \* which of SIGTERM and SIGINT are sent
    Early,              \* may they arrive before the server has its link?
    Kills               \* may a server die without running cleanup?

ASSUME PortAssumption == /\ NoLink \notin Servers
                         /\ Signals \subseteq {"TERM", "INT"}
                         /\ Early \in BOOLEAN /\ Kills \in BOOLEAN

VARIABLES
    chatport,           \* the server the link names
    server,             \* where each server is
    got,                \* the signals each has received
    client,             \* where each client is
    target              \* the server whose address each client has read

portVars == <<chatport, server, got, client, target>>

PortInit ==
    /\ chatport = NoLink
    /\ server = [p \in Servers |-> "off"]
    /\ got = [p \in Servers |-> {}]
    /\ client = [c \in Callers |-> "off"]
    /\ target = [c \in Callers |-> NoLink]

(* Is the socket of p open?  cleanup leaves that to exit.                  *)
Listening(p) == server[p] \in {"serving", "cleaning"}

Interruptible == {"serving", "cleaning"} \cup (IF Early THEN {"starting"} ELSE {})

(* main, as far as the signal handlers.                                    *)
Launch(p) ==
    /\ server[p] = "off"
    /\ server' = [server EXCEPT ![p] = "starting"]
    /\ UNCHANGED <<chatport, got, client, target>>

(* startserver: symlink fails if the link exists, and main then exits.     *)
replaceLink(p) ==                                                    \* a mutant
    /\ server[p] = "starting"
    /\ chatport' = p /\ server' = [server EXCEPT ![p] = "serving"]
    /\ UNCHANGED <<got, client, target>>
refusedCleansUp(p) ==                                                \* a mutant
    /\ server[p] = "starting"
    /\ IF chatport = NoLink
       THEN chatport' = p /\ server' = [server EXCEPT ![p] = "serving"]
       ELSE server' = [server EXCEPT ![p] = "refused"] /\ chatport' = NoLink
    /\ UNCHANGED <<got, client, target>>
startserver(p) ==
    /\ server[p] = "starting"
    /\ IF chatport = NoLink
       THEN chatport' = p /\ server' = [server EXCEPT ![p] = "serving"]
       ELSE server' = [server EXCEPT ![p] = "refused"] /\ UNCHANGED chatport
    /\ UNCHANGED <<got, client, target>>

(* The handler of a signal unlinks whatever is there, then exits.  The     *)
(* signal is blocked while its handler runs, the other one is not.         *)
cleanup(p, s) ==
    /\ server[p] \in Interruptible
    /\ s \notin got[p]
    /\ got' = [got EXCEPT ![p] = @ \cup {s}]
    /\ chatport' = NoLink
    /\ server' = [server EXCEPT ![p] = "cleaning"]
    /\ UNCHANGED <<client, target>>

ExitServer(p) ==
    /\ server[p] = "cleaning"
    /\ server' = [server EXCEPT ![p] = "dead"]
    /\ UNCHANGED <<chatport, got, client, target>>

(* SIGKILL, SIGPIPE, a crash or exit(0) after a failed accept.             *)
Die(p) ==
    /\ Kills
    /\ server[p] = "serving"
    /\ server' = [server EXCEPT ![p] = "dead"]
    /\ UNCHANGED <<chatport, got, client, target>>

(* hooktoserver: read the link, then connect.                              *)
ReadLink(c) ==
    /\ client[c] = "off"
    /\ target' = [target EXCEPT ![c] = chatport]
    /\ client' = [client EXCEPT ![c] = IF chatport = NoLink
                                       THEN "noserver" ELSE "connecting"]
    /\ UNCHANGED <<chatport, server, got>>

hooktoserver(c) ==
    /\ client[c] = "connecting"
    /\ client' = [client EXCEPT ![c] = IF Listening(target[c])
                                       THEN "connected" ELSE "failed"]
    /\ UNCHANGED <<chatport, server, got, target>>

PortNext ==
    \/ \E p \in Servers : \/ Launch(p) \/ startserver(p) \/ ExitServer(p) \/ Die(p)
                          \/ \E s \in Signals : cleanup(p, s)
    \/ \E c \in Callers : ReadLink(c) \/ hooktoserver(c)

PortSpec == PortInit /\ [][PortNext]_portVars

-----------------------------------------------------------------------------
(* At most one server serves (chatlinker.c:75-78).                         *)
OneServer ==
    \A p, q \in Servers : server[p] = "serving" /\ server[q] = "serving" => p = q

(* While a server serves the link names it, so that a second server is     *)
(* refused and clients find it (chatlinker.c:75, 102, chatserver.c:118).   *)
ServerLinked ==
    \A p \in Servers : server[p] = "serving" => chatport = p
=============================================================================
