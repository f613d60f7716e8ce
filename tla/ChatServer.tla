----------------------------- MODULE ChatServer -----------------------------
(***************************************************************************)
(* The main loop of ChatRoom/chatserver.c: one thread that selects on all  *)
(* its sockets, serves the readable ones in ascending order from the       *)
(* snapshot tempset, and accepts at most one connection at the end.        *)
(***************************************************************************)
EXTENDS ChatGroups, ChatLink

CONSTANTS
    servsock,       \* the listening socket
    LookupFails,    \* may gethostbyaddr find no name?
    NoClient

ASSUME ServerAssumption == /\ servsock \in Nat
                           /\ \A s \in Socks : servsock < s
                           /\ LookupFails \in BOOLEAN
                           /\ NoClient \notin Clients

VARIABLES
    livesdset,      \* the sockets the server watches
    tempset,        \* those select found ready and the scan has not reached
    peer,           \* [Socks -> the client at the other end]
    backlog         \* the connections the kernel holds for accept

serverVars == <<livesdset, tempset, peer, backlog>>

ServerInit ==
    /\ initgroups
    /\ up = TRUE
    /\ livesdset = {servsock} /\ tempset = {}
    /\ peer = [s \in Socks |-> NoClient]
    /\ backlog = <<>>

Ready(sock) == IF sock = servsock THEN backlog # <<>> ELSE Readable(peer[sock])

(* select returns when something is ready, with everything that is.        *)
Select ==
    /\ up /\ tempset = {}
    /\ tempset' = {s \in livesdset : Ready(s)}
    /\ tempset' # {}
    /\ UNCHANGED <<groupVars, linkVars, livesdset, peer, backlog>>

(* The scan has come to sock, a client's socket.                           *)
Scan(sock) ==
    /\ up
    /\ sock \in tempset \ {servsock}
    /\ sock = Lowest(tempset \ {servsock})
    /\ tempset' = tempset \ {sock}

(* recvpkt returns a packet of the given type from sock.                   *)
Receive(sock, type) ==
    /\ Scan(sock)
    /\ ~Closed(peer[sock])
    /\ Head(toServer[peer[sock]]).type = type
    /\ toServer' = [toServer EXCEPT ![peer[sock]] = Tail(@)]
    /\ UNCHANGED <<open, livesdset, peer, backlog>>

ServeList(sock) ==
    /\ Receive(sock, "LIST_GROUPS")
    /\ sendpkts(<<peer[sock]>>, [type |-> "LIST_GROUPS"])
    /\ UNCHANGED groupVars

joinSilently(sock) ==                                                \* a mutant
    /\ Receive(sock, "JOIN_GROUP")
    /\ LET pkt == Head(toServer[peer[sock]])
       IN  IF admits(pkt.group, pkt.name)
           THEN /\ enter(sock, pkt.group, pkt.name)
                /\ sendpkts(<<peer[sock]>>, [type |-> "JOIN_ACCEPTED"])
           ELSE UNCHANGED <<groupVars, up, toClient>>

ServeJoin(sock) ==
    /\ Receive(sock, "JOIN_GROUP")
    /\ LET pkt == Head(toServer[peer[sock]])
       IN  IF admits(pkt.group, pkt.name)
           THEN /\ enter(sock, pkt.group, pkt.name)
                /\ sendpkts(<<peer[sock]>>, [type |-> "JOIN_ACCEPTED"])
           ELSE /\ UNCHANGED groupVars
                /\ sendpkts(<<peer[sock]>>, [type |-> "JOIN_REJECTED"])

ServeLeave(sock) ==
    /\ Receive(sock, "LEAVE_GROUP")
    /\ leavegroup(sock)
    /\ UNCHANGED <<up, toClient>>

(* relaymsg, to all but the sender; the packet carries the group it was    *)
(* said in.                                                                *)
ServeText(sock) ==
    /\ Receive(sock, "USER_TEXT")
    /\ LET to == recipients(sock)
       IN  sendpkts([i \in DOMAIN to |->
                       IF to[i] = sock THEN NoClient ELSE peer[to[i]]],
                    [type |-> "USER_TEXT", groups |-> findmemberbysock(sock)])
    /\ UNCHANGED groupVars

(* The connection was closed: the member leaves, the socket is closed.     *)
dropOnly(sock) ==                                                    \* a mutant
    /\ Scan(sock)
    /\ Closed(peer[sock])
    /\ livesdset' = livesdset \ {sock}
    /\ peer' = [peer EXCEPT ![sock] = NoClient]
    /\ UNCHANGED <<groupVars, linkVars, backlog>>
Disconnect(sock) ==
    /\ Scan(sock)
    /\ Closed(peer[sock])
    /\ leavegroup(sock)
    /\ livesdset' = livesdset \ {sock}
    /\ peer' = [peer EXCEPT ![sock] = NoClient]
    /\ UNCHANGED <<linkVars, backlog>>

(* Before that the peer's name is printed, through a null pointer if it    *)
(* has none and an uninitialised one if the connection was reset.          *)
DisconnectCrash(sock) ==
    /\ Scan(sock)
    /\ Closed(peer[sock])
    /\ LookupFails \/ Reset(peer[sock])
    /\ up' = FALSE
    /\ UNCHANGED <<groupVars, open, toServer, toClient, livesdset, peer, backlog>>

(* After the scan: accept gives the connection the lowest free descriptor; *)
(* if it fails the server exits.  The new peer's name is printed too.      *)
Accept ==
    /\ up /\ tempset = {servsock}
    /\ tempset' = {}
    /\ LET free == Socks \ livesdset
       IN  \/ /\ free # {}
              /\ livesdset' = livesdset \cup {Lowest(free)}
              /\ peer' = [peer EXCEPT ![Lowest(free)] = Head(backlog)]
              /\ backlog' = Tail(backlog)
              /\ UNCHANGED up
           \/ /\ free = {} \/ LookupFails
              /\ up' = FALSE
              /\ UNCHANGED <<livesdset, peer, backlog>>
    /\ UNCHANGED <<groupVars, open, toServer, toClient>>

Serve(sock) == \/ ServeList(sock) \/ ServeJoin(sock) \/ ServeLeave(sock)
               \/ ServeText(sock) \/ Disconnect(sock) \/ DisconnectCrash(sock)
ServerStep  == Select \/ Accept \/ \E sock \in Socks : Serve(sock)
=============================================================================
