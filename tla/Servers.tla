------------------------------- MODULE Servers ------------------------------
(***************************************************************************)
(* Each of the four servers among the same clients.  `server' says which   *)
(* of the programs runs; it is chosen at the start.                        *)
(***************************************************************************)
EXTENDS PollServer, SelectServer, EpollServer, EchoServer

VARIABLE server

vars == <<socketVars, maxi, epollVars, server>>

ASSUME ServersAssumption ==
    /\ Uninitialised \subseteq SUBSET {"IN", "OUT"}
    /\ {_MAX_FD_NUM_, _FD_NUM_} \subseteq Nat /\ _MAX_FD_NUM_ > 2 /\ _FD_NUM_ > 2
    /\ {Cleared, Searched, Set, Room} \subseteq Nat
    /\ _MAX_NUM_ \in Nat /\ _MAX_NUM_ > Cardinality(Clients)
    /\ Searched <= _MAX_NUM_ /\ Set <= _MAX_NUM_
    /\ Garbage \subseteq Int \ Fds

Init == \/ /\ server = "poll" /\ PollInit
           /\ count = 0 /\ shifted = FALSE
        \/ /\ server = "select" /\ SelectInit
           /\ maxi = 0 /\ count = 0 /\ shifted = FALSE
        \/ /\ server = "epoll" /\ EpollInit
           /\ maxi = 0
        \/ /\ server = "echo" /\ EchoInit
           /\ maxi = 0 /\ count = 0 /\ shifted = FALSE

ServerStep ==
    /\ \/ server = "poll"   /\ PollStep   /\ UNCHANGED epollVars
       \/ server = "select" /\ SelectStep /\ UNCHANGED <<maxi, epollVars>>
       \/ server = "epoll"  /\ EpollStep  /\ UNCHANGED maxi
       \/ server = "echo"   /\ EchoStep   /\ UNCHANGED <<maxi, epollVars>>
    /\ UNCHANGED server

Next == \/ ServerStep
        \/ ClientStep /\ UNCHANGED <<maxi, epollVars, server>>

Spec == Init /\ [][Next]_vars /\ WF_vars(ServerStep)

-----------------------------------------------------------------------------
(* The array of poll/ and of select/ holds each socket the server has open *)
(* exactly once and no closed one, whoever comes, leaves or is turned      *)
(* away; the count of epoll/ is the number of open sockets                 *)
(* (poll/server.c:94-113, 161-166; select/server.c:117-130, 142-147;       *)
(* epoll/server.c:91, 140).                                                *)
TableHolds == /\ {table[k] : k \in DOMAIN table} \cap Fds = Open
              /\ \A k, l \in DOMAIN table :
                    table[k] = table[l] /\ table[k] \in Fds => k = l

NoDescriptorLost == /\ server \in {"poll", "select"} => TableHolds
                    /\ server = "epoll" => count = Cardinality(Open)

(* The broadcast of epoll/ stops at count, and a new client takes the      *)
(* first free entry: none is beyond count, however the shifting at         *)
(* 129-139 leaves the array, while fewer clients are connected than memset *)
(* has cleared entries for (epoll/server.c:93-100, 129-140, 157).          *)
CountCoversArray == server = "epoll" => \A k \in count..Set-1 : table[k] = NoFd

(* Sockets block, so a read must be of what was reported: select/ accepts  *)
(* before it reads, and in epoll/ and the echo server an event outlives    *)
(* those that are served before it, although descriptors are closed and    *)
(* given out again in the same round (select/server.c:107-154,             *)
(* epoll/server.c:77-149, epoll/server_echo.c:126-191).                    *)
NeverBlocked ==
    /\ server = "select" /\ at = "scan" => Readable(table[i])
    /\ server \in {"epoll", "echo"} =>
          \A f \in events \cap Fds : Readable(f) \/ (at = "echo" /\ f = i)

(* A typed line reaches every connected client once: always in select/,    *)
(* in epoll/ until a client leaves others behind (epoll/server.c:156,      *)
(* `write to all clients'; select/server.c:166-180).                       *)
AllServed == \/ server = "select"
             \/ server = "epoll" /\ ~shifted /\ count <= Set

LineToAll ==
    [][AllServed /\ typed'.left < typed.left /\ at' # "killed"
       => \A f \in Open : conn[desc[f]] = "on" => got'[desc[f]] = got[desc[f]] + 1]_vars

(* What a connected client sends is read, unless the server has died or    *)
(* waits for somebody else: poll/ for a slot whose revents is stale, the   *)
(* echo server for a client that does not read; or unless poll/ has        *)
(* stopped polling the client's slot (poll/server.c:155-172,               *)
(* select/server.c:135-154, epoll/server.c:116-149,                        *)
(* epoll/server_echo.c:153-191).                                           *)
Waits == \/ server = "poll" /\ at = "stdin" /\ "IN" \in events[1] /\ typed.left = 0
         \/ server = "poll" /\ at = "scan" /\ ~Readable(table[i])
         \/ server = "echo" /\ at = "echo" /\ ~HasRoom(i)
Unpolled(c) == server = "poll" /\ \E k \in PollSlots : /\ k > maxi /\ table[k] \in Fds
                                                      /\ desc[table[k]] = c

DataRead ==
    \A c \in {d \in Clients : MaxSends[d] > 0} :
        pending[c] > 0 /\ (\E f \in Fds : desc[f] = c)
            ~> pending[c] = 0 \/ at \in {"killed", "undefined"} \/ Waits \/ Unpolled(c)
=============================================================================
