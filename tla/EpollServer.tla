----------------------------- MODULE EpollServer ----------------------------
(***************************************************************************)
(* epoll/server.c: the events of epoll are served one after the other.     *)
(* Beside the epoll set, which is the set of open sockets, the server      *)
(* keeps an array of clients for what is typed, and their number.          *)
(***************************************************************************)
EXTENDS SocketServer

CONSTANTS
    _MAX_NUM_,          \* the length of the array
    Searched,           \* the search for a free entry looks at those below
    Set,                \* memset gives -1 to the entries below this one
    Garbage             \* what the others may hold

VARIABLES
    count,              \* the number of clients
    shifted             \* has a client left while there were others?

epollVars == <<count, shifted>>

EpollInit ==
    /\ SocketInit
    /\ at = "wait" /\ i = 0
    /\ \E rest \in [Set.._MAX_NUM_-1 -> Garbage] :
          table = [k \in 0.._MAX_NUM_-1 |-> IF k < Set THEN NoFd ELSE rest[k]]
    /\ events = {}
    /\ count = 0 /\ shifted = FALSE

-----------------------------------------------------------------------------
(* epoll reports what is ready, in no order to rely on.                    *)
EpollReady == {f \in {Sock, Stdin} \cup Open :
                 \/ f = Sock  /\ backlog # <<>>
                 \/ f = Stdin /\ typed.left > 0
                 \/ f \in Fds /\ Readable(f)}

EpollWait ==
    /\ at = "wait"
    /\ EpollReady # {}
    /\ events' = EpollReady
    /\ at' = "events"
    /\ UNCHANGED <<netVars, typed, i, table, epollVars>>

Remain(rest) == events' = rest /\ at' = IF rest = {} THEN "wait" ELSE "events"

(* The first free entry takes the new descriptor, if there is one.         *)
noBreak(f) == table' = [k \in DOMAIN table |->                        \* a mutant
                          IF k < Searched /\ table[k] = NoFd THEN f ELSE table[k]]
EpollInsert(f) ==
    LET free == {l \in 0..Searched-1 : table[l] = NoFd}
    IN  table' = [k \in DOMAIN table |->
                    IF k \in free /\ \A l \in free : k <= l THEN f ELSE table[k]]

EpollAccept ==
    /\ at = "events" /\ Sock \in events
    /\ \E f \in Fds : AcceptAs(f) /\ EpollInsert(f)
    /\ count' = count + 1
    /\ Remain(events \ {Sock})
    /\ UNCHANGED <<pending, sent, got, typed, i, shifted>>

EpollData(f) ==
    /\ at = "events" /\ f \in events
    /\ ReadData(f)
    /\ Remain(events \ {f})
    /\ UNCHANGED <<i, table, epollVars>>

(* An error leaves the loop over the events; epoll will report the rest    *)
(* again.                                                                  *)
EpollError(f) ==
    /\ at = "events" /\ f \in events
    /\ ReadError(f)
    /\ Remain({})
    /\ UNCHANGED <<i, table, epollVars>>

(* The array without f: its entry is cleared, and what follows is moved    *)
(* one to the front, not once but for every k.                             *)
notShifted(f) == [k \in DOMAIN table |->                              \* a mutant
                    IF k < count /\ table[k] = f THEN NoFd ELSE table[k]]
Without(f) ==
    LET Clear(t, k) == IF t[k] = f THEN [t EXCEPT ![k] = NoFd] ELSE t
        Shift(t, k) == [m \in DOMAIN t |-> IF m \in k..count-1 THEN t[m + 1] ELSE t[m]]
        pass[k \in 0..count] == IF k = 0 THEN table
                                ELSE Shift(Clear(pass[k - 1], k - 1), k - 1)
    IN  pass[count]

EpollEnd(f) ==
    /\ at = "events" /\ f \in events
    /\ ReadEnd(f)
    /\ table' = Without(f)
    /\ count' = count - 1
    /\ shifted' = (shifted \/ count > 1)
    /\ Remain(events \ {f})
    /\ UNCHANGED i

(* A typed line is written to the first count entries of the array.        *)
InArray == [f \in Fds |-> Cardinality({k \in 0..count-1 : table[k] = f})]

EpollLine ==
    /\ at = "events" /\ Stdin \in events
    /\ \/ DieWriting(InArray)
       \/ WriteLine(InArray) /\ Remain(events \ {Stdin}) /\ UNCHANGED <<i, table>>
    /\ UNCHANGED epollVars

EpollStep == \/ EpollWait \/ EpollAccept \/ EpollLine
             \/ \E f \in Fds : EpollData(f) \/ EpollError(f) \/ EpollEnd(f)
=============================================================================
