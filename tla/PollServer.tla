----------------------------- MODULE PollServer -----------------------------
(***************************************************************************)
(* poll/server.c: the loop over a table of struct pollfd, of which the     *)
(* entries up to maxi are polled.  Entry 0 is the listening socket and     *)
(* entry 1 standard input; `table' is the field fd of the entries from 2   *)
(* on, and `events' the field revents of all: it is only written for the   *)
(* entries that poll is given.                                             *)
(***************************************************************************)
EXTENDS SocketServer

CONSTANTS
    _MAX_FD_NUM_,       \* the length of the table
    Uninitialised       \* what revents may hold before poll has written it

VARIABLE maxi           \* the highest entry that is polled

PollSlots == 2.._MAX_FD_NUM_-1

PollInit ==
    /\ SocketInit
    /\ at = "wait" /\ i = 2
    /\ table = [k \in PollSlots |-> NoFd]
    /\ events \in [0.._MAX_FD_NUM_-1 -> Uninitialised]
    /\ maxi = 0

-----------------------------------------------------------------------------
PollReady(k) ==
    CASE k = 0 -> IF backlog # <<>> THEN {"IN"} ELSE {}
      [] k = 1 -> IF typed.left > 0 THEN {"IN"} ELSE {}
      [] OTHER -> IF table[k] = NoFd THEN {}
                  ELSE IF Readable(table[k]) THEN {"IN", "OUT"} ELSE {"OUT"}

(* poll waits until one of the first maxi + 1 entries is ready, and leaves *)
(* the others as they are.                                                 *)
Poll ==
    /\ at = "wait"
    /\ maxi < _MAX_FD_NUM_
    /\ \E k \in 0..maxi : PollReady(k) # {}
    /\ events' = [k \in DOMAIN events |-> IF k <= maxi THEN PollReady(k)
                                                       ELSE events[k]]
    /\ at' = "accept"
    /\ UNCHANGED <<netVars, typed, i, table, maxi>>

(* The table is given to poll with one entry too many.                     *)
PollBeyond ==
    /\ at = "wait"
    /\ maxi >= _MAX_FD_NUM_
    /\ at' = "undefined"
    /\ UNCHANGED <<netVars, typed, i, table, events, maxi>>

(* The first free slot takes the socket, and maxi is raised to the index   *)
(* at which the search ended.  If that is the length of the table the      *)
(* socket is closed again and the rest of the round is skipped.            *)
FirstFree(j) == /\ j \in PollSlots => table[j] = NoFd
                /\ \A k \in PollSlots : k < j => table[k] # NoFd
Raised(j) == IF j > maxi THEN j ELSE maxi

PollAccept ==
    /\ at = "accept" /\ "IN" \in events[0]
    /\ \E j \in 2.._MAX_FD_NUM_ :
          /\ FirstFree(j)
          /\ maxi' = Raised(j)
          /\ IF j = _MAX_FD_NUM_
             THEN AcceptAndClose /\ at' = "wait" /\ UNCHANGED table
             ELSE /\ at' = "stdin"
                  /\ \E f \in Fds : AcceptAs(f) /\ table' = [table EXCEPT ![j] = f]
    /\ UNCHANGED <<pending, sent, got, typed, i, events>>

PollNoAccept == /\ at = "accept" /\ "IN" \notin events[0]
                /\ at' = "stdin"
                /\ UNCHANGED <<netVars, typed, i, table, events, maxi>>

(* The loop over the slots stops at those that are reported readable.      *)
PollFrom(k) ==
    LET chosen == {l \in PollSlots : l >= k /\ table[l] # NoFd /\ "IN" \in events[l]}
    IN  \/ chosen = {} /\ at' = "wait" /\ i' = _MAX_FD_NUM_
        \/ at' = "scan" /\ \E l \in chosen : i' = l /\ \A m \in chosen : l <= m

(* A typed line is written to the clients reported writable, up to one     *)
(* that answers with an error.                                             *)
Writable ==
    LET out  == {k \in PollSlots : table[k] # NoFd /\ "OUT" \in events[k]}
        fail == {k \in out : conn[desc[table[k]]] = "reset"}
    IN  [f \in Fds |-> Cardinality({k \in out : /\ table[k] = f
                                              /\ \A l \in fail : k <= l})]

PollLine ==
    /\ at = "stdin" /\ "IN" \in events[1]
    /\ \/ DieWriting(Writable)
       \/ WriteLine(Writable) /\ PollFrom(2) /\ UNCHANGED <<table, events>>
    /\ UNCHANGED maxi

PollNoLine ==
    /\ at = "stdin" /\ "IN" \notin events[1]
    /\ PollFrom(2)
    /\ UNCHANGED <<netVars, typed, table, events, maxi>>

(* A read waits if its slot is not readable any more.                      *)
PollData == /\ at = "scan"
            /\ ReadData(table[i]) \/ ReadError(table[i])
            /\ PollFrom(i + 1)
            /\ UNCHANGED <<table, events, maxi>>

(* One entry less is polled, whichever it was that is closed.              *)
PollEnd == /\ at = "scan"
           /\ ReadEnd(table[i])
           /\ table' = [table EXCEPT ![i] = NoFd]
           /\ maxi' = maxi - 1
           /\ PollFrom(i + 1)
           /\ UNCHANGED events

PollStep == \/ Poll \/ PollBeyond \/ PollAccept \/ PollNoAccept
            \/ PollLine \/ PollNoLine \/ PollData \/ PollEnd
=============================================================================
