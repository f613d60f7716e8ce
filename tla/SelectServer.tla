---------------------------- MODULE SelectServer ----------------------------
(***************************************************************************)
(* select/server.c: the loop over an array of descriptors from which each  *)
(* round builds the set for select.  Entry 0 is the listening socket and   *)
(* entry 1 standard input; `table' has the entries from 2 on.              *)
(***************************************************************************)
EXTENDS SocketServer

CONSTANTS
    _FD_NUM_,           \* the length of arr_fd
    Cleared             \* memset gives -1 to the entries below this one

SelectSlots == 2.._FD_NUM_-1

(* memset counts bytes, so the entries from Cleared on keep the 0 they     *)
(* start with, which is the descriptor of standard input.                  *)
arr_fd == [k \in SelectSlots |-> IF k < Cleared THEN NoFd ELSE Stdin]

SelectInit == /\ SocketInit
              /\ at = "wait" /\ i = 2
              /\ table = arr_fd
              /\ events = {}

-----------------------------------------------------------------------------
(* The set is built from the array, and select leaves in it what is ready. *)
setOnce == {f \in {Sock, Stdin} : \/ f = Sock /\ backlog # <<>>        \* a mutant
                                  \/ f = Stdin /\ typed.left > 0}
ReadSet == {f \in {Sock, Stdin} \cup {table[k] : k \in SelectSlots} :
              \/ f = Sock  /\ backlog # <<>>
              \/ f = Stdin /\ typed.left > 0
              \/ f \in Fds /\ Readable(f)}

Select ==
    /\ at = "wait"
    /\ ReadSet # {}
    /\ events' = ReadSet
    /\ at' = "accept"
    /\ UNCHANGED <<netVars, typed, i, table>>

(* The inner loop, which has the index of the outer one, stops at the      *)
(* clients in the set: from k on, with the array a.                        *)
everyOpen(k, a) ==                                                   \* a mutant
    LET chosen == {l \in SelectSlots : l >= k /\ a[l] > 0}
    IN  \/ chosen = {} /\ at' = "stdin" /\ i' = _FD_NUM_
        \/ at' = "scan" /\ \E l \in chosen : i' = l /\ \A m \in chosen : l <= m
SelectFrom(k, a) ==
    LET chosen == {l \in SelectSlots : l >= k /\ a[l] > 0 /\ a[l] \in events}
    IN  \/ chosen = {} /\ at' = "stdin" /\ i' = _FD_NUM_
        \/ at' = "scan" /\ \E l \in chosen : i' = l /\ \A m \in chosen : l <= m

(* The first entry that is -1 takes the new socket; without one it is      *)
(* closed again.  Then comes the inner loop.                               *)
SelectInsert(f) ==
    \E k \in SelectSlots : /\ table[k] = NoFd /\ \A l \in SelectSlots : l < k => table[l] # NoFd
                          /\ table' = [table EXCEPT ![k] = f]

SelectAccept ==
    /\ at = "accept"
    /\ \/ Sock \notin events /\ UNCHANGED <<table, desc, conn, backlog>>
       \/ Sock \in events /\ \E f \in Fds : AcceptAs(f) /\ SelectInsert(f)
       \/ /\ Sock \in events /\ \A k \in SelectSlots : table[k] # NoFd
          /\ AcceptAndClose /\ UNCHANGED table
    /\ SelectFrom(2, table')
    /\ UNCHANGED <<pending, sent, got, typed, events>>

SelectData == /\ at = "scan"
              /\ ReadData(table[i]) \/ ReadError(table[i])
              /\ SelectFrom(i + 1, table)
              /\ UNCHANGED <<table, events>>

SelectEnd == /\ at = "scan"
             /\ ReadEnd(table[i])
             /\ table' = [table EXCEPT ![i] = NoFd]
             /\ SelectFrom(i + 1, table)
             /\ UNCHANGED events

(* After the inner loop the index is one past the array: the test looks at *)
(* whatever is there.  If that is 0 a typed line is sent to all clients.   *)
Listed == [f \in Fds |-> Cardinality({k \in SelectSlots : table[k] = f})]

SelectLine ==
    /\ at = "stdin" /\ Stdin \in events
    /\ \/ DieWriting(Listed)
       \/ WriteLine(Listed) /\ at' = "wait" /\ events' = {} /\ UNCHANGED <<i, table>>

SelectNoLine == /\ at = "stdin"
                /\ at' = "wait" /\ events' = {}
                /\ UNCHANGED <<netVars, typed, i, table>>

SelectStep == \/ Select \/ SelectAccept \/ SelectData \/ SelectEnd
              \/ SelectLine \/ SelectNoLine
=============================================================================
