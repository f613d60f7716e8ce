----------------------------- MODULE EchoServer -----------------------------
(***************************************************************************)
(* epoll/server_echo.c: what a client sends is written back to it.  The    *)
(* call that is to make the sockets nonblocking passes the flags to fcntl  *)
(* in place of a command and fails, so a write waits for room, is never    *)
(* short, and the code for what is left over (EPOLLOUT) is never reached.  *)
(***************************************************************************)
EXTENDS SocketServer

CONSTANT Room           \* echoes that a client need not have read

EchoInit == /\ SocketInit
            /\ at = "wait" /\ i = 0
            /\ table = <<>> /\ events = {}

EchoReady == {f \in {Sock} \cup Open : \/ f = Sock /\ backlog # <<>>
                                       \/ f \in Fds /\ Readable(f)}

EchoWait ==
    /\ at = "wait"
    /\ EchoReady # {}
    /\ events' = EchoReady
    /\ at' = "events"
    /\ UNCHANGED <<netVars, typed, i, table>>

Others(f) == /\ events' = events \ {f}
             /\ at' = IF events = {f} THEN "wait" ELSE "events"

EchoAccept == /\ at = "events" /\ Sock \in events
              /\ \E f \in Fds : AcceptAs(f)
              /\ Others(Sock)
              /\ UNCHANGED <<pending, sent, got, typed, i, table>>

EchoGone(f) == /\ at = "events" /\ f \in events
               /\ ReadError(f) \/ ReadEnd(f)
               /\ Others(f)
               /\ UNCHANGED <<i, table>>

EchoRead(f) == /\ at = "events" /\ f \in events
               /\ ReadData(f)
               /\ at' = "echo" /\ i' = f
               /\ UNCHANGED <<table, events>>

(* The write waits for room at a client that does not read.  If it is told *)
(* an error it leaves the loop over the events.                            *)
HasRoom(f) == conn[desc[f]] = "on" => got[desc[f]] < Room
OnceTo(f)  == [g \in Fds |-> IF g = f THEN 1 ELSE 0]

EchoWrite == /\ at = "echo" /\ HasRoom(i)
             /\ Wrote(OnceTo(i))
             /\ IF conn[desc[i]] = "reset" THEN at' = "wait" /\ events' = {}
                                           ELSE Others(i)
             /\ i' = 0
             /\ UNCHANGED <<desc, backlog, pending, sent, typed, table>>

EchoDies == /\ at = "echo" /\ SigPipe(OnceTo(i))
            /\ at' = "killed"
            /\ UNCHANGED <<netVars, typed, i, table, events>>

EchoStep == \/ EchoWait \/ EchoAccept \/ EchoWrite \/ EchoDies
            \/ \E f \in Fds : EchoGone(f) \/ EchoRead(f)
=============================================================================
