------------------------------ MODULE MCServers -----------------------------
(* The servers among three clients, of which one sends up to three times. *)
(* The others only listen.                                                 *)
EXTENDS Servers

CONSTANT Sender

MCMaxSends == [c \in Clients |-> IF c = Sender THEN 3 ELSE 0]
=============================================================================
