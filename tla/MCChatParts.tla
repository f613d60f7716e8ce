----------------------------- MODULE MCChatParts -----------------------------
(***************************************************************************)
(* An instance for TLC of two parts of the chat server: the lists of its   *)
(* members and the link under which it is found.  They share neither state *)
(* nor steps and every property is about one of them, so that it is enough *)
(* to let one run while the other is as at the start.                      *)
(***************************************************************************)
EXTENDS MemberList, ChatPort

(* A group of three and one of one, so that members are removed at either  *)
(* end, in the middle and alone.                                           *)
mcCapa  == [g \in 0..1 |-> IF g = 0 THEN 3 ELSE 1]
mcSocks == {5, 6, 7}

PartsInit == Init /\ PortInit
PartsNext == \/ PortInit /\ Next /\ UNCHANGED portVars
             \/ Init /\ PortNext /\ UNCHANGED vars
PartsSpec == PartsInit /\ [][PartsNext]_<<vars, portVars>>
=============================================================================
