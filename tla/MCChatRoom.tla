---------------------------- MODULE MCChatRoom ----------------------------
(***************************************************************************)
(* Instances of ChatRoom for TLC.                                          *)
(***************************************************************************)
EXTENDS ChatRoom

(* Two groups: one full with two members, one with one.                    *)
mcCapa  == [g \in 0..1 |-> IF g = 0 THEN 2 ELSE 1]
mcSocks == {5, 6}
=============================================================================
