----------------------------- MODULE ChatGroups -----------------------------
(***************************************************************************)
(* The table of chat rooms of ChatRoom/chatserver.c: for each group, known *)
(* by its index grid, the list of its members (newest first), its capacity *)
(* and the separately kept count of its members.                           *)
(***************************************************************************)
EXTENDS Integers, Sequences

CONSTANTS
    ngroups,        \* the number of groups in the groups file
    capa,           \* their capacities
    Names,          \* the nicknames users pick
    Socks           \* the descriptors the server can be given

Groups == 0..ngroups-1

ASSUME GroupsAssumption == /\ ngroups \in Nat
                           /\ capa \in [Groups -> Nat]
                           /\ Socks \subseteq Nat

VARIABLES
    mems,           \* [Groups -> sequence of members]
    occu            \* [Groups -> number of members, as the server counts it]

groupVars == <<mems, occu>>

Member == [name : Names, sock : Socks]

Lowest(S) == CHOOSE x \in S : \A y \in S : x <= y

initgroups == /\ mems = [g \in Groups |-> <<>>]
              /\ occu = [g \in Groups |-> 0]

(* Is somebody called n, in any group?                                     *)
inFirstGroup(n)     == \E i \in DOMAIN mems[0] : mems[0][i].name = n  \* a mutant
findmemberbyname(n) ==
    \E g \in Groups : \E i \in DOMAIN mems[g] : mems[g][i].name = n

(* The groups and positions at which sock is a member; the code takes the  *)
(* first one.                                                              *)
Positions(g, sock)     == {i \in DOMAIN mems[g] : mems[g][i].sock = sock}
findmemberbysock(sock) == {g \in Groups : Positions(g, sock) # {}}

(* May n enter the group the user named?  Any g outside Groups is a name   *)
(* that findgroup does not find.                                           *)
admits(g, n) ==
    g \in Groups /\ ~findmemberbyname(n) /\ capa[g] # occu[g]

(* joingroup, once it admits the member.                                   *)
enter(sock, g, n) ==
    /\ mems' = [mems EXCEPT ![g] = <<[name |-> n, sock |-> sock]>> \o @]
    /\ occu' = [occu EXCEPT ![g] = @ + 1]

Without(s, i) == SubSeq(s, 1, i - 1) \o SubSeq(s, i + 1, Len(s))

leaveUncounted(sock) ==                                              \* a mutant
    IF findmemberbysock(sock) = {} THEN UNCHANGED groupVars
    ELSE LET g == Lowest(findmemberbysock(sock))
         IN  /\ mems' = [mems EXCEPT ![g] =
                           Without(@, Lowest(Positions(g, sock)))]
             /\ UNCHANGED occu

leaveNewest(sock) ==                                                 \* a mutant
    IF findmemberbysock(sock) = {} THEN UNCHANGED groupVars
    ELSE LET g == Lowest(findmemberbysock(sock))
         IN  /\ mems' = [mems EXCEPT ![g] = Tail(@)]
             /\ occu' = [occu EXCEPT ![g] = @ - 1]

leavegroup(sock) ==
    IF findmemberbysock(sock) = {} THEN UNCHANGED groupVars
    ELSE LET g == Lowest(findmemberbysock(sock))
         IN  /\ mems' = [mems EXCEPT ![g] =
                           Without(@, Lowest(Positions(g, sock)))]
             /\ occu' = [occu EXCEPT ![g] = @ - 1]

(* The sockets relaymsg goes through, in its order: the sender's group;    *)
(* none if the sender is in no group.                                      *)
everyone(sock) ==                                                    \* a mutant
    [i \in 1..Len(mems[0] \o mems[1]) |-> (mems[0] \o mems[1])[i].sock]
recipients(sock) ==
    IF findmemberbysock(sock) = {} THEN <<>>
    ELSE LET ms == mems[Lowest(findmemberbysock(sock))]
         IN  [i \in DOMAIN ms |-> ms[i].sock]

(* What the server does to the table, whatever is asked of it.             *)
GroupsNext ==
    \E sock \in Socks :
        \/ \E g \in Groups, n \in Names : admits(g, n) /\ enter(sock, g, n)
        \/ leavegroup(sock)

GroupsSpec == initgroups /\ [][GroupsNext]_groupVars

-----------------------------------------------------------------------------
(* The count the server keeps of a group, which it tests for "full" and    *)
(* sends to clients, is the length of its list, and no group exceeds its   *)
(* capacity (chatserver.c:403-404, 431, 462).                              *)
Occupancy == \A g \in Groups : occu[g] = Len(mems[g]) /\ occu[g] <= capa[g]

(* No two members, of one group or of two, have the same nickname          *)
(* (chatserver.c:392-401).                                                 *)
NamesUnique ==
    \A g, h \in Groups : \A i \in DOMAIN mems[g], j \in DOMAIN mems[h] :
        mems[g][i].name = mems[h][j].name => g = h /\ i = j
=============================================================================
