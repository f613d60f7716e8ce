----------------------------- MODULE MemberList -----------------------------
(***************************************************************************)
(* How ChatRoom/chatserver.c keeps the members of its groups: a doubly     *)
(* linked list for each group, of nodes that joingroup allocates and       *)
(* leavegroup frees.  The lists implement the sequences of ChatGroups.     *)
(***************************************************************************)
EXTENDS Integers, Sequences, FiniteSets

CONSTANTS
    ngroups, capa, Names, Socks,        \* as in ChatGroups
    Heap,                               \* the nodes calloc can return
    NULL

Groups == 0..ngroups-1

ASSUME HeapAssumption == /\ ngroups \in Nat
                         /\ capa \in [Groups -> Nat]
                         /\ Socks \subseteq Nat
                         /\ IsFiniteSet(Heap) /\ NULL \notin Heap

VARIABLES
    first,          \* [Groups -> node], the field mems of a group
    occu,           \* [Groups -> number of members, as the server counts it]
    memb,           \* [Heap -> the fields of the node]
    allocated       \* the nodes not freed

vars == <<first, occu, memb, allocated>>

Member == [name : Names, sock : Socks, grid : Groups,
           next : Heap \cup {NULL}, prev : Heap \cup {NULL}]

(* What an unallocated node holds; nothing reads it (NodesAreMembers).     *)
Blank == CHOOSE m \in Member : m.next = NULL /\ m.prev = NULL

Init == /\ first = [g \in Groups |-> NULL]
        /\ occu = [g \in Groups |-> 0]
        /\ memb = [m \in Heap |-> Blank]
        /\ allocated = {}

(* The nodes that a loop over a list visits, in order, if it starts at f   *)
(* and mb are the fields; on a list that is not cut short by NULL it       *)
(* visits more than there are.                                             *)
Chain(mb, f) ==
    LET From[k \in 0..Cardinality(Heap)+1] ==
          [m \in Heap \cup {NULL} |->
             IF m = NULL \/ k = 0 THEN <<>>
             ELSE <<m>> \o From[k - 1][mb[m].next]]
    IN  From[Cardinality(Heap) + 1][f]

List(g)    == Chain(memb, first[g])
Visited(g) == {List(g)[i] : i \in DOMAIN List(g)}

findmemberbyname(n) == \E g \in Groups : \E m \in Visited(g) : memb[m].name = n

(* The first node for sock, of the first group that has one.               *)
Lowest(S) == CHOOSE x \in S : \A y \in S : x <= y

Positions(g, sock) == {i \in DOMAIN List(g) : memb[List(g)[i]].sock = sock}
findmemberbysock(sock) ==
    LET G == {g \in Groups : Positions(g, sock) # {}}
        g == Lowest(G)
    IN  IF G = {} THEN NULL ELSE List(g)[Lowest(Positions(g, sock))]

(* joingroup: the new node becomes the first of its list.                  *)
forgetBack(m, g) == memb                                             \* a mutant
BackFrom(m, g) ==
    IF first[g] = NULL THEN memb ELSE [memb EXCEPT ![first[g]].prev = m]

joingroup(sock, g, n) ==
    /\ ~findmemberbyname(n)
    /\ capa[g] # occu[g]
    /\ \E m \in Heap \ allocated :
          /\ allocated' = allocated \cup {m}
          /\ memb' = [BackFrom(m, g) EXCEPT ![m] =
                        [name |-> n, sock |-> sock, grid |-> g,
                         next |-> first[g], prev |-> NULL]]
          /\ first' = [first EXCEPT ![g] = m]
    /\ occu' = [occu EXCEPT ![g] = @ + 1]

(* leavegroup: its neighbours are linked to each other.                    *)
skipHead(m) ==                                                       \* a mutant
    [x \in Heap |->
       IF x = memb[m].next THEN [memb[x] EXCEPT !.prev = memb[m].prev]
       ELSE memb[x]]
Unlinked(m) ==
    [x \in Heap |->
       IF x = memb[m].next THEN [memb[x] EXCEPT !.prev = memb[m].prev]
       ELSE IF x = memb[m].prev /\ first[memb[m].grid] # m
            THEN [memb[x] EXCEPT !.next = memb[m].next]
       ELSE memb[x]]

leavegroup(sock) ==
    LET m == findmemberbysock(sock)
    IN  /\ m # NULL
        /\ memb' = [Unlinked(m) EXCEPT ![m] = Blank]
        /\ first' = IF first[memb[m].grid] = m
                    THEN [first EXCEPT ![memb[m].grid] = memb[m].next]
                    ELSE first
        /\ occu' = [occu EXCEPT ![memb[m].grid] = @ - 1]
        /\ allocated' = allocated \ {m}

Next == \E sock \in Socks : \/ \E g \in Groups, n \in Names : joingroup(sock, g, n)
                            \/ leavegroup(sock)

Spec == Init /\ [][Next]_vars

-----------------------------------------------------------------------------
(* The nodes that are linked into the lists are those that are allocated,  *)
(* each in the list of its group and in no other: none is used after it    *)
(* was freed, none is lost (chatserver.c:412-427, 447-466).                *)
NodesAreMembers ==
    /\ UNION {Visited(g) : g \in Groups} = allocated
    /\ \A g \in Groups : \A m \in Visited(g) : memb[m].grid = g

(* prev leads back where next leads on, in every list, so that the next    *)
(* removal unlinks the right neighbours (chatserver.c:448-456).            *)
BackLinks ==
    \A g \in Groups :
        LET l == List(g)
        IN  \A i \in DOMAIN l :
               memb[l[i]].prev = IF i = 1 THEN NULL ELSE l[i - 1]

(* The lists behave as the sequences of ChatGroups.                        *)
Table == [g \in Groups |->
            [i \in DOMAIN List(g) |-> [name |-> memb[List(g)[i]].name,
                                       sock |-> memb[List(g)[i]].sock]]]
CG == INSTANCE ChatGroups WITH mems <- Table
ImplementsGroups == CG!GroupsSpec
=============================================================================
