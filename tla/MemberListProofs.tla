-------------------------- MODULE MemberListProofs --------------------------
(***************************************************************************)
(* The linked lists of ChatRoom/chatserver.c implement the table of chat   *)
(* rooms, for any number of groups, any capacities, names, sockets and any *)
(* finite heap.  The invariant says that there is a sequence of nodes for  *)
(* each group through which next and prev lead forward and back.           *)
(***************************************************************************)
EXTENDS MemberList, SequenceTheorems, FiniteSetTheorems, WellFoundedInduction, TLAPS

(* What is proved of the table of groups holds of the lists.               *)
CGP == INSTANCE ChatGroupsProofs WITH mems <- Table

-----------------------------------------------------------------------------
(* A non-empty set of numbers has a smallest element.                      *)
LEMMA Smallest ==
    ASSUME NEW T, T \subseteq Nat, NEW x \in T
    PROVE  \E y \in T : \A z \in T : y <= z
<1>. DEFINE R == {p \in Nat \X Nat : p[1] < p[2]}
<1>1. OpToRel(<, Nat) = R BY DEF OpToRel
<1>2. IsWellFoundedOn(R, Nat) BY <1>1, NatLessThanWellFounded
<1>3. PICK y \in T : \A z \in T : <<z, y>> \notin R BY <1>2, WFMin
<1>4. \A z \in T : ~(z < y) BY <1>3
<1>5. \A z \in T : y <= z BY <1>4
<1>. QED BY <1>5

(* The node at position i of a list whose nodes are s; beyond its ends     *)
(* there is none.                                                          *)
Node(s, i) == IF i \in 1..Len(s) THEN s[i] ELSE NULL

(* One round of the loop.                                                  *)
Ahead(mb, F, k) ==
    [m \in Heap \cup {NULL} |->
       IF m = NULL \/ k = 0 THEN <<>> ELSE <<m>> \o F[k - 1][mb[m].next]]

Walks(mb, N, F) ==
    F = [k \in 0..N |->
           [m \in Heap \cup {NULL} |->
              IF m = NULL \/ k = 0 THEN <<>> ELSE <<m>> \o F[k - 1][mb[m].next]]]

LEMMA ChainsExist ==
    ASSUME NEW mb, NEW N \in Nat
    PROVE  \E F : Walks(mb, N, F)
<1>. DEFINE Goes(F, n) == DOMAIN F = 0..n /\ \A k \in 0..n : F[k] = Ahead(mb, F, k)
            Has(n) == \E F : Goes(F, n)
            Bad == {n \in 0..N : ~Has(n)}
<1>1. ASSUME NEW F, NEW G, NEW k, k # 0 => F[k - 1] = G[k - 1]
      PROVE  Ahead(mb, F, k) = Ahead(mb, G, k)
  BY <1>1 DEF Ahead
<1>2. Has(N)
  <2>1. SUFFICES ASSUME N \in Bad PROVE FALSE
    OBVIOUS
  <2>2. Bad \subseteq Nat OBVIOUS
  <2>3. PICK n \in Bad : \A z \in Bad : n <= z BY <2>1, <2>2, Smallest
  <2>4. n \in 0..N /\ ~Has(n) OBVIOUS
  <2>5. \E F : n # 0 => Goes(F, n - 1)
    <3>1. n # 0 => n - 1 \in 0..N /\ n - 1 \notin Bad BY <2>3, <2>4
    <3>2. n # 0 => Has(n - 1) BY <3>1
    <3>. QED BY <3>2
  <2>6. PICK F : n # 0 => Goes(F, n - 1) BY <2>5
  <2>. DEFINE G == [k \in 0..n |-> IF k = n THEN Ahead(mb, F, n) ELSE F[k]]
  <2>7. ASSUME NEW k \in 0..n PROVE G[k] = Ahead(mb, G, k)
    <3>1. k # 0 => k - 1 \in 0..n /\ k - 1 # n BY <2>4
    <3>2. k # 0 => G[k - 1] = F[k - 1] BY <3>1
    <3>. HIDE DEF Goes
    <3>3. Ahead(mb, G, k) = Ahead(mb, F, k)
      <4>. HIDE DEF G
      <4>. QED BY <1>1, <3>2
    <3>4. CASE k = n
      <4>1. G[k] = Ahead(mb, F, n) BY <3>4
      <4>. QED BY <3>3, <3>4, <4>1
    <3>5. CASE k # n
      <4>1. n # 0 /\ k \in 0..n-1 BY <2>4, <3>5
      <4>2. G[k] = F[k] BY <3>5
      <4>3. F[k] = Ahead(mb, F, k) BY <2>6, <4>1 DEF Goes
      <4>. QED BY <3>3, <4>2, <4>3
    <3>. QED BY <3>4, <3>5
  <2>8. DOMAIN G = 0..n OBVIOUS
  <2>. HIDE DEF G
  <2>9. Goes(G, n) BY <2>7, <2>8
  <2>. QED BY <2>4, <2>9
<1>3. PICK F : Goes(F, N) BY <1>2
<1>. DEFINE E == [k \in 0..N |->
                    [m \in Heap \cup {NULL} |->
                       IF m = NULL \/ k = 0 THEN <<>>
                       ELSE <<m>> \o F[k - 1][mb[m].next]]]
<1>4. \A k \in 0..N : E[k] = F[k] BY <1>3 DEF Ahead
<1>5. \A k \in 0..N : k # 0 => k - 1 \in 0..N OBVIOUS
<1>6. \A k \in 0..N : Ahead(mb, E, k) = Ahead(mb, F, k)
  <2>1. SUFFICES ASSUME NEW k \in 0..N PROVE Ahead(mb, E, k) = Ahead(mb, F, k)
    OBVIOUS
  <2>2. k # 0 => E[k - 1] = F[k - 1] BY <1>4, <1>5
  <2>. HIDE DEF E
  <2>. QED BY <1>1, <2>2
<1>7. \A k \in 0..N : E[k] = Ahead(mb, E, k) BY <1>3, <1>4, <1>6
<1>8. E = [k \in 0..N |-> Ahead(mb, E, k)]
  <2>1. DOMAIN E = 0..N /\ E = [k \in 0..N |-> E[k]] OBVIOUS
  <2>. HIDE DEF E
  <2>. QED BY <1>7, <2>1
<1>. HIDE DEF E
<1>9. Walks(mb, N, E) BY <1>8 DEF Ahead, Walks
<1>. QED BY <1>9

(* Putting the node back in front of what follows it.                      *)
LEMMA FromHere ==
    ASSUME NEW s \in Seq(Heap), NEW i \in 1..Len(s)
    PROVE  SubSeq(s, i, Len(s)) = <<s[i]>> \o SubSeq(s, i + 1, Len(s))
<1>. DEFINE a == SubSeq(s, i, Len(s))
            b == SubSeq(s, i + 1, Len(s))
<1>1. Len(s) \in Nat /\ \A j \in 1..Len(s) : s[j] \in Heap
  BY LenProperties, ElementOfSeq
<1>2. /\ a \in Seq(Heap) /\ Len(a) = Len(s) - i + 1
      /\ \A j \in 1..Len(s)-i+1 : a[j] = s[i+j-1]
  <2>1. i \in Int /\ Len(s) \in Int /\ \A j \in i..Len(s) : s[j] \in Heap BY <1>1
  <2>2. /\ a \in Seq(Heap) /\ Len(a) = IF i <= Len(s) THEN Len(s)-i+1 ELSE 0
        /\ \A j \in 1..Len(s)-i+1 : a[j] = s[i+j-1]
    BY <2>1, SubSeqProperties
  <2>. QED BY <2>2
<1>3. /\ b \in Seq(Heap) /\ Len(b) = Len(s) - i
      /\ \A j \in 1..Len(s)-i : b[j] = s[i+j]
  <2>1. i + 1 \in Int /\ Len(s) \in Int /\ \A j \in i+1..Len(s) : s[j] \in Heap BY <1>1
  <2>2. /\ b \in Seq(Heap) /\ Len(b) = IF i+1 <= Len(s) THEN Len(s)-(i+1)+1 ELSE 0
        /\ \A j \in 1..Len(s)-(i+1)+1 : b[j] = s[(i+1)+j-1]
    BY <2>1, SubSeqProperties
  <2>. QED BY <1>1, <2>2
<1>. HIDE DEF a, b
<1>4. <<s[i]>> \in Seq(Heap) /\ Len(<<s[i]>>) = 1 /\ <<s[i]>>[1] = s[i] BY <1>1
<1>5. /\ <<s[i]>> \o b \in Seq(Heap) /\ Len(<<s[i]>> \o b) = 1 + Len(b)
      /\ \A j \in 1..1+Len(b) : (<<s[i]>> \o b)[j] = IF j <= 1 THEN <<s[i]>>[j] ELSE b[j - 1]
  BY <1>3, <1>4, ConcatProperties
<1>6. ASSUME NEW j \in 1..Len(a) PROVE a[j] = (<<s[i]>> \o b)[j]
  <2>1. CASE j = 1 BY <1>1, <1>2, <1>4, <1>5, <1>3, <2>1
  <2>2. CASE j # 1
    <3>1. j - 1 \in 1..Len(s)-i /\ j \in 1..1+Len(b) /\ ~(j <= 1) /\ i + (j - 1) = i + j - 1
      BY <1>1, <1>2, <1>3, <2>2
    <3>. QED BY <1>2, <1>3, <1>5, <3>1
  <2>. QED BY <2>1, <2>2
<1>7. Len(a) = Len(<<s[i]>> \o b) BY <1>1, <1>2, <1>3, <1>5
<1>8. a = <<s[i]>> \o b BY <1>2, <1>5, <1>6, <1>7, SeqEqual
<1>. QED BY <1>8 DEF a, b

(* The loop visits s if next leads from each node of s to the one after    *)
(* it, and no node is twice in s.                                          *)
LEMMA ChainIs ==
    ASSUME NEW mb, NEW s \in Seq(Heap),
           \A i, j \in 1..Len(s) : s[i] = s[j] => i = j,
           \A i \in 1..Len(s) : mb[s[i]].next = Node(s, i + 1)
    PROVE  Chain(mb, Node(s, 1)) = s
<1>. DEFINE N == Cardinality(Heap) + 1
            From == CHOOSE F : F = [k \in 0..N |->
                         [m \in Heap \cup {NULL} |->
                            IF m = NULL \/ k = 0 THEN <<>>
                            ELSE <<m>> \o F[k - 1][mb[m].next]]]
<1>1. Chain(mb, Node(s, 1)) = From[N][Node(s, 1)] BY DEF Chain
<1>2. N \in Nat /\ Len(s) \in Nat /\ Len(s) <= Cardinality(Heap)
  <2>1. Cardinality(Heap) \in Nat BY HeapAssumption, FS_CardinalityType
  <2>2. s \in [1..Len(s) -> Heap] /\ Len(s) \in Nat BY LenProperties
  <2>3. IsFiniteSet(1..Len(s)) /\ Cardinality(1..Len(s)) = Len(s)
    <3>1. 1 \in Int /\ Len(s) \in Int BY <2>2
    <3>2. /\ IsFiniteSet(1..Len(s))
          /\ Cardinality(1..Len(s)) = IF 1 > Len(s) THEN 0 ELSE Len(s) - 1 + 1
      BY <3>1, FS_Interval
    <3>3. ~(1 > Len(s)) => Len(s) - 1 + 1 = Len(s) BY <2>2
    <3>4. 1 > Len(s) => Len(s) = 0 BY <2>2
    <3>. QED BY <3>2, <3>3, <3>4
  <2>4. ~(Cardinality(Heap) < Cardinality(1..Len(s)))
    <3>1. Cardinality(Heap) < Cardinality(1..Len(s)) =>
            \E i, j \in 1..Len(s) : i # j /\ s[i] = s[j]
      BY <2>2, <2>3, HeapAssumption, FS_PigeonHole
    <3>. QED BY <3>1
  <2>. QED BY <2>1, <2>2, <2>3, <2>4
<1>. HIDE DEF N
<1>3. From = [k \in 0..N |->
                [m \in Heap \cup {NULL} |->
                   IF m = NULL \/ k = 0 THEN <<>>
                   ELSE <<m>> \o From[k - 1][mb[m].next]]]
  <2>1. \E F : Walks(mb, N, F) BY <1>2, ChainsExist
  <2>2. Walks(mb, N, CHOOSE F : Walks(mb, N, F)) BY <2>1, Zenon
  <2>3. From = CHOOSE F : Walks(mb, N, F) BY Zenon DEF Walks
  <2>4. Walks(mb, N, From) BY <2>2, <2>3, Zenon
  <2>. HIDE DEF From
  <2>. QED BY <2>4 DEF Walks
<1>. HIDE DEF From
<1>4. \A k \in 0..N, m \in Heap \cup {NULL} :
        From[k][m] = IF m = NULL \/ k = 0 THEN <<>> ELSE <<m>> \o From[k - 1][mb[m].next]
  <2>. DEFINE Row(k) == [m \in Heap \cup {NULL} |->
                   IF m = NULL \/ k = 0 THEN <<>>
                   ELSE <<m>> \o From[k - 1][mb[m].next]]
  <2>1. From = [k \in 0..N |-> Row(k)] BY <1>3
  <2>. HIDE DEF Row
  <2>2. \A k \in 0..N : From[k] = Row(k) BY <2>1
  <2>3. SUFFICES ASSUME NEW k \in 0..N, NEW m \in Heap \cup {NULL}
        PROVE  From[k][m] = IF m = NULL \/ k = 0 THEN <<>> ELSE <<m>> \o From[k - 1][mb[m].next]
    OBVIOUS
  <2>4. From[k][m] = Row(k)[m] BY <2>2
  <2>. QED BY <2>4 DEF Row
<1>5. \A i \in 1..Len(s) : Node(s, i) = s[i] /\ s[i] \in Heap /\ s[i] # NULL
  BY ElementOfSeq, HeapAssumption DEF Node
<1>6. Node(s, Len(s) + 1) = NULL BY <1>2 DEF Node
<1>. DEFINE Good(k) == \A i \in 1..Len(s)+1 :
                          Len(s) + 1 <= i + k => From[k][Node(s, i)] = SubSeq(s, i, Len(s))
            Bad == {k \in 0..N : ~Good(k)}
<1>7. Good(N)
  <2>1. SUFFICES ASSUME N \in Bad PROVE FALSE
    BY <1>2
  <2>2. Bad \subseteq Nat OBVIOUS
  <2>3. PICK k \in Bad : \A z \in Bad : k <= z BY <2>1, <2>2, Smallest
  <2>4. k \in 0..N /\ ~Good(k) OBVIOUS
  <2>5. PICK i \in 1..Len(s)+1 : /\ Len(s) + 1 <= i + k
                                 /\ From[k][Node(s, i)] # SubSeq(s, i, Len(s))
    BY <2>4
  <2>. HIDE DEF Bad, Good
  <2>6. i # Len(s) + 1
    <3>1. SubSeq(s, Len(s) + 1, Len(s)) = <<>> BY <1>2, SubSeqEmpty
    <3>2. From[k][NULL] = <<>> BY <1>4, <2>4
    <3>. QED BY <1>6, <2>5, <3>1, <3>2
  <2>7. i \in 1..Len(s) /\ k # 0 /\ i + 1 \in 1..Len(s)+1 /\ Len(s) + 1 <= (i + 1) + (k - 1)
        /\ k - 1 \in 0..N
    <3>1. N \in Nat /\ Len(s) \in Nat /\ k \in 0..N BY <1>2, <2>4
    <3>2. i \in 1..Len(s)+1 /\ i # Len(s) + 1 /\ Len(s) + 1 <= i + k BY <2>5, <2>6
    <3>. QED BY <3>1, <3>2
  <2>8. k - 1 \notin Bad
    <3>1. k - 1 \in Nat /\ k \in Nat /\ ~(k <= k - 1) BY <2>4, <2>7
    <3>. QED BY <2>3, <3>1
  <2>9. From[k - 1][Node(s, i + 1)] = SubSeq(s, i + 1, Len(s))
    <3>1. Good(k - 1) BY <2>7, <2>8 DEF Bad
    <3>. QED BY <2>7, <3>1 DEF Good
  <2>10. From[k][s[i]] = <<s[i]>> \o From[k - 1][Node(s, i + 1)]
    <3>1. s[i] \in Heap \cup {NULL} /\ s[i] # NULL /\ mb[s[i]].next = Node(s, i + 1)
      BY <1>5, <2>7
    <3>2. k \in 0..N /\ k # 0 BY <2>4, <2>7
    <3>3. From[k][s[i]] = <<s[i]>> \o From[k - 1][mb[s[i]].next]
      BY <1>4, <3>1, <3>2
    <3>. QED BY <3>1, <3>3
  <2>11. SubSeq(s, i, Len(s)) = <<s[i]>> \o SubSeq(s, i + 1, Len(s))
    BY <2>7, FromHere
  <2>12. Node(s, i) = s[i] BY <1>5, <2>7
  <2>13. From[k][Node(s, i)] = SubSeq(s, i, Len(s))
    BY <2>9, <2>10, <2>11, <2>12, Zenon
  <2>. QED BY <2>5, <2>13
<1>8. Len(s) + 1 <= 1 + N /\ 1 \in 1..Len(s)+1
  <2>1. Cardinality(Heap) \in Nat BY HeapAssumption, FS_CardinalityType
  <2>. QED BY <1>2, <2>1 DEF N
<1>9. From[N][Node(s, 1)] = SubSeq(s, 1, Len(s)) BY <1>7, <1>8
<1>10. SubSeq(s, 1, Len(s)) = s
  <2>1. 1 \in Int /\ Len(s) \in Int /\ \A i \in 1..Len(s) : s[i] \in Heap BY <1>2, <1>5
  <2>2. /\ SubSeq(s, 1, Len(s)) \in Seq(Heap)
        /\ Len(SubSeq(s, 1, Len(s))) = IF 1 <= Len(s) THEN Len(s)-1+1 ELSE 0
        /\ \A i \in 1..Len(s)-1+1 : SubSeq(s, 1, Len(s))[i] = s[1+i-1]
    BY <2>1, SubSeqProperties
  <2>3. /\ Len(SubSeq(s, 1, Len(s))) = Len(s)
        /\ \A i \in 1..Len(s) : SubSeq(s, 1, Len(s))[i] = s[i]
    BY <1>2, <2>2
  <2>. QED BY <2>2, <2>3, SeqEqual
<1>. QED BY <1>1, <1>9, <1>10
-----------------------------------------------------------------------------
(* s is the list of group g: the loop that starts at f visits the nodes of *)
(* s, which are allocated and the group's own, and prev leads back along s.*)
Leads(g, f, mb, al, s) ==
    /\ s \in Seq(Heap)
    /\ f = Node(s, 1)
    /\ \A i, j \in 1..Len(s) : s[i] = s[j] => i = j
    /\ \A i \in 1..Len(s) : /\ s[i] \in al
                            /\ mb[s[i]] \in Member
                            /\ mb[s[i]].grid = g
                            /\ mb[s[i]].next = Node(s, i + 1)
                            /\ mb[s[i]].prev = Node(s, i - 1)

(* L has the lists of all groups, and no allocated node is in none.        *)
Linked(fst, mb, al, L) ==
    /\ al \subseteq Heap
    /\ DOMAIN fst = Groups
    /\ DOMAIN mb = Heap
    /\ DOMAIN L = Groups
    /\ \A g \in Groups : Leads(g, fst[g], mb, al, L[g])
    /\ \A m \in al : \E g \in Groups : \E i \in 1..Len(L[g]) : L[g][i] = m

Inv == \E L : Linked(first, memb, allocated, L)

LEMMA ListsOf ==
    ASSUME NEW fst, NEW mb, NEW al, NEW L, Linked(fst, mb, al, L), NEW g \in Groups
    PROVE  /\ L[g] \in Seq(Heap) /\ Len(L[g]) \in Nat
           /\ DOMAIN L[g] = 1..Len(L[g])
           /\ Chain(mb, fst[g]) = L[g]
<1>1. Leads(g, fst[g], mb, al, L[g]) BY DEF Linked
<1>2. L[g] \in Seq(Heap) BY <1>1 DEF Leads
<1>3. /\ \A i, j \in 1..Len(L[g]) : L[g][i] = L[g][j] => i = j
      /\ \A i \in 1..Len(L[g]) : mb[L[g][i]].next = Node(L[g], i + 1)
      /\ fst[g] = Node(L[g], 1)
  BY <1>1 DEF Leads
<1>4. Chain(mb, Node(L[g], 1)) = L[g] BY <1>2, <1>3, ChainIs
<1>5. Len(L[g]) \in Nat /\ DOMAIN L[g] = 1..Len(L[g]) BY <1>2, LenProperties
<1>. QED BY <1>2, <1>3, <1>4, <1>5

LEMMA Initially == Init => Inv
<1>. SUFFICES ASSUME Init PROVE Inv
  OBVIOUS
<1>. DEFINE L == [g \in Groups |-> <<>>]
<1>1. /\ allocated = {} /\ DOMAIN first = Groups /\ DOMAIN memb = Heap
      /\ \A g \in Groups : first[g] = NULL
  BY DEF Init
<1>2. <<>> \in Seq(Heap) /\ Len(<<>>) = 0 BY EmptySeq
<1>3. Node(<<>>, 1) = NULL BY <1>2 DEF Node
<1>4. \A g \in Groups : Leads(g, NULL, memb, {}, <<>>) BY <1>2, <1>3 DEF Leads
<1>5. \A g \in Groups : Leads(g, first[g], memb, allocated, L[g]) BY <1>1, <1>4
<1>6. DOMAIN L = Groups OBVIOUS
<1>. HIDE DEF L
<1>7. Linked(first, memb, allocated, L) BY <1>1, <1>5, <1>6 DEF Linked
<1>. QED BY <1>7 DEF Inv

-----------------------------------------------------------------------------
(* joingroup. *)

(* Only the prev of the node that was first changes.                       *)
Pushed(mb, mb2, m, f) ==
    \A x \in Heap \ {m} :
        mb[x] \in Member =>
            /\ mb2[x] \in Member
            /\ mb2[x].name = mb[x].name /\ mb2[x].sock = mb[x].sock
            /\ mb2[x].grid = mb[x].grid /\ mb2[x].next = mb[x].next
            /\ mb2[x].prev = IF x = f THEN m ELSE mb[x].prev

LEMMA JoinFields ==
    ASSUME NEW L, Linked(first, memb, allocated, L),
           NEW sock \in Socks, NEW g \in Groups, NEW n \in Names,
           NEW m \in Heap \ allocated,
           memb' = [BackFrom(m, g) EXCEPT ![m] =
                        [name |-> n, sock |-> sock, grid |-> g,
                         next |-> first[g], prev |-> NULL]]
    PROVE  /\ memb'[m] = [name |-> n, sock |-> sock, grid |-> g,
                          next |-> first[g], prev |-> NULL]
           /\ memb'[m] \in Member
           /\ DOMAIN memb' = Heap
           /\ Pushed(memb, memb', m, first[g])
<1>1. DOMAIN memb = Heap /\ Leads(g, first[g], memb, allocated, L[g]) BY DEF Linked
<1>2. DOMAIN BackFrom(m, g) = Heap BY <1>1 DEF BackFrom
<1>3. DOMAIN memb' = Heap BY <1>2
<1>4. /\ memb'[m] = [name |-> n, sock |-> sock, grid |-> g,
                     next |-> first[g], prev |-> NULL]
      /\ \A x \in Heap \ {m} : memb'[x] = BackFrom(m, g)[x]
  BY <1>2
<1>5. first[g] \in Heap \cup {NULL}
  <2>1. first[g] = Node(L[g], 1) /\ L[g] \in Seq(Heap) BY <1>1 DEF Leads
  <2>. QED BY <2>1, ElementOfSeq DEF Node
<1>6. memb'[m] \in Member BY <1>4, <1>5 DEF Member
<1>7. ASSUME NEW x \in Heap \ {m}, memb[x] \in Member
      PROVE  /\ memb'[x] \in Member
             /\ memb'[x].name = memb[x].name /\ memb'[x].sock = memb[x].sock
             /\ memb'[x].grid = memb[x].grid /\ memb'[x].next = memb[x].next
             /\ memb'[x].prev = IF x = first[g] THEN m ELSE memb[x].prev
  <2>1. memb'[x] = BackFrom(m, g)[x] BY <1>4
  <2>2. CASE x = first[g]
    <3>1. x # NULL BY HeapAssumption
    <3>2. BackFrom(m, g) = [memb EXCEPT ![first[g]].prev = m]
      BY <2>2, <3>1 DEF BackFrom
    <3>3. BackFrom(m, g)[x] = [memb[x] EXCEPT !.prev = m] BY <1>1, <2>2, <3>2
    <3>. QED BY <1>7, <2>1, <2>2, <3>3 DEF Member
  <2>3. CASE x # first[g]
    <3>1. BackFrom(m, g)[x] = memb[x] BY <1>1, <2>3 DEF BackFrom
    <3>. QED BY <1>7, <2>1, <2>3, <3>1
  <2>. QED BY <2>2, <2>3
<1>8. Pushed(memb, memb', m, first[g]) BY <1>7 DEF Pushed
<1>. QED BY <1>3, <1>4, <1>6, <1>8

(* The list of another group stays as it is.                               *)
LEMMA JoinElsewhere ==
    ASSUME NEW mb, NEW mb2, NEW al, NEW m \in Heap, m \notin al, NEW f, NEW f2,
           NEW g, NEW h, g # h, NEW s, NEW s2,
           Leads(g, f, mb, al, s), Leads(h, f2, mb, al, s2), Pushed(mb, mb2, m, f)
    PROVE  Leads(h, f2, mb2, al \cup {m}, s2)
<1>1. s \in Seq(Heap) /\ s2 \in Seq(Heap) /\ f2 = Node(s2, 1)
      /\ \A i, j \in 1..Len(s2) : s2[i] = s2[j] => i = j
  BY DEF Leads
<1>2. ASSUME NEW i \in 1..Len(s2)
      PROVE  /\ s2[i] \in al \cup {m}
             /\ mb2[s2[i]] \in Member
             /\ mb2[s2[i]].grid = h
             /\ mb2[s2[i]].next = Node(s2, i + 1)
             /\ mb2[s2[i]].prev = Node(s2, i - 1)
  <2>1. /\ s2[i] \in al /\ mb[s2[i]] \in Member /\ mb[s2[i]].grid = h
        /\ mb[s2[i]].next = Node(s2, i + 1) /\ mb[s2[i]].prev = Node(s2, i - 1)
    BY DEF Leads
  <2>2. s2[i] \in Heap \ {m} BY <1>1, <2>1, ElementOfSeq
  <2>3. s2[i] # f
    <3>1. f = Node(s, 1) /\ \A k \in 1..Len(s) : mb[s[k]].grid = g BY DEF Leads
    <3>2. 1 \in 1..Len(s) => mb[f].grid = g BY <3>1 DEF Node
    <3>3. 1 \notin 1..Len(s) => f = NULL BY <3>1 DEF Node
    <3>. QED BY <2>1, <2>2, <3>2, <3>3, HeapAssumption
  <2>. QED BY <2>1, <2>2, <2>3 DEF Pushed
<1>. QED BY <1>1, <1>2 DEF Leads
(* What is proved of sequences in ChatGroupsProofs.                        *)
LEMMA InFront ==
    ASSUME NEW S, NEW s \in Seq(S), NEW m \in S
    PROVE  /\ <<m>> \o s \in Seq(S)
           /\ Len(<<m>> \o s) = Len(s) + 1
           /\ DOMAIN (<<m>> \o s) = 1..Len(s)+1
           /\ (<<m>> \o s)[1] = m
           /\ \A j \in 2..Len(s)+1 : (<<m>> \o s)[j] = s[j - 1]
<1>1. /\ ngroups \in Nat /\ capa \in [CGP!Groups -> Nat] /\ Socks \subseteq Nat
  BY HeapAssumption DEF Groups, CGP!Groups
<1>. QED BY <1>1, CGP!InFront

LEMMA WithoutOne ==
    ASSUME NEW S, NEW s \in Seq(S), NEW p \in 1..Len(s)
    PROVE  /\ CG!Without(s, p) \in Seq(S)
           /\ Len(CG!Without(s, p)) = Len(s) - 1
           /\ \A j \in 1..Len(s)-1 : /\ CG!Without(s, p)[j] = s[CGP!Kept(p, j)]
                                     /\ CGP!Kept(p, j) \in 1..Len(s)
<1>1. /\ ngroups \in Nat /\ capa \in [CGP!Groups -> Nat] /\ Socks \subseteq Nat
  BY HeapAssumption DEF Groups, CGP!Groups
<1>2. CG!Without(s, p) = CGP!Without(s, p) BY DEF CG!Without, CGP!Without
<1>3. /\ CGP!Without(s, p) \in Seq(S)
      /\ Len(CGP!Without(s, p)) = Len(s) - 1
      /\ \A j \in 1..Len(s)-1 : /\ CGP!Without(s, p)[j] = s[CGP!Kept(p, j)]
                                /\ CGP!Kept(p, j) \in 1..Len(s)
  BY <1>1, CGP!WithoutProperties
<1>. QED BY <1>2, <1>3

(* The new node is put in front of the nodes of its own list.              *)
LEMMA JoinHere ==
    ASSUME NEW mb, NEW mb2, NEW al, NEW m \in Heap, m \notin al, NEW f, NEW g, NEW s,
           Leads(g, f, mb, al, s), Pushed(mb, mb2, m, f),
           mb2[m] \in Member, mb2[m].grid = g, mb2[m].next = f, mb2[m].prev = NULL
    PROVE  Leads(g, m, mb2, al \cup {m}, <<m>> \o s)
<1>. DEFINE t == <<m>> \o s
<1>1. s \in Seq(Heap) /\ f = Node(s, 1)
      /\ \A i, j \in 1..Len(s) : s[i] = s[j] => i = j
  BY DEF Leads
<1>2. Len(s) \in Nat /\ \A i \in 1..Len(s) : s[i] \in Heap BY <1>1, ElementOfSeq, LenProperties
<1>3. /\ t \in Seq(Heap) /\ Len(t) = Len(s) + 1
      /\ t[1] = m
      /\ \A j \in 2..Len(s)+1 : t[j] = s[j - 1]
  BY <1>1, InFront
<1>. HIDE DEF t
<1>4. \A i \in 1..Len(s) : /\ s[i] \in al /\ mb[s[i]] \in Member /\ mb[s[i]].grid = g
                           /\ mb[s[i]].next = Node(s, i + 1)
                           /\ mb[s[i]].prev = Node(s, i - 1)
  BY DEF Leads
<1>5. \A i \in 1..Len(s) : s[i] # m BY <1>4
(* Where a position of t is found in s.                                    *)
<1>6. \A j \in 1..Len(t) : j = 1 \/ (j \in 2..Len(s)+1 /\ j - 1 \in 1..Len(s))
  BY <1>2, <1>3
<1>7. ASSUME NEW j \in Nat, j >= 2 PROVE Node(t, j) = Node(s, j - 1)
  <2>1. CASE j \in 2..Len(s)+1
    <3>1. j \in 1..Len(t) /\ j - 1 \in 1..Len(s) BY <1>2, <1>3, <2>1
    <3>2. t[j] = s[j - 1] BY <1>3, <2>1
    <3>. QED BY <3>1, <3>2 DEF Node
  <2>2. CASE j \notin 2..Len(s)+1
    <3>1. j \notin 1..Len(t) /\ j - 1 \notin 1..Len(s) BY <1>2, <1>3, <1>7, <2>2
    <3>. QED BY <3>1 DEF Node
  <2>. QED BY <2>1, <2>2
<1>8. Node(t, 1) = m
  <2>1. 1 \in 1..Len(t) BY <1>2, <1>3
  <2>. QED BY <1>3, <2>1 DEF Node
<1>9. Node(t, 0) = NULL
  <2>1. 0 \notin 1..Len(t) BY <1>2, <1>3
  <2>. QED BY <2>1 DEF Node
<1>10. ASSUME NEW i \in 1..Len(t), NEW j \in 1..Len(t), t[i] = t[j] PROVE i = j
  <2>1. i \in 2..Len(s)+1 => t[i] = s[i - 1] /\ t[i] # m BY <1>3, <1>5, <1>6
  <2>2. j \in 2..Len(s)+1 => t[j] = s[j - 1] /\ t[j] # m BY <1>3, <1>5, <1>6
  <2>3. CASE i = 1 \/ j = 1 BY <1>3, <1>6, <1>10, <2>1, <2>2, <2>3
  <2>4. CASE ~(i = 1 \/ j = 1)
    <3>1. /\ i \in 2..Len(s)+1 /\ i - 1 \in 1..Len(s)
          /\ j \in 2..Len(s)+1 /\ j - 1 \in 1..Len(s)
      BY <1>6, <2>4
    <3>2. s[i - 1] = s[j - 1] BY <1>10, <2>1, <2>2, <3>1
    <3>3. i - 1 = j - 1 BY <1>1, <3>1, <3>2
    <3>. QED BY <3>1, <3>3
  <2>. QED BY <2>3, <2>4
<1>11. ASSUME NEW j \in 1..Len(t)
       PROVE  /\ t[j] \in al \cup {m}
              /\ mb2[t[j]] \in Member
              /\ mb2[t[j]].grid = g
              /\ mb2[t[j]].next = Node(t, j + 1)
              /\ mb2[t[j]].prev = Node(t, j - 1)
  <2>1. CASE j = 1
    <3>1. Node(t, 2) = Node(s, 1) BY <1>7
    <3>2. j + 1 = 2 /\ j - 1 = 0 BY <2>1
    <3>. QED BY <1>1, <1>3, <1>9, <2>1, <3>1, <3>2
  <2>2. CASE j # 1
    <3>. DEFINE i == j - 1
    <3>1. j \in 2..Len(s)+1 /\ i \in 1..Len(s) /\ j = i + 1 /\ j + 1 \in Nat /\ j + 1 >= 2
          /\ (j + 1) - 1 = i + 1
      BY <1>2, <1>6, <2>2
    <3>2. t[j] = s[i] /\ s[i] \in Heap \ {m} /\ mb[s[i]] \in Member
      BY <1>2, <1>3, <1>4, <1>5, <3>1
    <3>3. /\ mb2[s[i]] \in Member /\ mb2[s[i]].grid = mb[s[i]].grid
          /\ mb2[s[i]].next = mb[s[i]].next
          /\ mb2[s[i]].prev = IF s[i] = f THEN m ELSE mb[s[i]].prev
      BY <3>2 DEF Pushed
    <3>4. Node(t, j + 1) = Node(s, i + 1) BY <1>7, <3>1
    <3>5. mb2[s[i]].prev = Node(t, j - 1)
      <4>1. CASE i = 1
        <5>1. f = s[i] BY <1>1, <3>1, <4>1 DEF Node
        <5>. QED BY <1>8, <3>3, <4>1, <5>1
      <4>2. CASE i # 1
        <5>1. i \in Nat /\ i >= 2 /\ 1 \in 1..Len(s) BY <1>2, <3>1, <4>2
        <5>2. f # s[i] BY <1>1, <3>1, <4>2, <5>1 DEF Node
        <5>3. mb2[s[i]].prev = Node(s, i - 1) BY <1>4, <3>1, <3>3, <5>2
        <5>. QED BY <1>7, <5>1, <5>3
      <4>. QED BY <4>1, <4>2
    <3>. QED BY <1>4, <3>1, <3>2, <3>3, <3>4, <3>5
  <2>. QED BY <2>1, <2>2
<1>12. Leads(g, m, mb2, al \cup {m}, t) BY <1>3, <1>8, <1>10, <1>11 DEF Leads
<1>. QED BY <1>12 DEF t

(* What joingroup does, of the node it allocates.                          *)
Joins(sock, g, n, m) ==
    /\ allocated' = allocated \cup {m}
    /\ memb' = [BackFrom(m, g) EXCEPT ![m] =
                  [name |-> n, sock |-> sock, grid |-> g,
                   next |-> first[g], prev |-> NULL]]
    /\ first' = [first EXCEPT ![g] = m]

LEMMA JoinLinks ==
    ASSUME NEW L, Linked(first, memb, allocated, L),
           NEW sock \in Socks, NEW g \in Groups, NEW n \in Names,
           NEW m \in Heap \ allocated, Joins(sock, g, n, m)
    PROVE  /\ Linked(first', memb', allocated', [L EXCEPT ![g] = <<m>> \o L[g]])
           /\ Pushed(memb, memb', m, first[g])
           /\ memb'[m] = [name |-> n, sock |-> sock, grid |-> g,
                          next |-> first[g], prev |-> NULL]
<1>. DEFINE r == [name |-> n, sock |-> sock, grid |-> g, next |-> first[g], prev |-> NULL]
            K == [L EXCEPT ![g] = <<m>> \o L[g]]
<1>1. /\ memb'[m] = r /\ memb'[m] \in Member /\ DOMAIN memb' = Heap
      /\ Pushed(memb, memb', m, first[g])
  BY JoinFields DEF Joins
<1>2. memb'[m].grid = g /\ memb'[m].next = first[g] /\ memb'[m].prev = NULL BY <1>1
<1>3. /\ allocated \subseteq Heap /\ DOMAIN first = Groups /\ DOMAIN L = Groups
      /\ \A h \in Groups : Leads(h, first[h], memb, allocated, L[h])
      /\ \A x \in allocated : \E h \in Groups : \E i \in 1..Len(L[h]) : L[h][i] = x
  BY DEF Linked
<1>4. /\ allocated' = allocated \cup {m} /\ DOMAIN first' = Groups
      /\ first'[g] = m /\ \A h \in Groups \ {g} : first'[h] = first[h]
  BY <1>3 DEF Joins
<1>5. /\ DOMAIN K = Groups /\ K[g] = <<m>> \o L[g]
      /\ \A h \in Groups \ {g} : K[h] = L[h]
  BY <1>3
<1>. HIDE DEF K, r
<1>6. m \in Heap /\ m \notin allocated OBVIOUS
<1>7. Leads(g, first'[g], memb', allocated', K[g])
  <2>1. Leads(g, first[g], memb, allocated, L[g]) BY <1>3
  <2>2. Leads(g, m, memb', allocated \cup {m}, <<m>> \o L[g])
    BY <1>1, <1>2, <1>6, <2>1, JoinHere
  <2>. QED BY <1>4, <1>5, <2>2
<1>8. ASSUME NEW h \in Groups, h # g PROVE Leads(h, first'[h], memb', allocated', K[h])
  <2>1. /\ Leads(g, first[g], memb, allocated, L[g])
        /\ Leads(h, first[h], memb, allocated, L[h])
    BY <1>3
  <2>2. Leads(h, first[h], memb', allocated \cup {m}, L[h])
    BY <1>1, <1>6, <1>8, <2>1, JoinElsewhere
  <2>. QED BY <1>4, <1>5, <1>8, <2>2
<1>9. ASSUME NEW x \in allocated'
      PROVE  \E h \in Groups : \E i \in 1..Len(K[h]) : K[h][i] = x
  <2>1. L[g] \in Seq(Heap) /\ Len(L[g]) \in Nat BY ListsOf
  <2>2. /\ Len(K[g]) = Len(L[g]) + 1 /\ K[g][1] = m
        /\ \A j \in 2..Len(L[g])+1 : K[g][j] = L[g][j - 1]
    BY <1>5, <2>1, InFront
  <2>3. CASE x = m
    <3>1. 1 \in 1..Len(K[g]) BY <2>1, <2>2
    <3>. QED BY <2>2, <2>3, <3>1
  <2>4. CASE x \in allocated
    <3>1. PICK h \in Groups : \E i \in 1..Len(L[h]) : L[h][i] = x BY <1>3, <2>4
    <3>2. PICK i \in 1..Len(L[h]) : L[h][i] = x BY <3>1
    <3>3. CASE h = g
      <4>1. i + 1 \in 2..Len(L[g])+1 /\ (i + 1) - 1 = i /\ i + 1 \in 1..Len(K[g])
        BY <2>1, <2>2, <3>3
      <4>2. K[g][i + 1] = x BY <2>2, <3>2, <3>3, <4>1
      <4>. QED BY <4>1, <4>2
    <3>4. CASE h # g BY <1>5, <3>2, <3>4
    <3>. QED BY <3>3, <3>4
  <2>. QED BY <1>4, <2>3, <2>4
<1>10. allocated' \subseteq Heap BY <1>3, <1>4
<1>11. Linked(first', memb', allocated', K)
  BY <1>1, <1>4, <1>5, <1>7, <1>8, <1>9, <1>10 DEF Linked
<1>. QED BY <1>1, <1>11 DEF K, r
-----------------------------------------------------------------------------
(* leavegroup. *)

(* Its neighbours nx and pv are linked to each other.                      *)
Cut(mb, mb2, m, isfirst, nx, pv) ==
    \A x \in Heap \ {m} :
        mb[x] \in Member =>
            /\ mb2[x] \in Member
            /\ mb2[x].name = mb[x].name /\ mb2[x].sock = mb[x].sock
            /\ mb2[x].grid = mb[x].grid
            /\ mb2[x].prev = IF x = nx THEN pv ELSE mb[x].prev
            /\ mb2[x].next = IF x # nx /\ x = pv /\ ~isfirst THEN nx ELSE mb[x].next

Drops(m) ==
    /\ memb' = [Unlinked(m) EXCEPT ![m] = Blank]
    /\ first' = IF first[memb[m].grid] = m
                THEN [first EXCEPT ![memb[m].grid] = memb[m].next]
                ELSE first
    /\ allocated' = allocated \ {m}

LEMMA DropFields ==
    ASSUME NEW m \in Heap, memb[m] \in Member, DOMAIN memb = Heap, Drops(m)
    PROVE  /\ DOMAIN memb' = Heap
           /\ Cut(memb, memb', m, first[memb[m].grid] = m, memb[m].next, memb[m].prev)
<1>1. DOMAIN Unlinked(m) = Heap BY DEF Unlinked
<1>2. DOMAIN memb' = Heap /\ \A x \in Heap \ {m} : memb'[x] = Unlinked(m)[x]
  BY <1>1 DEF Drops
<1>. DEFINE nx == memb[m].next
            pv == memb[m].prev
            isfirst == first[memb[m].grid] = m
<1>3. nx \in Heap \cup {NULL} /\ pv \in Heap \cup {NULL} BY DEF Member
<1>4. \A x \in Heap :
        Unlinked(m)[x] = IF x = nx THEN [memb[x] EXCEPT !.prev = pv]
                         ELSE IF x = pv /\ ~isfirst THEN [memb[x] EXCEPT !.next = nx]
                         ELSE memb[x]
  BY DEF Unlinked
<1>. HIDE DEF nx, pv, isfirst
<1>5. ASSUME NEW x \in Heap \ {m}, memb[x] \in Member
      PROVE  /\ memb'[x] \in Member
             /\ memb'[x].name = memb[x].name /\ memb'[x].sock = memb[x].sock
             /\ memb'[x].grid = memb[x].grid
             /\ memb'[x].prev = IF x = nx THEN pv ELSE memb[x].prev
             /\ memb'[x].next = IF x # nx /\ x = pv /\ ~isfirst THEN nx ELSE memb[x].next
  <2>1. CASE x = nx
    <3>1. memb'[x] = [memb[x] EXCEPT !.prev = pv] BY <1>2, <1>4, <2>1
    <3>. QED BY <1>3, <1>5, <2>1, <3>1 DEF Member
  <2>2. CASE x # nx /\ x = pv /\ ~isfirst
    <3>1. memb'[x] = [memb[x] EXCEPT !.next = nx] BY <1>2, <1>4, <2>2
    <3>. QED BY <1>3, <1>5, <2>2, <3>1 DEF Member
  <2>3. CASE x # nx /\ ~(x = pv /\ ~isfirst)
    <3>1. memb'[x] = memb[x] BY <1>2, <1>4, <2>3
    <3>. QED BY <1>5, <2>3, <3>1
  <2>. QED BY <2>1, <2>2, <2>3
<1>6. Cut(memb, memb', m, isfirst, nx, pv) BY <1>5 DEF Cut
<1>. QED BY <1>2, <1>6 DEF isfirst, nx, pv

LEMMA DropElsewhere ==
    ASSUME NEW mb, NEW mb2, NEW al, NEW f, NEW f2, NEW g, NEW h, g # h,
           NEW s, NEW s2, NEW p \in 1..Len(s), NEW isfirst,
           Leads(g, f, mb, al, s), Leads(h, f2, mb, al, s2),
           Cut(mb, mb2, s[p], isfirst, mb[s[p]].next, mb[s[p]].prev)
    PROVE  Leads(h, f2, mb2, al \ {s[p]}, s2)
<1>1. s \in Seq(Heap) /\ s2 \in Seq(Heap) /\ f2 = Node(s2, 1)
      /\ \A i, j \in 1..Len(s2) : s2[i] = s2[j] => i = j
  BY DEF Leads
<1>2. /\ mb[s[p]].next = Node(s, p + 1) /\ mb[s[p]].prev = Node(s, p - 1)
      /\ \A k \in 1..Len(s) : mb[s[k]].grid = g
  BY DEF Leads
<1>3. ASSUME NEW i \in 1..Len(s2)
      PROVE  /\ s2[i] \in al \ {s[p]}
             /\ mb2[s2[i]] \in Member
             /\ mb2[s2[i]].grid = h
             /\ mb2[s2[i]].next = Node(s2, i + 1)
             /\ mb2[s2[i]].prev = Node(s2, i - 1)
  <2>1. /\ s2[i] \in al /\ mb[s2[i]] \in Member /\ mb[s2[i]].grid = h
        /\ mb[s2[i]].next = Node(s2, i + 1) /\ mb[s2[i]].prev = Node(s2, i - 1)
    BY DEF Leads
  <2>2. s2[i] \in Heap /\ s2[i] # NULL BY <1>1, ElementOfSeq, HeapAssumption
  <2>3. \A k \in 1..Len(s) : s2[i] # s[k] BY <1>2, <2>1
  <2>4. \A k \in Int : s2[i] # Node(s, k) BY <2>2, <2>3 DEF Node
  <2>5. p + 1 \in Int /\ p - 1 \in Int OBVIOUS
  <2>6. s2[i] # mb[s[p]].next /\ s2[i] # mb[s[p]].prev BY <1>2, <2>4, <2>5
  <2>7. s2[i] \in Heap \ {s[p]} BY <2>2, <2>3
  <2>8. /\ mb2[s2[i]] \in Member
        /\ mb2[s2[i]].grid = mb[s2[i]].grid
        /\ mb2[s2[i]].prev = mb[s2[i]].prev
        /\ mb2[s2[i]].next = mb[s2[i]].next
    BY <2>1, <2>6, <2>7 DEF Cut
  <2>. QED BY <2>1, <2>7, <2>8
<1>. QED BY <1>1, <1>3 DEF Leads

(* The numbers of the nodes that stay.                                     *)
LEMMA KeptOnes ==
    ASSUME NEW n \in Nat, NEW p \in 1..n
    PROVE  /\ \A i, j \in Nat : CGP!Kept(p, i) = CGP!Kept(p, j) => i = j
           /\ \A j \in Nat : CGP!Kept(p, j) # p /\ CGP!Kept(p, j) \in Nat
           /\ \A j \in 1..n-1 : CGP!Kept(p, j) \in 1..n
           /\ \A k \in 1..n : k # p => \E j \in 1..n-1 : CGP!Kept(p, j) = k
           /\ \A j \in 1..n-1 :
                CGP!Kept(p, j + 1) = IF CGP!Kept(p, j) = p - 1 THEN p + 1
                                     ELSE CGP!Kept(p, j) + 1
           /\ \A j \in 1..n-1 :
                CGP!Kept(p, j - 1) = IF CGP!Kept(p, j) = p + 1 THEN p - 1
                                     ELSE CGP!Kept(p, j) - 1
<1>1. \A i, j \in Nat : CGP!Kept(p, i) = CGP!Kept(p, j) => i = j BY DEF CGP!Kept
<1>2. \A j \in Nat : CGP!Kept(p, j) # p /\ CGP!Kept(p, j) \in Nat BY DEF CGP!Kept
<1>3. \A j \in 1..n-1 : CGP!Kept(p, j) \in 1..n BY DEF CGP!Kept
<1>4. ASSUME NEW k \in 1..n, k # p PROVE \E j \in 1..n-1 : CGP!Kept(p, j) = k
  <2>1. CASE k < p
    <3>1. k \in 1..n-1 /\ CGP!Kept(p, k) = k BY <2>1 DEF CGP!Kept
    <3>. QED BY <3>1
  <2>2. CASE ~(k < p)
    <3>1. k - 1 \in 1..n-1 /\ CGP!Kept(p, k - 1) = k BY <1>4, <2>2 DEF CGP!Kept
    <3>. QED BY <3>1
  <2>. QED BY <2>1, <2>2
<1>5. \A j \in 1..n-1 :
         CGP!Kept(p, j + 1) = IF CGP!Kept(p, j) = p - 1 THEN p + 1
                              ELSE CGP!Kept(p, j) + 1
  BY DEF CGP!Kept
<1>6. \A j \in 1..n-1 :
         CGP!Kept(p, j - 1) = IF CGP!Kept(p, j) = p + 1 THEN p - 1
                              ELSE CGP!Kept(p, j) - 1
  BY DEF CGP!Kept
<1>. QED BY <1>1, <1>2, <1>3, <1>4, <1>5, <1>6

LEMMA NodeWithout ==
    ASSUME NEW s \in Seq(Heap), NEW p \in 1..Len(s), NEW j \in 0..Len(s)
    PROVE  Node(CG!Without(s, p), j) = Node(s, CGP!Kept(p, j))
<1>1. /\ Len(CG!Without(s, p)) = Len(s) - 1
      /\ \A k \in 1..Len(s)-1 : /\ CG!Without(s, p)[k] = s[CGP!Kept(p, k)]
                                /\ CGP!Kept(p, k) \in 1..Len(s)
  BY WithoutOne
<1>2. Len(s) \in Nat BY LenProperties
<1>3. CASE j \in 1..Len(s)-1 BY <1>1, <1>3 DEF Node
<1>4. CASE j = 0
  <2>1. CGP!Kept(p, j) = 0 BY <1>2, <1>4 DEF CGP!Kept
  <2>2. 0 \notin 1..Len(s) /\ 0 \notin 1..Len(s)-1 BY <1>2
  <2>. QED BY <1>1, <1>4, <2>1, <2>2 DEF Node
<1>5. CASE j = Len(s)
  <2>1. CGP!Kept(p, j) = Len(s) + 1 BY <1>2, <1>5 DEF CGP!Kept
  <2>2. Len(s) + 1 \notin 1..Len(s) /\ Len(s) \notin 1..Len(s)-1 BY <1>2
  <2>. QED BY <1>1, <1>5, <2>1, <2>2 DEF Node
<1>. QED BY <1>2, <1>3, <1>4, <1>5
(* The list of the node that leaves closes over it.                        *)
LEMMA DropHere ==
    ASSUME NEW mb, NEW mb2, NEW al, NEW f, NEW g, NEW s, NEW p \in 1..Len(s),
           Leads(g, f, mb, al, s),
           Cut(mb, mb2, s[p], f = s[p], mb[s[p]].next, mb[s[p]].prev)
    PROVE  /\ Leads(g, IF f = s[p] THEN mb[s[p]].next ELSE f, mb2, al \ {s[p]},
                    CG!Without(s, p))
<1>. DEFINE w == CG!Without(s, p)
            n == Len(s)
            K(j) == CGP!Kept(p, j)
<1>1. s \in Seq(Heap) /\ f = Node(s, 1)
      /\ \A i, j \in 1..Len(s) : s[i] = s[j] => i = j
  BY DEF Leads
<1>2. n \in Nat /\ (\A i \in 1..n : s[i] \in Heap) /\ 1 \in 1..n
  BY <1>1, ElementOfSeq, LenProperties
<1>3. /\ w \in Seq(Heap) /\ Len(w) = n - 1
      /\ \A j \in 1..n-1 : w[j] = s[K(j)] /\ K(j) \in 1..n
  BY <1>1, WithoutOne
<1>4. \A j \in 0..n : Node(w, j) = Node(s, K(j)) BY <1>1, NodeWithout
<1>5. /\ \A i, j \in Nat : K(i) = K(j) => i = j
      /\ \A j \in Nat : K(j) # p /\ K(j) \in Nat
      /\ \A j \in 1..n-1 : K(j + 1) = IF K(j) = p - 1 THEN p + 1 ELSE K(j) + 1
      /\ \A j \in 1..n-1 : K(j - 1) = IF K(j) = p + 1 THEN p - 1 ELSE K(j) - 1
  <2>1. n \in Nat /\ p \in 1..n BY <1>2
  <2>. HIDE DEF n
  <2>2. \A i, j \in Nat : K(i) = K(j) => i = j BY <2>1, KeptOnes
  <2>3. \A j \in Nat : K(j) # p /\ K(j) \in Nat BY <2>1, KeptOnes
  <2>4. \A j \in 1..n-1 : K(j + 1) = IF K(j) = p - 1 THEN p + 1 ELSE K(j) + 1
    BY <2>1, KeptOnes
  <2>5. \A j \in 1..n-1 : K(j - 1) = IF K(j) = p + 1 THEN p - 1 ELSE K(j) - 1
    BY <2>1, KeptOnes
  <2>. QED BY <2>2, <2>3, <2>4, <2>5
<1>6. \A i \in 1..n : /\ s[i] \in al /\ mb[s[i]] \in Member /\ mb[s[i]].grid = g
                      /\ mb[s[i]].next = Node(s, i + 1)
                      /\ mb[s[i]].prev = Node(s, i - 1)
  BY DEF Leads
<1>7. K(1) = IF p = 1 THEN 2 ELSE 1 BY <1>2 DEF CGP!Kept
<1>. HIDE DEF w, K
<1>8. f = s[1] /\ (f = s[p] <=> p = 1) BY <1>1, <1>2 DEF Node
<1>. DEFINE f2 == IF f = s[p] THEN mb[s[p]].next ELSE f
<1>9. f2 = Node(w, 1)
  <2>1. Node(w, 1) = Node(s, K(1)) BY <1>2, <1>4
  <2>2. CASE p = 1
    <3>1. mb[s[p]].next = Node(s, p + 1) BY <1>6
    <3>2. p + 1 = 2 BY <2>2
    <3>. QED BY <1>7, <1>8, <2>1, <2>2, <3>1, <3>2
  <2>3. CASE p # 1 BY <1>1, <1>7, <1>8, <2>1, <2>3
  <2>. QED BY <2>2, <2>3
<1>. HIDE DEF f2
<1>10. ASSUME NEW i \in 1..Len(w), NEW j \in 1..Len(w), w[i] = w[j] PROVE i = j
  <2>1. i \in 1..n-1 /\ j \in 1..n-1 /\ i \in Nat /\ j \in Nat BY <1>2, <1>3
  <2>2. s[K(i)] = s[K(j)] /\ K(i) \in 1..n /\ K(j) \in 1..n BY <1>3, <1>10, <2>1
  <2>3. K(i) = K(j) BY <1>1, <2>2
  <2>. QED BY <1>5, <2>1, <2>3
<1>11. ASSUME NEW j \in 1..Len(w)
       PROVE  /\ w[j] \in al \ {s[p]}
              /\ mb2[w[j]] \in Member
              /\ mb2[w[j]].grid = g
              /\ mb2[w[j]].next = Node(w, j + 1)
              /\ mb2[w[j]].prev = Node(w, j - 1)
  <2>. DEFINE k == K(j)
              x == s[k]
  <2>1. j \in 1..n-1 /\ j \in Nat /\ j + 1 \in 0..n /\ j - 1 \in 0..n BY <1>2, <1>3
  <2>2. w[j] = x /\ k \in 1..n /\ k # p /\ k \in Nat BY <1>3, <1>5, <2>1
  <2>3. /\ Node(w, j + 1) = Node(s, IF k = p - 1 THEN p + 1 ELSE k + 1)
        /\ Node(w, j - 1) = Node(s, IF k = p + 1 THEN p - 1 ELSE k - 1)
    <3>1. Node(w, j + 1) = Node(s, K(j + 1)) /\ Node(w, j - 1) = Node(s, K(j - 1))
      BY <1>4, <2>1
    <3>. QED BY <1>5, <2>1, <3>1
  <2>. HIDE DEF k
  <2>4. x \in Heap \ {s[p]} /\ x \in al \ {s[p]} /\ x # NULL
    BY <1>1, <1>2, <1>6, <2>2, HeapAssumption
  <2>5. /\ mb[x] \in Member /\ mb[x].grid = g
        /\ mb[x].next = Node(s, k + 1) /\ mb[x].prev = Node(s, k - 1)
        /\ mb[s[p]].next = Node(s, p + 1) /\ mb[s[p]].prev = Node(s, p - 1)
    BY <1>6, <2>2
  <2>6. x = Node(s, p + 1) <=> k = p + 1
    <3>1. CASE p + 1 \in 1..n
      <4>1. Node(s, p + 1) = s[p + 1] BY <3>1 DEF Node
      <4>. QED BY <1>1, <2>2, <3>1, <4>1
    <3>2. CASE p + 1 \notin 1..n
      <4>1. Node(s, p + 1) = NULL BY <3>2 DEF Node
      <4>. QED BY <2>2, <2>4, <3>2, <4>1
    <3>. QED BY <3>1, <3>2
  <2>7. x = Node(s, p - 1) <=> k = p - 1
    <3>1. CASE p - 1 \in 1..n
      <4>1. Node(s, p - 1) = s[p - 1] BY <3>1 DEF Node
      <4>. QED BY <1>1, <2>2, <3>1, <4>1
    <3>2. CASE p - 1 \notin 1..n
      <4>1. Node(s, p - 1) = NULL BY <3>2 DEF Node
      <4>. QED BY <2>2, <2>4, <3>2, <4>1
    <3>. QED BY <3>1, <3>2
  <2>8. k = p - 1 => p # 1 /\ k # p + 1 BY <2>2
  <2>. HIDE DEF x
  <2>9. /\ mb2[x] \in Member /\ mb2[x].grid = mb[x].grid
        /\ mb2[x].prev = IF x = mb[s[p]].next THEN mb[s[p]].prev ELSE mb[x].prev
        /\ mb2[x].next = IF x # mb[s[p]].next /\ x = mb[s[p]].prev /\ ~(f = s[p])
                         THEN mb[s[p]].next ELSE mb[x].next
    BY <2>4, <2>5 DEF Cut
  <2>10. mb2[x].next = Node(w, j + 1)
    <3>1. CASE k = p - 1 BY <1>8, <2>3, <2>5, <2>6, <2>7, <2>8, <2>9, <3>1
    <3>2. CASE k # p - 1 BY <2>3, <2>5, <2>6, <2>7, <2>9, <3>2
    <3>. QED BY <3>1, <3>2
  <2>11. mb2[x].prev = Node(w, j - 1)
    <3>1. CASE k = p + 1 BY <2>3, <2>5, <2>6, <2>9, <3>1
    <3>2. CASE k # p + 1 BY <2>3, <2>5, <2>6, <2>9, <3>2
    <3>. QED BY <3>1, <3>2
  <2>. QED BY <2>2, <2>4, <2>5, <2>9, <2>10, <2>11 DEF x
<1>12. Leads(g, f2, mb2, al \ {s[p]}, w) BY <1>3, <1>9, <1>10, <1>11 DEF Leads
<1>. QED BY <1>12 DEF f2, w

LEMMA DropLinks ==
    ASSUME NEW L, Linked(first, memb, allocated, L),
           NEW g \in Groups, NEW p \in 1..Len(L[g]), Drops(L[g][p])
    PROVE  /\ Linked(first', memb', allocated', [L EXCEPT ![g] = CG!Without(L[g], p)])
           /\ Cut(memb, memb', L[g][p], first[g] = L[g][p],
                  memb[L[g][p]].next, memb[L[g][p]].prev)
<1>. DEFINE m == L[g][p]
            K == [L EXCEPT ![g] = CG!Without(L[g], p)]
<1>1. /\ allocated \subseteq Heap /\ DOMAIN first = Groups /\ DOMAIN L = Groups
      /\ DOMAIN memb = Heap
      /\ \A h \in Groups : Leads(h, first[h], memb, allocated, L[h])
      /\ \A x \in allocated : \E h \in Groups : \E i \in 1..Len(L[h]) : L[h][i] = x
  BY DEF Linked
<1>2. \A h \in Groups : \A i \in 1..Len(L[h]) :
        L[h][i] \in allocated /\ memb[L[h][i]] \in Member /\ memb[L[h][i]].grid = h
  BY <1>1 DEF Leads
<1>3. m \in Heap /\ m \in allocated /\ memb[m] \in Member /\ memb[m].grid = g
  BY <1>1, <1>2
<1>4. /\ DOMAIN memb' = Heap
      /\ Cut(memb, memb', m, first[g] = m, memb[m].next, memb[m].prev)
  <2>1. Drops(m) OBVIOUS
  <2>. HIDE DEF m
  <2>2. /\ DOMAIN memb' = Heap
        /\ Cut(memb, memb', m, first[memb[m].grid] = m, memb[m].next, memb[m].prev)
    BY <1>1, <1>3, <2>1, DropFields
  <2>. QED BY <1>3, <2>2
<1>5. /\ allocated' = allocated \ {m} /\ DOMAIN first' = Groups
      /\ first'[g] = IF first[g] = m THEN memb[m].next ELSE first[g]
      /\ \A h \in Groups \ {g} : first'[h] = first[h]
  BY <1>1, <1>3 DEF Drops
<1>6. /\ DOMAIN K = Groups /\ K[g] = CG!Without(L[g], p)
      /\ \A h \in Groups \ {g} : K[h] = L[h]
  BY <1>1
<1>. HIDE DEF K
<1>7. Leads(g, first'[g], memb', allocated', K[g])
  <2>1. Leads(g, first[g], memb, allocated, L[g]) BY <1>1
  <2>2. Cut(memb, memb', L[g][p], first[g] = L[g][p],
            memb[L[g][p]].next, memb[L[g][p]].prev)
    BY <1>4
  <2>3. Leads(g, IF first[g] = L[g][p] THEN memb[L[g][p]].next ELSE first[g],
              memb', allocated \ {L[g][p]}, CG!Without(L[g], p))
    BY <2>1, <2>2, DropHere
  <2>. QED BY <1>5, <1>6, <2>3
<1>8. ASSUME NEW h \in Groups, h # g PROVE Leads(h, first'[h], memb', allocated', K[h])
  <2>1. /\ Leads(g, first[g], memb, allocated, L[g])
        /\ Leads(h, first[h], memb, allocated, L[h])
    BY <1>1
  <2>2. Leads(h, first[h], memb', allocated \ {m}, L[h])
    <3>1. Cut(memb, memb', L[g][p], first[g] = m,
              memb[L[g][p]].next, memb[L[g][p]].prev)
      BY <1>4
    <3>. QED BY <1>8, <2>1, <3>1, DropElsewhere
  <2>. QED BY <1>5, <1>6, <1>8, <2>2
<1>9. ASSUME NEW x \in allocated'
      PROVE  \E h \in Groups : \E i \in 1..Len(K[h]) : K[h][i] = x
  <2>1. L[g] \in Seq(Heap) /\ Len(L[g]) \in Nat BY ListsOf
  <2>2. x \in allocated /\ x # m BY <1>5
  <2>3. PICK h \in Groups : \E i \in 1..Len(L[h]) : L[h][i] = x BY <1>1, <2>2
  <2>4. PICK k \in 1..Len(L[h]) : L[h][k] = x BY <2>3
  <2>5. CASE h = g
    <3>1. k \in 1..Len(L[g]) /\ k # p BY <2>2, <2>4, <2>5
    <3>2. \E j \in 1..Len(L[g])-1 : CGP!Kept(p, j) = k 
      BY <2>1, <3>1, KeptOnes, SMTT(30)
    <3>3. PICK j \in 1..Len(L[g])-1 : CGP!Kept(p, j) = k BY <3>2
    <3>4. /\ Len(CG!Without(L[g], p)) = Len(L[g]) - 1
          /\ CG!Without(L[g], p)[j] = L[g][CGP!Kept(p, j)]
      BY <2>1, WithoutOne
    <3>5. j \in 1..Len(K[g]) /\ K[g][j] = x BY <1>6, <2>4, <2>5, <3>3, <3>4
    <3>. QED BY <3>5
  <2>6. CASE h # g BY <1>6, <2>4, <2>6
  <2>. QED BY <2>5, <2>6
<1>10. allocated' \subseteq Heap BY <1>1, <1>5
<1>11. Linked(first', memb', allocated', K)
  <2>1. \A h \in Groups : Leads(h, first'[h], memb', allocated', K[h]) BY <1>7, <1>8
  <2>. QED BY <1>4, <1>5, <1>6, <1>9, <1>10, <2>1 DEF Linked
<1>. QED BY <1>4, <1>11 DEF K
-----------------------------------------------------------------------------
LEMMA LowestIsOne ==
    ASSUME NEW S, S \subseteq Nat, S # {}
    PROVE  Lowest(S) \in S
<1>1. PICK x \in S : TRUE OBVIOUS
<1>2. \E y \in S : \A z \in S : y <= z BY <1>1, Smallest
<1>. QED BY <1>2 DEF Lowest

(* The node that leavegroup frees, if there is one, is the first for sock  *)
(* in the first list that has one.                                         *)
LEMMA WhoLeaves ==
    ASSUME NEW L, Linked(first, memb, allocated, L), NEW sock,
           findmemberbysock(sock) # NULL
    PROVE  LET G == {h \in Groups : Positions(h, sock) # {}}
               g == Lowest(G)
               p == Lowest(Positions(g, sock))
           IN  /\ G # {} /\ g \in Groups /\ p \in 1..Len(L[g])
               /\ findmemberbysock(sock) = L[g][p]
<1>. DEFINE G == {h \in Groups : Positions(h, sock) # {}}
            g == Lowest(G)
            p == Lowest(Positions(g, sock))
<1>1. G # {} /\ findmemberbysock(sock) = List(g)[p] BY DEF findmemberbysock
<1>2. G \subseteq Nat /\ G \subseteq Groups BY HeapAssumption DEF Groups
<1>3. g \in G
  <2>. HIDE DEF G
  <2>. QED BY <1>1, <1>2, LowestIsOne
<1>4. g \in Groups /\ Positions(g, sock) # {} BY <1>3
<1>. HIDE DEF g
<1>5. List(g) = L[g] /\ DOMAIN L[g] = 1..Len(L[g]) /\ Len(L[g]) \in Nat
  BY <1>4, ListsOf DEF List
<1>6. Positions(g, sock) \subseteq 1..Len(L[g]) BY <1>5 DEF Positions
<1>7. p \in 1..Len(L[g])
  <2>1. Positions(g, sock) \subseteq Nat BY <1>5, <1>6
  <2>2. p \in Positions(g, sock) BY <1>4, <2>1, LowestIsOne
  <2>. QED BY <1>6, <2>2
<1>8. G # {} /\ g \in Groups /\ p \in 1..Len(L[g]) /\ findmemberbysock(sock) = L[g][p]
  BY <1>1, <1>4, <1>5, <1>7
<1>. QED BY <1>8 DEF g

LEMMA Inductive == Inv /\ [Next]_vars => Inv'
<1>. SUFFICES ASSUME Inv, [Next]_vars PROVE Inv'
  OBVIOUS
<1>1. PICK L : Linked(first, memb, allocated, L) BY DEF Inv
<1>2. CASE UNCHANGED vars BY <1>1, <1>2 DEF vars, Inv, Linked
<1>3. ASSUME NEW sock \in Socks, NEW g \in Groups, NEW n \in Names,
             joingroup(sock, g, n)
      PROVE  Inv'
  <2>1. PICK m \in Heap \ allocated : Joins(sock, g, n, m)
    BY <1>3 DEF joingroup, Joins
  <2>2. Linked(first', memb', allocated', [L EXCEPT ![g] = <<m>> \o L[g]])
    BY <1>1, <2>1, JoinLinks
  <2>. QED BY <2>2 DEF Inv
<1>4. ASSUME NEW sock \in Socks, leavegroup(sock)
      PROVE  Inv'
  <2>. DEFINE m == findmemberbysock(sock)
  <2>1. m # NULL /\ Drops(m) BY <1>4 DEF leavegroup, Drops
  <2>2. PICK g \in Groups : \E p \in 1..Len(L[g]) : m = L[g][p]
    BY <1>1, <2>1, WhoLeaves
  <2>3. PICK p \in 1..Len(L[g]) : m = L[g][p] BY <2>2
  <2>. HIDE DEF m
  <2>4. Drops(L[g][p]) BY <2>1, <2>3
  <2>5. Linked(first', memb', allocated', [L EXCEPT ![g] = CG!Without(L[g], p)])
    BY <1>1, <2>4, DropLinks
  <2>. QED BY <2>5 DEF Inv
<1>. QED BY <1>2, <1>3, <1>4 DEF Next

(* However members join and leave, the nodes linked into the lists are     *)
(* those that are allocated, each in the list of its group and in no       *)
(* other (chatserver.c:412-427, 447-466).                                  *)
THEOREM NoStrayNodes == Spec => []NodesAreMembers
<1>1. ASSUME Inv PROVE NodesAreMembers
  <2>1. PICK L : Linked(first, memb, allocated, L) BY <1>1 DEF Inv
  <2>2. \A g \in Groups : List(g) = L[g] /\ DOMAIN L[g] = 1..Len(L[g])
    BY <2>1, ListsOf DEF List
  <2>3. \A g \in Groups : Visited(g) = {L[g][i] : i \in 1..Len(L[g])}
    BY <2>2 DEF Visited
  <2>4. \A g \in Groups : \A i \in 1..Len(L[g]) :
          L[g][i] \in allocated /\ memb[L[g][i]].grid = g
    BY <2>1 DEF Linked, Leads
  <2>5. \A x \in allocated : \E g \in Groups : \E i \in 1..Len(L[g]) : L[g][i] = x
    BY <2>1 DEF Linked
  <2>6. \A x \in allocated : x \in UNION {Visited(g) : g \in Groups}
    BY <2>3, <2>5
  <2>7. \A g \in Groups : \A x \in Visited(g) : x \in allocated /\ memb[x].grid = g
    BY <2>3, <2>4
  <2>. QED BY <2>6, <2>7 DEF NodesAreMembers
<1>. QED BY <1>1, Initially, Inductive, PTL DEF Spec

(* However members join and leave, prev leads back where next leads on, in *)
(* every list (chatserver.c:448-456).                                      *)
THEOREM LinksLeadBack == Spec => []BackLinks
<1>1. ASSUME Inv PROVE BackLinks
  <2>1. PICK L : Linked(first, memb, allocated, L) BY <1>1 DEF Inv
  <2>2. SUFFICES ASSUME NEW g \in Groups, NEW i \in DOMAIN List(g)
                 PROVE  memb[List(g)[i]].prev = IF i = 1 THEN NULL ELSE List(g)[i - 1]
    BY DEF BackLinks
  <2>3. List(g) = L[g] /\ DOMAIN L[g] = 1..Len(L[g]) /\ Len(L[g]) \in Nat
    BY <2>1, ListsOf DEF List
  <2>4. i \in 1..Len(L[g]) BY <2>3
  <2>5. memb[L[g][i]].prev = Node(L[g], i - 1) BY <2>1, <2>4 DEF Linked, Leads
  <2>6. CASE i = 1
    <3>1. i - 1 \notin 1..Len(L[g]) BY <2>6
    <3>. QED BY <2>3, <2>5, <2>6, <3>1 DEF Node
  <2>7. CASE i # 1
    <3>1. i - 1 \in 1..Len(L[g]) BY <2>3, <2>4, <2>7
    <3>. QED BY <2>3, <2>5, <2>7, <3>1 DEF Node
  <2>. QED BY <2>6, <2>7
<1>. QED BY <1>1, Initially, Inductive, PTL DEF Spec

-----------------------------------------------------------------------------
(* What the list s shows as the members of a group of ChatGroups.          *)
Shown(mb, s) == [i \in DOMAIN s |-> [name |-> mb[s[i]].name, sock |-> mb[s[i]].sock]]

LEMMA TableIs ==
    ASSUME NEW fst, NEW mb, NEW al, NEW L, Linked(fst, mb, al, L)
    PROVE  [g \in Groups |->
              [i \in DOMAIN Chain(mb, fst[g]) |->
                 [name |-> mb[Chain(mb, fst[g])[i]].name,
                  sock |-> mb[Chain(mb, fst[g])[i]].sock]]]
           = [g \in Groups |-> Shown(mb, L[g])]
<1>1. \A g \in Groups : Chain(mb, fst[g]) = L[g] BY ListsOf
<1>. QED BY <1>1 DEF Shown

LEMMA ShownIs ==
    ASSUME NEW mb, NEW s \in Seq(Heap), \A i \in 1..Len(s) : mb[s[i]] \in Member
    PROVE  /\ Shown(mb, s) \in Seq(CG!Member)
           /\ Len(Shown(mb, s)) = Len(s) /\ DOMAIN Shown(mb, s) = 1..Len(s)
           /\ \A i \in 1..Len(s) :
                Shown(mb, s)[i] = [name |-> mb[s[i]].name, sock |-> mb[s[i]].sock]
<1>1. Len(s) \in Nat /\ DOMAIN s = 1..Len(s) BY LenProperties
<1>2. \A i \in 1..Len(s) :
        [name |-> mb[s[i]].name, sock |-> mb[s[i]].sock] \in CG!Member
  BY DEF Member, CG!Member
<1>3. Shown(mb, s) = [i \in 1..Len(s) |-> [name |-> mb[s[i]].name, sock |-> mb[s[i]].sock]]
  BY <1>1 DEF Shown
<1>. QED BY <1>1, <1>2, <1>3

LEMMA ShownFields ==
    ASSUME NEW mb, NEW s \in Seq(Heap), NEW i \in 1..Len(s)
    PROVE  Shown(mb, s)[i].name = mb[s[i]].name /\ Shown(mb, s)[i].sock = mb[s[i]].sock
<1>1. i \in DOMAIN s BY LenProperties
<1>. QED BY <1>1 DEF Shown

LEMMA ShownJoin ==
    ASSUME NEW mb, NEW mb2, NEW s \in Seq(Heap), NEW m \in Heap, NEW f,
           \A i \in 1..Len(s) : mb[s[i]] \in Member /\ s[i] # m,
           Pushed(mb, mb2, m, f), mb2[m] \in Member
    PROVE  Shown(mb2, <<m>> \o s) =
               <<[name |-> mb2[m].name, sock |-> mb2[m].sock]>> \o Shown(mb, s)
<1>. DEFINE t == <<m>> \o s
            r == [name |-> mb2[m].name, sock |-> mb2[m].sock]
            u == <<r>> \o Shown(mb, s)
<1>1. Len(s) \in Nat /\ \A i \in 1..Len(s) : s[i] \in Heap \ {m}
  BY LenProperties, ElementOfSeq
<1>2. /\ t \in Seq(Heap) /\ Len(t) = Len(s) + 1 /\ t[1] = m
      /\ \A j \in 2..Len(s)+1 : t[j] = s[j - 1]
  BY InFront
<1>3. \A i \in 1..Len(s) : /\ mb2[s[i]] \in Member
                           /\ mb2[s[i]].name = mb[s[i]].name
                           /\ mb2[s[i]].sock = mb[s[i]].sock
  BY <1>1 DEF Pushed
<1>4. /\ Shown(mb, s) \in Seq(CG!Member) /\ Len(Shown(mb, s)) = Len(s)
      /\ \A i \in 1..Len(s) :
           Shown(mb, s)[i] = [name |-> mb[s[i]].name, sock |-> mb[s[i]].sock]
  BY ShownIs
<1>5. r \in CG!Member BY DEF Member, CG!Member
<1>. HIDE DEF t, r
<1>6. /\ u \in Seq(CG!Member) /\ Len(u) = Len(s) + 1 /\ u[1] = r
      /\ \A j \in 2..Len(s)+1 : u[j] = Shown(mb, s)[j - 1]
  BY <1>4, <1>5, InFront
<1>. HIDE DEF u
<1>7. \A j \in 1..Len(s)+1 : j = 1 \/ (j \in 2..Len(s)+1 /\ j - 1 \in 1..Len(s))
  BY <1>1
<1>8. \A j \in 1..Len(t) : mb2[t[j]] \in Member BY <1>2, <1>3, <1>7, SMTT(30)
<1>9. /\ Shown(mb2, t) \in Seq(CG!Member) /\ Len(Shown(mb2, t)) = Len(t)
      /\ \A j \in 1..Len(t) :
           Shown(mb2, t)[j] = [name |-> mb2[t[j]].name, sock |-> mb2[t[j]].sock]
  BY <1>2, <1>8, ShownIs
<1>10. ASSUME NEW j \in 1..Len(s)+1 PROVE Shown(mb2, t)[j] = u[j]
  <2>1. CASE j = 1 BY <1>2, <1>6, <1>9, <2>1 DEF r
  <2>2. CASE j # 1
    <3>1. j \in 2..Len(s)+1 /\ j - 1 \in 1..Len(s) BY <1>7, <2>2
    <3>2. Shown(mb2, t)[j] = [name |-> mb2[s[j-1]].name, sock |-> mb2[s[j-1]].sock]
      BY <1>2, <1>9, <3>1
    <3>3. u[j] = [name |-> mb[s[j-1]].name, sock |-> mb[s[j-1]].sock]
      BY <1>4, <1>6, <3>1
    <3>. QED BY <1>3, <3>1, <3>2, <3>3
  <2>. QED BY <2>1, <2>2
<1>11. Shown(mb2, t) = u BY <1>2, <1>6, <1>9, <1>10, SeqEqual
<1>. QED BY <1>11 DEF t, u, r

LEMMA ShownLeave ==
    ASSUME NEW mb, NEW mb2, NEW s \in Seq(Heap), NEW p \in 1..Len(s),
           \A i \in 1..Len(s) : mb[s[i]] \in Member,
           \A i, j \in 1..Len(s) : s[i] = s[j] => i = j,
           \A x \in Heap \ {s[p]} :
               mb[x] \in Member => /\ mb2[x] \in Member
                                  /\ mb2[x].name = mb[x].name
                                  /\ mb2[x].sock = mb[x].sock
    PROVE  Shown(mb2, CG!Without(s, p)) = CG!Without(Shown(mb, s), p)
<1>. DEFINE w == CG!Without(s, p)
            v == CG!Without(Shown(mb, s), p)
            K(j) == CGP!Kept(p, j)
<1>1. Len(s) \in Nat /\ \A i \in 1..Len(s) : s[i] \in Heap
  BY LenProperties, ElementOfSeq
<1>2. /\ w \in Seq(Heap) /\ Len(w) = Len(s) - 1
      /\ \A j \in 1..Len(s)-1 : w[j] = s[K(j)] /\ K(j) \in 1..Len(s)
  BY WithoutOne
<1>3. \A j \in Nat : K(j) # p BY <1>1, KeptOnes
<1>4. /\ Shown(mb, s) \in Seq(CG!Member) /\ Len(Shown(mb, s)) = Len(s)
      /\ \A i \in 1..Len(s) :
           Shown(mb, s)[i] = [name |-> mb[s[i]].name, sock |-> mb[s[i]].sock]
  BY ShownIs
<1>5. /\ v \in Seq(CG!Member) /\ Len(v) = Len(s) - 1
      /\ \A j \in 1..Len(s)-1 : v[j] = Shown(mb, s)[K(j)]
  <2>1. p \in 1..Len(Shown(mb, s)) BY <1>4
  <2>2. /\ v \in Seq(CG!Member) /\ Len(v) = Len(Shown(mb, s)) - 1
        /\ \A j \in 1..Len(Shown(mb, s))-1 : /\ v[j] = Shown(mb, s)[K(j)]
                                             /\ K(j) \in 1..Len(Shown(mb, s))
    BY <1>4, <2>1, WithoutOne
  <2>. QED BY <1>4, <2>2
<1>. HIDE DEF w, v, K
<1>6. ASSUME NEW j \in 1..Len(s)-1
      PROVE  /\ w[j] = s[K(j)] /\ mb2[w[j]] \in Member
             /\ mb2[w[j]].name = mb[s[K(j)]].name
             /\ mb2[w[j]].sock = mb[s[K(j)]].sock
  <2>1. w[j] = s[K(j)] /\ K(j) \in 1..Len(s) /\ K(j) # p
    <3>1. j \in Nat OBVIOUS
    <3>. QED BY <1>2, <1>3, <3>1
  <2>2. s[K(j)] \in Heap \ {s[p]} /\ mb[s[K(j)]] \in Member BY <1>1, <2>1
  <2>. QED BY <2>1, <2>2
<1>7. /\ Shown(mb2, w) \in Seq(CG!Member) /\ Len(Shown(mb2, w)) = Len(w)
      /\ \A j \in 1..Len(w) :
           Shown(mb2, w)[j] = [name |-> mb2[w[j]].name, sock |-> mb2[w[j]].sock]
  <2>1. w \in Seq(Heap) /\ \A j \in 1..Len(w) : mb2[w[j]] \in Member BY <1>2, <1>6
  <2>2. Shown(mb2, w) \in Seq(CG!Member) BY <2>1, ShownIs
  <2>3. Len(Shown(mb2, w)) = Len(w) BY <2>1, ShownIs
  <2>4. \A j \in 1..Len(w) :
          Shown(mb2, w)[j] = [name |-> mb2[w[j]].name, sock |-> mb2[w[j]].sock]
    BY <2>1, ShownIs
  <2>. QED BY <2>2, <2>3, <2>4
<1>8. ASSUME NEW j \in 1..Len(s)-1 PROVE Shown(mb2, w)[j] = v[j]
  <2>1. /\ mb2[w[j]].name = mb[s[K(j)]].name
        /\ mb2[w[j]].sock = mb[s[K(j)]].sock
    BY <1>6
  <2>2. Shown(mb2, w)[j] = [name |-> mb2[w[j]].name, sock |-> mb2[w[j]].sock]
    BY <1>2, <1>7
  <2>3. v[j] = [name |-> mb[s[K(j)]].name, sock |-> mb[s[K(j)]].sock]
    <3>1. v[j] = Shown(mb, s)[K(j)] /\ K(j) \in 1..Len(s) BY <1>2, <1>5
    <3>. QED BY <1>4, <3>1
  <2>. QED BY <2>1, <2>2, <2>3
<1>9. Shown(mb2, w) = v BY <1>2, <1>5, <1>7, <1>8, SeqEqual
<1>. QED BY <1>9 DEF w, v

LEMMA ShownSame ==
    ASSUME NEW mb, NEW mb2, NEW s \in Seq(Heap),
           \A i \in 1..Len(s) : /\ mb2[s[i]].name = mb[s[i]].name
                                /\ mb2[s[i]].sock = mb[s[i]].sock
    PROVE  Shown(mb2, s) = Shown(mb, s)
<1>1. DOMAIN s = 1..Len(s) BY LenProperties
<1>. QED BY <1>1 DEF Shown
-----------------------------------------------------------------------------
(* Each step of the lists is a step of the table of ChatGroups.            *)
Refined == [CG!GroupsNext]_(CG!groupVars)

LEMMA TableNow ==
    ASSUME NEW L, Linked(first, memb, allocated, L)
    PROVE  Table = [g \in Groups |-> Shown(memb, L[g])]
BY TableIs DEF Table, List

LEMMA TableNext ==
    ASSUME NEW L, Linked(first', memb', allocated', L)
    PROVE  Table' = [g \in Groups |-> Shown(memb', L[g])]
BY TableIs DEF Table, List

LEMMA InitImplements ==
    ASSUME Init PROVE CG!initgroups
<1>1. PICK L : Linked(first, memb, allocated, L) BY Initially DEF Inv
<1>2. ASSUME NEW g \in Groups PROVE Shown(memb, L[g]) = <<>>
  <2>1. L[g] \in Seq(Heap) /\ Len(L[g]) \in Nat /\ DOMAIN L[g] = 1..Len(L[g])
    BY <1>1, ListsOf
  <2>2. NULL = Node(L[g], 1) BY <1>1 DEF Init, Linked, Leads
  <2>3. 1 \notin 1..Len(L[g]) BY <2>1, <2>2, ElementOfSeq, HeapAssumption DEF Node
  <2>4. Len(L[g]) = 0 BY <2>1, <2>3
  <2>5. DOMAIN L[g] = {} BY <2>1, <2>4
  <2>6. Shown(memb, L[g]) \in Seq(CG!Member) /\ Len(Shown(memb, L[g])) = 0
    <3>1. \A i \in 1..Len(L[g]) : memb[L[g][i]] \in Member BY <2>4
    <3>. QED BY <2>1, <2>4, <3>1, ShownIs
  <2>. QED BY <2>6, EmptySeq
<1>3. Table = [g \in Groups |-> <<>>] BY <1>1, <1>2, TableNow
<1>. QED BY <1>3 DEF CG!initgroups, CG!Groups, Groups, Init

LEMMA JoinImplements ==
    ASSUME Inv, NEW sock \in Socks, NEW g \in Groups, NEW n \in Names,
           joingroup(sock, g, n)
    PROVE  CG!admits(g, n) /\ CG!enter(sock, g, n)
<1>1. PICK L : Linked(first, memb, allocated, L) BY DEF Inv
<1>2. PICK m \in Heap \ allocated : Joins(sock, g, n, m)
  BY DEF joingroup, Joins
<1>. DEFINE K == [L EXCEPT ![g] = <<m>> \o L[g]]
            r == [name |-> n, sock |-> sock]
<1>3. /\ Linked(first', memb', allocated', K)
      /\ Pushed(memb, memb', m, first[g])
      /\ memb'[m] = [name |-> n, sock |-> sock, grid |-> g,
                     next |-> first[g], prev |-> NULL]
  BY <1>1, <1>2, JoinLinks
<1>4. /\ DOMAIN K = Groups /\ K[g] = <<m>> \o L[g]
      /\ \A h \in Groups \ {g} : K[h] = L[h]
  BY <1>1 DEF Linked
<1>5. \A h \in Groups : /\ L[h] \in Seq(Heap) /\ Len(L[h]) \in Nat
                        /\ DOMAIN L[h] = 1..Len(L[h]) /\ List(h) = L[h]
  BY <1>1, ListsOf DEF List
<1>6. \A h \in Groups : \A i \in 1..Len(L[h]) :
        /\ memb[L[h][i]] \in Member /\ L[h][i] # m /\ L[h][i] \in Heap
  BY <1>1, <1>2 DEF Linked, Leads
<1>7. /\ Table = [h \in Groups |-> Shown(memb, L[h])] BY <1>1, TableNow
<1>8. Table' = [h \in Groups |-> Shown(memb', K[h])]
  <2>. HIDE DEF K
  <2>. QED BY <1>3, TableNext
<1>. HIDE DEF K
<1>9. memb'[m] \in Member
  <2>1. /\ DOMAIN K = Groups /\ Leads(g, first'[g], memb', allocated', K[g])
    BY <1>3 DEF Linked
  <2>2. /\ K[g][1] = m /\ 1 \in 1..Len(K[g]) BY <1>4, <1>5, InFront
  <2>. QED BY <2>1, <2>2 DEF Leads
<1>10. Shown(memb', K[g]) = <<r>> \o Shown(memb, L[g])
  <2>1. L[g] \in Seq(Heap) /\ \A i \in 1..Len(L[g]) : memb[L[g][i]] \in Member /\ L[g][i] # m
    BY <1>5, <1>6
  <2>2. Shown(memb', <<m>> \o L[g]) =
          <<[name |-> memb'[m].name, sock |-> memb'[m].sock]>> \o Shown(memb, L[g])
    <3>1. Pushed(memb, memb', m, first[g]) BY <1>3
    <3>2. \A i \in 1..Len(L[g]) : memb[L[g][i]] \in Member /\ L[g][i] # m BY <2>1
    <3>3. L[g] \in Seq(Heap) /\ m \in Heap BY <2>1
    <3>. HIDE DEF r
    <3>. QED BY <1>9, <3>1, <3>2, <3>3, ShownJoin, ZenonT(60)
  <2>. QED BY <1>3, <1>4, <2>2
<1>11. ASSUME NEW h \in Groups, h # g PROVE Shown(memb', K[h]) = Shown(memb, L[h])
  <2>1. \A i \in 1..Len(L[h]) : /\ memb'[L[h][i]].name = memb[L[h][i]].name
                                /\ memb'[L[h][i]].sock = memb[L[h][i]].sock
    BY <1>3, <1>6 DEF Pushed
  <2>2. L[h] \in Seq(Heap) /\ K[h] = L[h] BY <1>4, <1>5, <1>11
  <2>. QED BY <2>1, <2>2, ShownSame
<1>12. Table' = [Table EXCEPT ![g] = <<r>> \o Table[g]]
  BY <1>7, <1>8, <1>10, <1>11
<1>13. occu' = [occu EXCEPT ![g] = @ + 1] /\ capa[g] # occu[g] /\ ~findmemberbyname(n)
  BY DEF joingroup
<1>14. CG!enter(sock, g, n) BY <1>12, <1>13 DEF CG!enter
<1>15. ~CG!findmemberbyname(n)
  <2>1. SUFFICES ASSUME NEW h \in Groups, NEW i \in DOMAIN Table[h], Table[h][i].name = n
                 PROVE  FALSE
    BY DEF CG!findmemberbyname, CG!Groups, Groups
  <2>2. /\ DOMAIN Shown(memb, L[h]) = 1..Len(L[h])
        /\ \A k \in 1..Len(L[h]) :
             Shown(memb, L[h])[k] = [name |-> memb[L[h][k]].name, sock |-> memb[L[h][k]].sock]
    <3>1. L[h] \in Seq(Heap) /\ \A k \in 1..Len(L[h]) : memb[L[h][k]] \in Member
      BY <1>5, <1>6
    <3>. QED BY <3>1, ShownIs
  <2>3. i \in 1..Len(L[h]) /\ memb[L[h][i]].name = n
    <3>1. Table[h] = Shown(memb, L[h]) BY <1>7
    <3>2. i \in 1..Len(L[h]) /\ Shown(memb, L[h])[i].name = n BY <2>1, <2>2, <3>1
    <3>3. Shown(memb, L[h])[i].name = memb[L[h][i]].name BY <1>5, <3>2, ShownFields
    <3>. QED BY <3>2, <3>3
  <2>4. List(h)[i] \in Visited(h) /\ memb[List(h)[i]].name = n BY <1>5, <2>3 DEF Visited
  <2>. QED BY <1>13, <2>4 DEF findmemberbyname
<1>. QED BY <1>13, <1>14, <1>15 DEF CG!admits, CG!Groups, Groups

LEMMA LeaveImplements ==
    ASSUME Inv, NEW sock \in Socks, leavegroup(sock)
    PROVE  CG!leavegroup(sock)
<1>1. PICK L : Linked(first, memb, allocated, L) BY DEF Inv
<1>. DEFINE G == {h \in Groups : Positions(h, sock) # {}}
            g == Lowest(G)
            p == Lowest(Positions(g, sock))
<1>2. /\ findmemberbysock(sock) # NULL /\ Drops(findmemberbysock(sock))
      /\ occu' = [occu EXCEPT ![memb[findmemberbysock(sock)].grid] = @ - 1]
  BY DEF leavegroup, Drops
<1>3. /\ G # {} /\ g \in Groups /\ p \in 1..Len(L[g])
      /\ findmemberbysock(sock) = L[g][p]
  BY <1>1, <1>2, WhoLeaves
<1>4. \A h \in Groups : /\ L[h] \in Seq(Heap) /\ Len(L[h]) \in Nat
                        /\ DOMAIN L[h] = 1..Len(L[h]) /\ List(h) = L[h]
  BY <1>1, ListsOf DEF List
<1>5. \A h \in Groups :
        /\ \A i \in 1..Len(L[h]) :
             /\ memb[L[h][i]] \in Member /\ memb[L[h][i]].grid = h /\ L[h][i] \in Heap
        /\ \A i, j \in 1..Len(L[h]) : L[h][i] = L[h][j] => i = j
  BY <1>1 DEF Linked, Leads
<1>6. Table = [h \in Groups |-> Shown(memb, L[h])] BY <1>1, TableNow
(* It is the one whom ChatGroups removes.                                  *)
<1>7. ASSUME NEW h \in Groups PROVE CG!Positions(h, sock) = Positions(h, sock)
  <2>1. /\ DOMAIN Shown(memb, L[h]) = 1..Len(L[h])
        /\ \A k \in 1..Len(L[h]) :
             Shown(memb, L[h])[k] = [name |-> memb[L[h][k]].name, sock |-> memb[L[h][k]].sock]
    <3>1. L[h] \in Seq(Heap) /\ \A k \in 1..Len(L[h]) : memb[L[h][k]] \in Member
      BY <1>4, <1>5
    <3>. QED BY <3>1, ShownIs
  <2>2. CG!Positions(h, sock) = {i \in 1..Len(L[h]) : memb[L[h][i]].sock = sock}
    <3>1. Table[h] = Shown(memb, L[h]) BY <1>6
    <3>2. CG!Positions(h, sock) = {i \in 1..Len(L[h]) : Shown(memb, L[h])[i].sock = sock}
      BY <2>1, <3>1 DEF CG!Positions
    <3>3. \A i \in 1..Len(L[h]) : Shown(memb, L[h])[i].sock = memb[L[h][i]].sock
      BY <1>4, ShownFields
    <3>. QED BY <3>2, <3>3
  <2>3. Positions(h, sock) = {i \in 1..Len(L[h]) : memb[L[h][i]].sock = sock}
    BY <1>4 DEF Positions
  <2>. QED BY <2>2, <2>3
<1>8. CG!findmemberbysock(sock) = G
  BY <1>7 DEF CG!findmemberbysock, CG!Groups, Groups
<1>9. CG!Lowest(CG!findmemberbysock(sock)) = g BY <1>8 DEF CG!Lowest, Lowest
<1>. HIDE DEF G, g
<1>10. CG!Lowest(CG!Positions(g, sock)) = p BY <1>3, <1>7 DEF CG!Lowest, Lowest
<1>. HIDE DEF p
<1>. DEFINE K == [L EXCEPT ![g] = CG!Without(L[g], p)]
<1>11. /\ Linked(first', memb', allocated', K)
       /\ Cut(memb, memb', L[g][p], first[g] = L[g][p],
              memb[L[g][p]].next, memb[L[g][p]].prev)
  BY <1>1, <1>2, <1>3, DropLinks
<1>12. /\ DOMAIN K = Groups /\ K[g] = CG!Without(L[g], p)
       /\ \A h \in Groups \ {g} : K[h] = L[h]
  <2>1. DOMAIN L = Groups /\ g \in Groups BY <1>1, <1>3 DEF Linked
  <2>. QED BY <2>1
<1>. HIDE DEF K
<1>13. Table' = [h \in Groups |-> Shown(memb', K[h])] BY <1>11, TableNext
<1>14. Shown(memb', K[g]) = CG!Without(Shown(memb, L[g]), p)
  <2>1. /\ L[g] \in Seq(Heap) /\ \A i \in 1..Len(L[g]) : memb[L[g][i]] \in Member
        /\ \A i, j \in 1..Len(L[g]) : L[g][i] = L[g][j] => i = j
        /\ p \in 1..Len(L[g])
    BY <1>3, <1>4, <1>5
  <2>2. \A x \in Heap \ {L[g][p]} :
           memb[x] \in Member => /\ memb'[x] \in Member
                                /\ memb'[x].name = memb[x].name
                                /\ memb'[x].sock = memb[x].sock
    BY <1>11 DEF Cut
  <2>3. Shown(memb', CG!Without(L[g], p)) = CG!Without(Shown(memb, L[g]), p)
    BY <2>1, <2>2, ShownLeave
  <2>. QED BY <1>12, <2>3
<1>15. ASSUME NEW h \in Groups, h # g PROVE Shown(memb', K[h]) = Shown(memb, L[h])
  <2>1. ASSUME NEW i \in 1..Len(L[h])
        PROVE  /\ memb'[L[h][i]].name = memb[L[h][i]].name
               /\ memb'[L[h][i]].sock = memb[L[h][i]].sock
    <3>1. memb[L[h][i]].grid = h /\ memb[L[g][p]].grid = g /\ memb[L[h][i]] \in Member
          /\ L[h][i] \in Heap
      BY <1>3, <1>5
    <3>2. L[h][i] \in Heap \ {L[g][p]} BY <1>15, <3>1
    <3>. QED BY <1>11, <3>1, <3>2 DEF Cut
  <2>. QED BY <1>4, <1>12, <1>15, <2>1, ShownSame
<1>16. Table' = [Table EXCEPT ![g] = CG!Without(Table[g], p)]
  BY <1>3, <1>6, <1>13, <1>14, <1>15
<1>17. occu' = [occu EXCEPT ![g] = @ - 1]
  <2>1. memb[findmemberbysock(sock)].grid = g BY <1>3, <1>5
  <2>. QED BY <1>2, <2>1
<1>18. CG!findmemberbysock(sock) # {} BY <1>3, <1>8
<1>. QED BY <1>9, <1>10, <1>16, <1>17, <1>18 DEF CG!leavegroup

LEMMA StepImplements == Inv /\ [Next]_vars => Refined
<1>. SUFFICES ASSUME Inv, [Next]_vars PROVE Refined
  OBVIOUS
<1>1. CASE UNCHANGED vars
  BY <1>1 DEF vars, Refined, CG!groupVars, Table, List, Chain
<1>2. ASSUME NEW sock \in Socks, NEW g \in Groups, NEW n \in Names,
             joingroup(sock, g, n)
      PROVE  Refined
  <2>1. CG!admits(g, n) /\ CG!enter(sock, g, n) BY <1>2, JoinImplements
  <2>2. g \in CG!Groups BY DEF CG!Groups, Groups
  <2>. QED BY <2>1, <2>2 DEF Refined, CG!GroupsNext
<1>3. ASSUME NEW sock \in Socks, leavegroup(sock) PROVE Refined
  <2>1. CG!leavegroup(sock) BY <1>3, LeaveImplements
  <2>. QED BY <2>1 DEF Refined, CG!GroupsNext
<1>. QED BY <1>1, <1>2, <1>3 DEF Next

(* The linked lists behave as the sequences of ChatGroups: every joingroup *)
(* and leavegroup on the nodes is one on the table (chatserver.c:382-471). *)
THEOREM ListsAreTheTable == Spec => ImplementsGroups
<1>1. Init => CG!initgroups BY InitImplements
<1>. QED BY <1>1, Initially, Inductive, StepImplements, PTL
     DEF Spec, ImplementsGroups, CG!GroupsSpec, Refined

(* So the count that the server keeps of a group is the number of nodes in *)
(* its list, and within its capacity (chatserver.c:403-404, 431, 462).     *)
THEOREM CountsTheNodes ==
    Spec => [](\A g \in Groups : occu[g] = Len(List(g)) /\ occu[g] <= capa[g])
<1>1. ASSUME Inv, CG!Occupancy
      PROVE  \A g \in Groups : occu[g] = Len(List(g)) /\ occu[g] <= capa[g]
  <2>1. PICK L : Linked(first, memb, allocated, L) BY <1>1 DEF Inv
  <2>2. SUFFICES ASSUME NEW g \in Groups
                 PROVE  occu[g] = Len(List(g)) /\ occu[g] <= capa[g]
    OBVIOUS
  <2>3. L[g] \in Seq(Heap) /\ List(g) = L[g] BY <2>1, ListsOf DEF List
  <2>4. \A i \in 1..Len(L[g]) : memb[L[g][i]] \in Member
    BY <2>1 DEF Linked, Leads
  <2>5. Len(Table[g]) = Len(L[g])
    <3>1. Table[g] = Shown(memb, L[g]) BY <2>1, TableNow
    <3>. QED BY <2>3, <2>4, <3>1, ShownIs
  <2>. QED BY <1>1, <2>3, <2>5 DEF CG!Occupancy, CG!Groups, Groups
<1>2. /\ ngroups \in Nat /\ capa \in [CGP!Groups -> Nat] /\ Socks \subseteq Nat
  BY HeapAssumption DEF Groups, CGP!Groups
<1>3. CGP!GroupsSpec => []CGP!Occupancy BY <1>2, CGP!CountsAreRight
<1>4. CGP!Occupancy => CG!Occupancy
  BY DEF CGP!Occupancy, CG!Occupancy, CGP!Groups, CG!Groups
<1>5. CG!initgroups => CGP!initgroups
  BY DEF CGP!initgroups, CG!initgroups, CGP!Groups, CG!Groups
<1>6. [CG!GroupsNext]_(CG!groupVars) => [CGP!GroupsNext]_(CGP!groupVars)
  <2>1. CG!groupVars = CGP!groupVars BY DEF CG!groupVars, CGP!groupVars
  <2>2. UNCHANGED CG!groupVars => UNCHANGED CGP!groupVars
    BY DEF CG!groupVars, CGP!groupVars
  <2>3. CG!Groups = CGP!Groups BY DEF CG!Groups, CGP!Groups
  <2>4. \A g, n : CG!admits(g, n) => CGP!admits(g, n)
    BY DEF CG!admits, CGP!admits, CG!Groups, CGP!Groups,
           CG!findmemberbyname, CGP!findmemberbyname
  <2>5. \A sock, g, n : CG!enter(sock, g, n) => CGP!enter(sock, g, n)
    BY DEF CG!enter, CGP!enter
  <2>6. \A sock, g : CG!Positions(g, sock) = CGP!Positions(g, sock)
    BY DEF CG!Positions, CGP!Positions
  <2>7. \A sock : CG!findmemberbysock(sock) = CGP!findmemberbysock(sock)
    BY <2>3, <2>6 DEF CG!findmemberbysock, CGP!findmemberbysock
  <2>8. \A S : CG!Lowest(S) = CGP!Lowest(S) BY Zenon DEF CG!Lowest, CGP!Lowest
  <2>9. \A s, i : CG!Without(s, i) = CGP!Without(s, i)
    BY Zenon DEF CG!Without, CGP!Without
  <2>10. \A sock : CG!leavegroup(sock) => CGP!leavegroup(sock)
    <3>1. SUFFICES ASSUME NEW sock, CG!leavegroup(sock) PROVE CGP!leavegroup(sock)
      OBVIOUS
    <3>. DEFINE g == CG!Lowest(CG!findmemberbysock(sock))
                p == CG!Lowest(CG!Positions(g, sock))
    <3>2. g = CGP!Lowest(CGP!findmemberbysock(sock)) BY <2>7, <2>8
    <3>3. p = CGP!Lowest(CGP!Positions(g, sock)) BY <2>6, <2>8
    <3>4. CASE CG!findmemberbysock(sock) = {}
      <4>1. UNCHANGED CGP!groupVars BY <2>2, <3>1, <3>4 DEF CG!leavegroup
      <4>. QED BY <2>7, <3>4, <4>1 DEF CGP!leavegroup
    <3>5. CASE CG!findmemberbysock(sock) # {}
      <4>1. /\ Table' = [Table EXCEPT ![g] = CG!Without(Table[g], p)]
            /\ occu' = [occu EXCEPT ![g] = occu[g] - 1]
        BY <3>1, <3>5 DEF CG!leavegroup
      <4>. HIDE DEF g, p
      <4>2. Table' = [Table EXCEPT ![g] = CGP!Without(Table[g], p)] BY <2>9, <4>1
      <4>3. CGP!findmemberbysock(sock) # {} BY <2>7, <3>5
      <4>. QED BY <3>2, <3>3, <4>1, <4>2, <4>3 DEF CGP!leavegroup
    <3>. QED BY <3>4, <3>5
  <2>. QED BY <2>2, <2>3, <2>4, <2>5, <2>10 DEF CG!GroupsNext, CGP!GroupsNext
<1>. QED BY <1>1, <1>3, <1>4, <1>5, <1>6, ListsAreTheTable, Initially, Inductive, PTL
     DEF Spec, ImplementsGroups, CG!GroupsSpec, CGP!GroupsSpec
=============================================================================
