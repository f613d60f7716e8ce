-------------------------- MODULE ChatGroupsProofs --------------------------
(***************************************************************************)
(* What holds of the table of chat rooms whatever the server is asked to   *)
(* do, for any number of groups, any capacities, names and sockets.        *)
(***************************************************************************)
EXTENDS ChatGroups, SequenceTheorems, WellFoundedInduction, TLAPS

(* A non-empty set of numbers has a lowest element, which Lowest chooses.  *)
LEMMA LowestIsOne ==
    ASSUME NEW S, S \subseteq Nat, S # {}
    PROVE  Lowest(S) \in S
<1>1. PICK x \in S : \A y \in S : ~ (<<y, x>> \in OpToRel(<, Nat))
  BY NatLessThanWellFounded, WFMin
<1>2. \A y \in S : x <= y
  <2>1. SUFFICES ASSUME NEW y \in S PROVE x <= y
    OBVIOUS
  <2>2. x \in Nat /\ y \in Nat
    OBVIOUS
  <2>3. y < x => <<y, x>> \in OpToRel(<, Nat)
    BY <2>2 DEF OpToRel
  <2>4. ~(y < x)
    BY <2>3, <1>1
  <2>. QED  BY <2>2, <2>4
<1>. QED  BY <1>2 DEF Lowest

(* Without(s, i) is s with its i-th element removed.                       *)
Kept(i, j) == IF j < i THEN j ELSE j + 1

LEMMA WithoutProperties ==
    ASSUME NEW S, NEW s \in Seq(S), NEW i \in 1..Len(s)
    PROVE  /\ Without(s, i) \in Seq(S)
           /\ Len(Without(s, i)) = Len(s) - 1
           /\ \A j \in 1..Len(s)-1 : /\ Without(s, i)[j] = s[Kept(i, j)]
                                     /\ Kept(i, j) \in 1..Len(s)
<1>. DEFINE a == SubSeq(s, 1, i - 1)
            b == SubSeq(s, i + 1, Len(s))
<1>0. Len(s) \in Nat /\ \A j \in 1..Len(s) : s[j] \in S
  BY LenProperties, ElementOfSeq
<1>1. /\ a \in Seq(S) /\ Len(a) = i - 1
      /\ \A j \in 1..i-1 : a[j] = s[j]
  <2>1. i - 1 \in Int /\ 1 \in Int /\ \A j \in 1..i-1 : s[j] \in S
    BY <1>0
  <2>2. /\ a \in Seq(S) /\ Len(a) = IF 1 <= i - 1 THEN (i - 1) - 1 + 1 ELSE 0
        /\ \A j \in 1..(i-1)-1+1 : a[j] = s[1+j-1]
    BY <2>1, SubSeqProperties
  <2>. QED  BY <2>2
<1>2. /\ b \in Seq(S) /\ Len(b) = Len(s) - i
      /\ \A j \in 1..Len(s)-i : b[j] = s[i + j]
  <2>1. i + 1 \in Int /\ Len(s) \in Int /\ \A j \in i+1..Len(s) : s[j] \in S
    BY <1>0
  <2>2. /\ b \in Seq(S)
        /\ Len(b) = IF i + 1 <= Len(s) THEN Len(s) - (i + 1) + 1 ELSE 0
        /\ \A j \in 1..Len(s)-(i+1)+1 : b[j] = s[(i+1)+j-1]
    BY <2>1, SubSeqProperties
  <2>. QED  BY <2>2, <1>0
<1>3. /\ a \o b \in Seq(S) /\ Len(a \o b) = Len(a) + Len(b)
      /\ \A j \in 1..Len(a)+Len(b) :
            (a \o b)[j] = IF j <= Len(a) THEN a[j] ELSE b[j - Len(a)]
  BY <1>1, <1>2, ConcatProperties
<1>4. Without(s, i) = a \o b
  BY DEF Without
<1>. HIDE DEF a, b
<1>5. ASSUME NEW j \in 1..Len(s)-1
      PROVE  (a \o b)[j] = s[Kept(i, j)] /\ Kept(i, j) \in 1..Len(s)
  <2>1. CASE j < i
    BY <2>1, <1>0, <1>1, <1>2, <1>3 DEF Kept
  <2>2. CASE j >= i
    <3>1. (a \o b)[j] = b[j - (i - 1)] /\ j - (i - 1) \in 1..Len(s)-i
      BY <2>2, <1>0, <1>1, <1>2, <1>3
    <3>2. b[j - (i - 1)] = s[i + (j - (i - 1))]
      BY <3>1, <1>2
    <3>3. i + (j - (i - 1)) = j + 1
      BY <1>0
    <3>4. Kept(i, j) = j + 1 /\ j + 1 \in 1..Len(s)
      BY <2>2, <1>0 DEF Kept
    <3>. QED  BY <3>1, <3>2, <3>3, <3>4
  <2>3. j < i \/ j >= i
    BY <1>0
  <2>. QED  BY <2>1, <2>2, <2>3
<1>6. Len(a \o b) = Len(s) - 1
  BY <1>0, <1>1, <1>2, <1>3
<1>. QED  BY <1>3, <1>4, <1>5, <1>6

-----------------------------------------------------------------------------
TableOK == /\ mems \in [Groups -> Seq(Member)]
           /\ occu \in [Groups -> Nat]

GroupsInv == TableOK /\ Occupancy /\ NamesUnique

(* leavegroup removes one member, who has the socket, and counts it.       *)
Leaves(g, i) == /\ mems' = [mems EXCEPT ![g] = Without(@, i)]
                /\ occu' = [occu EXCEPT ![g] = @ - 1]

LEMMA OneLeaves ==
    ASSUME TableOK, NEW sock, leavegroup(sock)
    PROVE  \/ findmemberbysock(sock) = {} /\ UNCHANGED groupVars
           \/ \E g \in Groups : \E i \in 1..Len(mems[g]) :
                 Leaves(g, i) /\ mems[g][i].sock = sock
<1>1. CASE findmemberbysock(sock) = {}
  BY <1>1 DEF leavegroup
<1>2. CASE findmemberbysock(sock) # {}
  <2>. DEFINE g == Lowest(findmemberbysock(sock))
              i == Lowest(Positions(g, sock))
  <2>1. /\ findmemberbysock(sock) \subseteq Nat
        /\ findmemberbysock(sock) \subseteq Groups
    BY GroupsAssumption DEF findmemberbysock, Groups
  <2>2. g \in findmemberbysock(sock)
    BY <1>2, <2>1, LowestIsOne
  <2>3. g \in Groups /\ Positions(g, sock) # {}
    BY <2>1, <2>2 DEF findmemberbysock
  <2>4. mems[g] \in Seq(Member) /\ Len(mems[g]) \in Nat
        /\ DOMAIN mems[g] = 1..Len(mems[g])
    BY <2>3, LenProperties DEF TableOK
  <2>5. Positions(g, sock) \subseteq 1..Len(mems[g])
    BY <2>4 DEF Positions
  <2>6. i \in Positions(g, sock)
    BY <2>3, <2>4, <2>5, LowestIsOne
  <2>7. Leaves(g, i)
    BY <1>2 DEF leavegroup, Leaves
  <2>8. mems[g][i].sock = sock
    BY <2>6 DEF Positions
  <2>. QED  BY <2>3, <2>5, <2>6, <2>7, <2>8
<1>. QED  BY <1>1, <1>2

LEMMA InitGroups == initgroups => GroupsInv
<1>. SUFFICES ASSUME initgroups PROVE GroupsInv
  OBVIOUS
<1>1. \A g \in Groups : /\ mems[g] = <<>> /\ occu[g] = 0
                        /\ mems[g] \in Seq(Member) /\ Len(mems[g]) = 0
                        /\ DOMAIN mems[g] = {}
  BY EmptySeq DEF initgroups
<1>2. TableOK
  BY <1>1 DEF TableOK, initgroups
<1>3. Occupancy
  BY <1>1, GroupsAssumption DEF Occupancy
<1>4. NamesUnique
  BY <1>1 DEF NamesUnique
<1>. QED  BY <1>2, <1>3, <1>4 DEF GroupsInv

(* joingroup puts the member in front.                                     *)
LEMMA InFront ==
    ASSUME NEW S, NEW s \in Seq(S), NEW m \in S
    PROVE  /\ <<m>> \o s \in Seq(S)
           /\ Len(<<m>> \o s) = Len(s) + 1
           /\ DOMAIN (<<m>> \o s) = 1..Len(s)+1
           /\ (<<m>> \o s)[1] = m
           /\ \A j \in 2..Len(s)+1 : (<<m>> \o s)[j] = s[j - 1]
<1>1. <<m>> \in Seq(S) /\ Len(<<m>>) = 1 /\ <<m>>[1] = m
  OBVIOUS
<1>2. Len(s) \in Nat
  BY LenProperties
<1>3. /\ <<m>> \o s \in Seq(S) /\ Len(<<m>> \o s) = 1 + Len(s)
      /\ \A j \in 1..1+Len(s) :
            (<<m>> \o s)[j] = IF j <= 1 THEN <<m>>[j] ELSE s[j - 1]
  BY <1>1, ConcatProperties
<1>4. DOMAIN (<<m>> \o s) = 1..Len(<<m>> \o s)
  BY <1>3, LenProperties
<1>5. 1 + Len(s) = Len(s) + 1 /\ 1 \in 1..1+Len(s)
  BY <1>2
<1>6. (<<m>> \o s)[1] = m
  BY <1>1, <1>3, <1>5
<1>7. \A j \in 2..Len(s)+1 : j \in 1..1+Len(s) /\ ~(j <= 1)
  BY <1>2
<1>. QED  BY <1>3, <1>4, <1>5, <1>6, <1>7

(* Who is a member after a step was one before, at a place that tells the  *)
(* members apart, or is the new one.                                       *)
BeforeEnter(g, h, j) == IF h = g THEN j - 1 ELSE j

LEMMA MembersAfterEnter ==
    ASSUME TableOK, NEW sock \in Socks, NEW g \in Groups, NEW n \in Names,
           enter(sock, g, n)
    PROVE  /\ TableOK'
           /\ Len(mems'[g]) = Len(mems[g]) + 1
           /\ \A h \in Groups : \A j \in DOMAIN mems'[h] :
                 \/ h = g /\ j = 1 /\ mems'[h][j] = [name |-> n, sock |-> sock]
                 \/ /\ ~(h = g /\ j = 1)
                    /\ j \in Nat
                    /\ BeforeEnter(g, h, j) \in DOMAIN mems[h]
                    /\ mems'[h][j] = mems[h][BeforeEnter(g, h, j)]
<1>. DEFINE m == [name |-> n, sock |-> sock]
            t == <<m>> \o mems[g]
<1>1. m \in Member
  BY DEF Member
<1>2. /\ mems[g] \in Seq(Member) /\ Len(mems[g]) \in Nat
      /\ DOMAIN mems[g] = 1..Len(mems[g])
  BY LenProperties DEF TableOK
<1>3. /\ t \in Seq(Member) /\ Len(t) = Len(mems[g]) + 1
      /\ DOMAIN t = 1..Len(mems[g])+1
      /\ t[1] = m
      /\ \A j \in 2..Len(mems[g])+1 : t[j] = mems[g][j - 1]
  BY <1>1, <1>2, InFront
<1>4. /\ mems' = [mems EXCEPT ![g] = t]
      /\ occu' = [occu EXCEPT ![g] = occu[g] + 1]
  BY DEF enter
<1>. HIDE DEF t
<1>5. mems'[g] = t /\ \A h \in Groups \ {g} : mems'[h] = mems[h]
  BY <1>4 DEF TableOK
<1>6. TableOK'
  BY <1>3, <1>4 DEF TableOK
<1>7. SUFFICES ASSUME NEW h \in Groups, NEW j \in DOMAIN mems'[h]
               PROVE  \/ h = g /\ j = 1 /\ mems'[h][j] = m
                      \/ /\ ~(h = g /\ j = 1)
                         /\ j \in Nat
                         /\ BeforeEnter(g, h, j) \in DOMAIN mems[h]
                         /\ mems'[h][j] = mems[h][BeforeEnter(g, h, j)]
  BY <1>3, <1>5, <1>6
<1>8. CASE h = g /\ j = 1
  BY <1>8, <1>3, <1>5
<1>9. CASE h = g /\ j # 1
  <2>1. j \in 1..Len(mems[g])+1
    BY <1>9, <1>3, <1>5
  <2>2. j \in 2..Len(mems[g])+1 /\ j - 1 \in 1..Len(mems[g]) /\ j \in Nat
    BY <1>9, <2>1, <1>2
  <2>3. mems'[h][j] = mems[h][j - 1]
    BY <1>9, <2>2, <1>3, <1>5
  <2>. QED  BY <1>9, <2>2, <2>3, <1>2 DEF BeforeEnter
<1>10. CASE h # g
  <2>1. mems'[h] = mems[h]
    BY <1>10, <1>5
  <2>2. DOMAIN mems[h] = 1..Len(mems[h]) /\ Len(mems[h]) \in Nat
    BY LenProperties DEF TableOK
  <2>. QED  BY <1>10, <2>1, <2>2 DEF BeforeEnter
<1>. QED  BY <1>8, <1>9, <1>10

BeforeLeave(g, i, h, j) == IF h = g THEN Kept(i, j) ELSE j

LEMMA MembersAfterLeave ==
    ASSUME TableOK, NEW g \in Groups, NEW i \in 1..Len(mems[g]), Leaves(g, i)
    PROVE  /\ Len(mems'[g]) = Len(mems[g]) - 1
           /\ mems' \in [Groups -> Seq(Member)]
           /\ \A h \in Groups : \A j \in DOMAIN mems'[h] :
                 /\ j \in Nat
                 /\ BeforeLeave(g, i, h, j) \in DOMAIN mems[h]
                 /\ mems'[h][j] = mems[h][BeforeLeave(g, i, h, j)]
           /\ \A j, k \in Nat : Kept(i, j) = Kept(i, k) => j = k
           /\ \A j \in Nat : Kept(i, j) # i
<1>. DEFINE t == Without(mems[g], i)
<1>1. /\ mems[g] \in Seq(Member) /\ Len(mems[g]) \in Nat
      /\ DOMAIN mems[g] = 1..Len(mems[g])
  BY LenProperties DEF TableOK
<1>2. /\ t \in Seq(Member) /\ Len(t) = Len(mems[g]) - 1
      /\ \A j \in 1..Len(mems[g])-1 : /\ t[j] = mems[g][Kept(i, j)]
                                      /\ Kept(i, j) \in 1..Len(mems[g])
  BY <1>1, WithoutProperties
<1>3. DOMAIN t = 1..Len(mems[g])-1
  BY <1>2, LenProperties
<1>4. mems' = [mems EXCEPT ![g] = t]
  BY DEF Leaves
<1>. HIDE DEF t
<1>5. mems'[g] = t /\ \A h \in Groups \ {g} : mems'[h] = mems[h]
  BY <1>4 DEF TableOK
<1>6. mems' \in [Groups -> Seq(Member)]
  BY <1>2, <1>4 DEF TableOK
<1>7. ASSUME NEW h \in Groups, NEW j \in DOMAIN mems'[h]
      PROVE  /\ j \in Nat
             /\ BeforeLeave(g, i, h, j) \in DOMAIN mems[h]
             /\ mems'[h][j] = mems[h][BeforeLeave(g, i, h, j)]
  <2>1. CASE h = g
    <3>1. j \in 1..Len(mems[g])-1
      BY <2>1, <1>3, <1>5
    <3>2. mems'[h][j] = mems[g][Kept(i, j)] /\ Kept(i, j) \in 1..Len(mems[g])
      BY <2>1, <3>1, <1>2, <1>5
    <3>. QED  BY <2>1, <3>1, <3>2, <1>1 DEF BeforeLeave
  <2>2. CASE h # g
    <3>1. mems'[h] = mems[h]
      BY <2>2, <1>5
    <3>2. DOMAIN mems[h] = 1..Len(mems[h]) /\ Len(mems[h]) \in Nat
      BY LenProperties DEF TableOK
    <3>. QED  BY <2>2, <3>1, <3>2 DEF BeforeLeave
  <2>. QED  BY <2>1, <2>2
<1>8. /\ \A j, k \in Nat : Kept(i, j) = Kept(i, k) => j = k
      /\ \A j \in Nat : Kept(i, j) # i
  BY <1>1 DEF Kept
<1>. QED  BY <1>2, <1>5, <1>6, <1>7, <1>8

LEMMA SomebodyEnters ==
    ASSUME GroupsInv, NEW sock \in Socks, NEW g \in Groups, NEW n \in Names,
           admits(g, n), enter(sock, g, n)
    PROVE  GroupsInv'
<1>1. TableOK /\ Occupancy /\ NamesUnique
  BY DEF GroupsInv
<1>2. /\ TableOK' /\ Len(mems'[g]) = Len(mems[g]) + 1
      /\ \A h \in Groups : \A j \in DOMAIN mems'[h] :
            \/ h = g /\ j = 1 /\ mems'[h][j] = [name |-> n, sock |-> sock]
            \/ /\ ~(h = g /\ j = 1)
               /\ j \in Nat
               /\ BeforeEnter(g, h, j) \in DOMAIN mems[h]
               /\ mems'[h][j] = mems[h][BeforeEnter(g, h, j)]
  BY <1>1, MembersAfterEnter
<1>3. /\ occu'[g] = occu[g] + 1
      /\ \A h \in Groups \ {g} : mems'[h] = mems[h] /\ occu'[h] = occu[h]
  BY <1>1 DEF TableOK, enter
<1>4. Occupancy'
  <2>1. SUFFICES ASSUME NEW h \in Groups
                 PROVE  occu'[h] = Len(mems'[h]) /\ occu'[h] <= capa[h]
    BY DEF Occupancy
  <2>2. CASE h = g
    <3>1. capa[g] \in Nat /\ occu[g] \in Nat
      BY <1>1, GroupsAssumption DEF TableOK
    <3>2. occu[g] = Len(mems[g]) /\ occu[g] <= capa[g] /\ capa[g] # occu[g]
      BY <1>1 DEF Occupancy, admits
    <3>. QED  BY <2>2, <3>1, <3>2, <1>2, <1>3
  <2>3. CASE h # g
    BY <2>3, <1>1, <1>3 DEF Occupancy
  <2>. QED  BY <2>2, <2>3
<1>5. NamesUnique'
  <2>1. \A h \in Groups : \A j \in DOMAIN mems[h] : mems[h][j].name # n
    BY DEF admits, findmemberbyname
  <2>2. SUFFICES ASSUME NEW h \in Groups, NEW k \in Groups,
                        NEW i \in DOMAIN mems'[h], NEW j \in DOMAIN mems'[k],
                        mems'[h][i].name = mems'[k][j].name
                 PROVE  h = k /\ i = j
    BY DEF NamesUnique
  <2>3. CASE h = g /\ i = 1
    BY <2>3, <1>2, <2>1, <2>2
  <2>4. CASE k = g /\ j = 1
    BY <2>4, <1>2, <2>1, <2>2
  <2>5. CASE ~(h = g /\ i = 1) /\ ~(k = g /\ j = 1)
    <3>1. /\ BeforeEnter(g, h, i) \in DOMAIN mems[h]
          /\ mems'[h][i] = mems[h][BeforeEnter(g, h, i)]
          /\ BeforeEnter(g, k, j) \in DOMAIN mems[k]
          /\ mems'[k][j] = mems[k][BeforeEnter(g, k, j)]
          /\ i \in Nat /\ j \in Nat
      BY <1>2, <2>5
    <3>2. h = k /\ BeforeEnter(g, h, i) = BeforeEnter(g, k, j)
      BY <3>1, <2>2, <1>1 DEF NamesUnique
    <3>. QED  BY <3>1, <3>2 DEF BeforeEnter
  <2>. QED  BY <2>3, <2>4, <2>5
<1>. QED  BY <1>2, <1>4, <1>5 DEF GroupsInv

LEMMA SomebodyLeaves ==
    ASSUME GroupsInv, NEW g \in Groups, NEW i \in 1..Len(mems[g]), Leaves(g, i)
    PROVE  GroupsInv'
<1>1. TableOK /\ Occupancy /\ NamesUnique
  BY DEF GroupsInv
<1>2. /\ mems' \in [Groups -> Seq(Member)] /\ Len(mems'[g]) = Len(mems[g]) - 1
      /\ \A h \in Groups : \A j \in DOMAIN mems'[h] :
            /\ j \in Nat
            /\ BeforeLeave(g, i, h, j) \in DOMAIN mems[h]
            /\ mems'[h][j] = mems[h][BeforeLeave(g, i, h, j)]
      /\ \A j, k \in Nat : Kept(i, j) = Kept(i, k) => j = k
  BY <1>1, MembersAfterLeave
<1>3. /\ occu'[g] = occu[g] - 1
      /\ \A h \in Groups \ {g} : mems'[h] = mems[h] /\ occu'[h] = occu[h]
  BY <1>1 DEF TableOK, Leaves
<1>4. /\ occu[g] = Len(mems[g]) /\ occu[g] \in Nat /\ occu[g] - 1 \in Nat
      /\ occu[g] <= capa[g] /\ capa[g] \in Nat
  BY <1>1, GroupsAssumption DEF TableOK, Occupancy
<1>5. TableOK'
  BY <1>1, <1>2, <1>4 DEF TableOK, Leaves
<1>6. Occupancy'
  <2>1. SUFFICES ASSUME NEW h \in Groups
                 PROVE  occu'[h] = Len(mems'[h]) /\ occu'[h] <= capa[h]
    BY DEF Occupancy
  <2>2. CASE h = g
    BY <2>2, <1>2, <1>3, <1>4
  <2>3. CASE h # g
    BY <2>3, <1>1, <1>3 DEF Occupancy
  <2>. QED  BY <2>2, <2>3
<1>7. NamesUnique'
  <2>1. SUFFICES ASSUME NEW h \in Groups, NEW k \in Groups,
                        NEW a \in DOMAIN mems'[h], NEW b \in DOMAIN mems'[k],
                        mems'[h][a].name = mems'[k][b].name
                 PROVE  h = k /\ a = b
    BY DEF NamesUnique
  <2>2. h = k /\ BeforeLeave(g, i, h, a) = BeforeLeave(g, i, k, b)
    BY <1>2, <2>1, <1>1 DEF NamesUnique
  <2>. QED  BY <1>2, <2>2 DEF BeforeLeave
<1>. QED  BY <1>5, <1>6, <1>7 DEF GroupsInv

LEMMA GroupsStep == GroupsInv /\ [GroupsNext]_groupVars => GroupsInv'
<1>. SUFFICES ASSUME GroupsInv, [GroupsNext]_groupVars PROVE GroupsInv'
  OBVIOUS
<1>1. CASE UNCHANGED groupVars
  BY <1>1 DEF groupVars, GroupsInv, TableOK, Occupancy, NamesUnique
<1>2. ASSUME NEW sock \in Socks, NEW g \in Groups, NEW n \in Names,
             admits(g, n), enter(sock, g, n)
      PROVE  GroupsInv'
  BY <1>2, SomebodyEnters
<1>3. ASSUME NEW sock \in Socks, leavegroup(sock)
      PROVE  GroupsInv'
  <2>1. TableOK
    BY DEF GroupsInv
  <2>2. CASE \E g \in Groups : \E i \in 1..Len(mems[g]) : Leaves(g, i)
    BY <2>2, SomebodyLeaves
  <2>. QED  BY <2>1, <2>2, <1>1, <1>3, OneLeaves
<1>. QED  BY <1>1, <1>2, <1>3 DEF GroupsNext

(* Whoever joins and leaves, the count of each group is the number of its  *)
(* members and within its capacity (chatserver.c:404, 431, 462).           *)
THEOREM CountsAreRight == GroupsSpec => []Occupancy
<1>1. GroupsInv => Occupancy
  BY DEF GroupsInv
<1>. QED  BY <1>1, InitGroups, GroupsStep, PTL DEF GroupsSpec

(* Whoever joins and leaves, no two members share a nickname               *)
(* (chatserver.c:393-401).                                                 *)
THEOREM NamesStayUnique == GroupsSpec => []NamesUnique
<1>1. GroupsInv => NamesUnique
  BY DEF GroupsInv
<1>. QED  BY <1>1, InitGroups, GroupsStep, PTL DEF GroupsSpec
=============================================================================
