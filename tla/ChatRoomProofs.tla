--------------------------- MODULE ChatRoomProofs ---------------------------
(***************************************************************************)
(* What holds of the chat room as a whole, for any number of clients,      *)
(* groups and sockets and whatever the users do: the server's table is     *)
(* used as GroupsSpec says, no connection is in two groups, every member   *)
(* is connected, and who chats is a member and hears its own group.  The   *)
(* last part is about ChatPort: servers that find out about one another by *)
(* the symbolic link.                                                      *)
(***************************************************************************)
EXTENDS ChatRoom, ChatPort, ChatGroupsProofs

-----------------------------------------------------------------------------
(* Packets of the types T in a queue, by their positions.                  *)
Of(q, T) == {k \in 1..Len(q) : q[k].type \in T}

Asks(q)     == Of(q, {"JOIN_GROUP"})
Leavings(q) == Of(q, {"LEAVE_GROUP"})
Answers(r)  == Of(r, {"JOIN_ACCEPTED", "JOIN_REJECTED"})

LEMMA Appended ==
    ASSUME NEW S, NEW q \in Seq(S), NEW p \in S
    PROVE  /\ Append(q, p) \in Seq(S) /\ Len(Append(q, p)) = Len(q) + 1 /\ Len(q) \in Nat
           /\ \A k \in 1..Len(q) : Append(q, p)[k] = q[k]
           /\ Append(q, p)[Len(q) + 1] = p
BY AppendProperties, LenProperties

LEMMA TailOf ==
    ASSUME NEW S, NEW q \in Seq(S), q # <<>>
    PROVE  /\ Tail(q) \in Seq(S) /\ Len(Tail(q)) = Len(q) - 1 /\ Len(q) \in Nat /\ Len(q) >= 1
           /\ \A k \in 1..Len(q) - 1 : Tail(q)[k] = q[k + 1]
           /\ Head(q) = q[1] /\ q[1] \in S
<1>1. Len(q) \in Nat /\ Len(q) # 0 /\ Head(q) = q[1]
  BY HeadTailProperties, EmptySeq, LenProperties
<1>2. q[1] \in S BY <1>1, ElementOfSeq
<1>3. /\ Tail(q) \in Seq(S) /\ Len(Tail(q)) = Len(q) - 1
      /\ \A k \in 1..Len(Tail(q)) : Tail(q)[k] = q[k + 1]
  BY HeadTailProperties
<1>. QED BY <1>1, <1>2, <1>3

LEMMA OfAppended ==
    ASSUME NEW S, NEW q \in Seq(S), NEW p \in S, NEW T
    PROVE  /\ p.type \in T => Of(Append(q, p), T) = Of(q, T) \cup {Len(q) + 1}
           /\ p.type \notin T => Of(Append(q, p), T) = Of(q, T)
BY Appended DEF Of

LEMMA OfTail ==
    ASSUME NEW S, NEW q \in Seq(S), q # <<>>, NEW T
    PROVE  /\ \A k \in Of(Tail(q), T) : k \in Nat /\ k + 1 \in Of(q, T)
           /\ \A k \in Of(q, T) : k = 1 \/ k - 1 \in Of(Tail(q), T)
           /\ 1 \in Of(q, T) <=> Head(q).type \in T
BY TailOf DEF Of

-----------------------------------------------------------------------------
(* A client at a, with the requests q on the way to the server and the     *)
(* replies r to it, keeps the order of join and leave.  E is the set of    *)
(* clients that are in a group.                                            *)
Outside == {"off", "begin", "list", "prompt"}

Orderly(a, q, r, c, E) ==
    /\ \A k, l \in Asks(q) : k = l
    /\ c \in E => \A k \in Asks(q) : \E l \in Leavings(q) : l < k
    /\ a \in Outside => Asks(q) = {} /\ (c \in E => Leavings(q) # {})
    /\ a = "chat" => Asks(q) = {}
    /\ a \in Outside \cup {"chat"} => Answers(r) = {}
    /\ a = "join" => /\ Answers(r) # {} => Asks(q) = {}
                     /\ \A k, l \in Answers(r) : k = l
                     /\ \A k \in Answers(r) :
                           r[k].type = "JOIN_REJECTED" /\ c \in E => Leavings(q) # {}

(* The server reads a request other than to join; after a request to leave *)
(* the client is in no group.                                              *)
LEMMA RequestServed ==
    ASSUME NEW S, NEW q \in Seq(S), q # <<>>, NEW a, NEW r, NEW c, NEW E,
           Orderly(a, q, r, c, E), Head(q).type # "JOIN_GROUP",
           Head(q).type = "LEAVE_GROUP" => c \notin E
    PROVE  Orderly(a, Tail(q), r, c, E)
<1>1. /\ \A k \in Asks(Tail(q)) : k \in Nat /\ k + 1 \in Asks(q)
      /\ \A k \in Asks(q) : k = 1 \/ k - 1 \in Asks(Tail(q))
      /\ 1 \notin Asks(q)
  BY OfTail DEF Asks
<1>2. /\ \A k \in Leavings(q) : k = 1 \/ k - 1 \in Leavings(Tail(q))
      /\ 1 \in Leavings(q) => c \notin E
  BY OfTail DEF Leavings
<1>3. Asks(q) \subseteq Nat /\ Leavings(q) \subseteq Nat
  BY LenProperties DEF Asks, Leavings, Of
<1>4. \A k, l \in Asks(Tail(q)) : k = l
  BY <1>1 DEF Orderly
<1>5. ASSUME c \in E, NEW k \in Asks(Tail(q))
      PROVE  \E l \in Leavings(Tail(q)) : l < k
  <2>1. k \in Nat /\ k + 1 \in Asks(q) BY <1>1, <1>5
  <2>2. PICK l \in Leavings(q) : l < k + 1 BY <2>1, <1>5 DEF Orderly
  <2>3. l - 1 \in Leavings(Tail(q)) BY <1>2, <1>5
  <2>. QED BY <2>1, <2>2, <2>3, <1>3
<1>6. Asks(q) = {} => Asks(Tail(q)) = {} BY <1>1
<1>7. c \in E /\ Leavings(q) # {} => Leavings(Tail(q)) # {} BY <1>2
<1>. QED BY <1>4, <1>5, <1>6, <1>7 DEF Orderly

(* The server reads a request to join: the client is in no group.          *)
LEMMA JoinOutside ==
    ASSUME NEW S, NEW q \in Seq(S), q # <<>>, NEW a, NEW r, NEW c, NEW E,
           Orderly(a, q, r, c, E), Head(q).type = "JOIN_GROUP"
    PROVE  c \notin E /\ 1 \in Asks(q)
<1>1. 1 \in Asks(q)
  BY OfTail DEF Asks
<1>2. \A l \in Leavings(q) : ~(l < 1)
  BY LenProperties DEF Leavings, Of
<1>. QED BY <1>1, <1>2 DEF Orderly

(* If it waits for an answer it has none yet.  Whatever the answer, if it  *)
(* is sent at all, the order is kept; F are those in groups afterwards.    *)
LEMMA JoinServed ==
    ASSUME NEW S, NEW q \in Seq(S), q # <<>>, NEW a, NEW R, NEW r \in Seq(R), NEW c, NEW E,
           Orderly(a, q, r, c, E), Head(q).type = "JOIN_GROUP",
           NEW F, NEW p \in R, p.type \in {"JOIN_ACCEPTED", "JOIN_REJECTED"},
           p.type = "JOIN_REJECTED" => c \notin F
    PROVE  /\ Orderly(a, Tail(q), r, c, F)
           /\ Orderly(a, Tail(q), Append(r, p), c, F)
<1>1. 1 \in Asks(q) BY JoinOutside
<1>2. Asks(Tail(q)) = {}
  <2>1. ASSUME NEW k \in Asks(Tail(q)) PROVE FALSE
    <3>1. k \in Nat /\ k + 1 \in Asks(q) BY OfTail DEF Asks
    <3>2. k >= 1 BY TailOf, LenProperties DEF Asks, Of
    <3>3. k + 1 = 1 BY <3>1, <1>1 DEF Orderly
    <3>. QED BY <3>1, <3>2, <3>3
  <2>. QED BY <2>1
<1>3. a \notin Outside \cup {"chat"} /\ (a = "join" => Answers(r) = {})
  BY <1>1 DEF Orderly
<1>4. a = "join" => /\ \A k, l \in Answers(Append(r, p)) : k = l
                    /\ \A k \in Answers(Append(r, p)) : Append(r, p)[k] = p
  <2>1. Answers(Append(r, p)) = Answers(r) \cup {Len(r) + 1}
    BY OfAppended DEF Answers
  <2>2. Append(r, p)[Len(r) + 1] = p BY Appended
  <2>. QED BY <2>1, <2>2, <1>3
<1>5. Orderly(a, Tail(q), r, c, F) BY <1>2, <1>3 DEF Orderly
<1>6. Orderly(a, Tail(q), Append(r, p), c, F) BY <1>2, <1>3, <1>4 DEF Orderly
<1>. QED BY <1>5, <1>6

(* The client is told something that is no answer to a request to join.    *)
LEMMA Told ==
    ASSUME NEW R, NEW r \in Seq(R), NEW p \in R, NEW a, NEW q, NEW c, NEW E,
           Orderly(a, q, r, c, E), p.type \notin {"JOIN_ACCEPTED", "JOIN_REJECTED"}
    PROVE  Orderly(a, q, Append(r, p), c, E)
<1>1. Answers(Append(r, p)) = Answers(r) BY OfAppended DEF Answers
<1>2. \A k \in Answers(r) : Append(r, p)[k] = r[k] BY Appended DEF Answers, Of
<1>. QED BY <1>1, <1>2 DEF Orderly

(* The client says something other than a request to join.                 *)
LEMMA Says ==
    ASSUME NEW S, NEW q \in Seq(S), NEW p \in S, NEW a, NEW r, NEW c, NEW E,
           Orderly(a, q, r, c, E), p.type # "JOIN_GROUP"
    PROVE  /\ Orderly(a, Append(q, p), r, c, E)
           /\ p.type = "LEAVE_GROUP" => Leavings(Append(q, p)) # {}
<1>1. Asks(Append(q, p)) = Asks(q) BY OfAppended DEF Asks
<1>2. /\ Leavings(q) \subseteq Leavings(Append(q, p))
      /\ p.type = "LEAVE_GROUP" => Len(q) + 1 \in Leavings(Append(q, p))
  BY OfAppended DEF Leavings
<1>. QED BY <1>1, <1>2 DEF Orderly

LEMMA AsksToJoin ==
    ASSUME NEW S, NEW q \in Seq(S), NEW p \in S, NEW r, NEW c, NEW E,
           Orderly("prompt", q, r, c, E), p.type = "JOIN_GROUP"
    PROVE  Orderly("join", Append(q, p), r, c, E)
<1>1. Asks(Append(q, p)) = {Len(q) + 1} /\ Leavings(Append(q, p)) = Leavings(q)
  <2>1. Asks(q) = {} BY DEF Orderly, Outside
  <2>. QED BY <2>1, OfAppended DEF Asks, Leavings
<1>2. /\ c \in E => \E l \in Leavings(q) : TRUE
      /\ Answers(r) = {}
  BY DEF Orderly, Outside
<1>3. \A l \in Leavings(q) : l < Len(q) + 1 BY LenProperties DEF Leavings, Of
<1>. QED BY <1>1, <1>2, <1>3 DEF Orderly, Outside

(* The client reads a reply, and goes on from a to b as ReadList, ReadJoin *)
(* and ReadText say, or gives up.                                          *)
LEMMA ReplyRead ==
    ASSUME NEW R, NEW r \in Seq(R), r # <<>>, NEW q, NEW a, NEW b, NEW c, NEW E,
           Orderly(a, q, r, c, E),
           \/ b = "confused"
           \/ a = "list" /\ b = "prompt"
           \/ a = "chat" /\ b = "chat"
           \/ a = "join" /\ b = "chat" /\ Head(r).type = "JOIN_ACCEPTED"
           \/ a = "join" /\ b = "begin" /\ Head(r).type = "JOIN_REJECTED"
    PROVE  Orderly(b, q, Tail(r), c, E)
<1>1. /\ \A k \in Answers(Tail(r)) : k \in Nat /\ k >= 1 /\ k + 1 \in Answers(r)
      /\ 1 \in Answers(r) <=> Head(r).type \in {"JOIN_ACCEPTED", "JOIN_REJECTED"}
      /\ Head(r) = r[1]
  BY OfTail, TailOf DEF Answers, Of
<1>2. Answers(r) = {} => Answers(Tail(r)) = {} BY <1>1
<1>3. CASE a # "join"
  BY <1>2, <1>3 DEF Orderly, Outside
<1>4. CASE a = "join" /\ b = "confused"
  BY <1>4 DEF Orderly, Outside
<1>5. CASE a = "join" /\ b # "confused"
  <2>1. 1 \in Answers(r) /\ Asks(q) = {} BY <1>1, <1>5 DEF Orderly
  <2>2. Answers(Tail(r)) = {}
    <3>1. ASSUME NEW k \in Answers(Tail(r)) PROVE FALSE
      <4>1. k + 1 = 1 BY <1>1, <1>5, <2>1 DEF Orderly
      <4>. QED BY <4>1, <1>1
    <3>. QED BY <3>1
  <2>3. b = "begin" => (c \in E => Leavings(q) # {})
    BY <1>1, <1>5, <2>1 DEF Orderly
  <2>. QED BY <1>5, <2>1, <2>2, <2>3 DEF Orderly, Outside
<1>. QED BY <1>3, <1>4, <1>5
-----------------------------------------------------------------------------
(* The table, seen by its sockets: nobody is in it twice.                  *)
SocksUnique ==
    \A g, h \in Groups : \A i \in DOMAIN mems[g], j \in DOMAIN mems[h] :
        mems[g][i].sock = mems[h][j].sock => g = h /\ i = j

InGroup(s) == \E g \in Groups : \E i \in DOMAIN mems[g] : mems[g][i].sock = s

LEMMA EnterSocks ==
    ASSUME TableOK, SocksUnique, NEW sock \in Socks, NEW g \in Groups, NEW n \in Names,
           enter(sock, g, n), ~InGroup(sock)
    PROVE  /\ SocksUnique'
           /\ \A s : InGroup(s)' => InGroup(s) \/ s = sock
<1>1. \A h \in Groups : \A j \in DOMAIN mems'[h] :
         \/ h = g /\ j = 1 /\ mems'[h][j].sock = sock
         \/ /\ ~(h = g /\ j = 1)
            /\ j \in Nat
            /\ BeforeEnter(g, h, j) \in DOMAIN mems[h]
            /\ mems'[h][j] = mems[h][BeforeEnter(g, h, j)]
  <2>1. \A h \in Groups : \A j \in DOMAIN mems'[h] :
           \/ h = g /\ j = 1 /\ mems'[h][j] = [name |-> n, sock |-> sock]
           \/ /\ ~(h = g /\ j = 1)
              /\ j \in Nat
              /\ BeforeEnter(g, h, j) \in DOMAIN mems[h]
              /\ mems'[h][j] = mems[h][BeforeEnter(g, h, j)]
    BY MembersAfterEnter
  <2>. QED BY <2>1
<1>2. \A h \in Groups : \A j \in DOMAIN mems[h] : mems[h][j].sock # sock
  BY DEF InGroup
<1>3. ASSUME NEW h \in Groups, NEW k \in Groups,
             NEW i \in DOMAIN mems'[h], NEW j \in DOMAIN mems'[k],
             mems'[h][i].sock = mems'[k][j].sock
      PROVE  h = k /\ i = j
  <2>1. CASE h = g /\ i = 1 BY <2>1, <1>1, <1>2, <1>3
  <2>2. CASE k = g /\ j = 1 BY <2>2, <1>1, <1>2, <1>3
  <2>3. CASE ~(h = g /\ i = 1) /\ ~(k = g /\ j = 1)
    <3>1. /\ BeforeEnter(g, h, i) \in DOMAIN mems[h]
          /\ mems'[h][i] = mems[h][BeforeEnter(g, h, i)]
          /\ BeforeEnter(g, k, j) \in DOMAIN mems[k]
          /\ mems'[k][j] = mems[k][BeforeEnter(g, k, j)]
          /\ i \in Nat /\ j \in Nat
      BY <1>1, <2>3
    <3>2. h = k /\ BeforeEnter(g, h, i) = BeforeEnter(g, k, j)
      BY <3>1, <1>3 DEF SocksUnique
    <3>. QED BY <3>1, <3>2 DEF BeforeEnter
  <2>. QED BY <2>1, <2>2, <2>3
<1>4. ASSUME NEW s, NEW h \in Groups, NEW j \in DOMAIN mems'[h], mems'[h][j].sock = s
      PROVE  InGroup(s) \/ s = sock
  BY <1>1, <1>4 DEF InGroup
<1>. QED BY <1>3, <1>4 DEF SocksUnique, InGroup

LEMMA LeaveSocks ==
    ASSUME TableOK, SocksUnique, NEW sock, leavegroup(sock)
    PROVE  /\ SocksUnique'
           /\ \A s : InGroup(s)' => InGroup(s) /\ s # sock
<1>1. CASE findmemberbysock(sock) = {} /\ UNCHANGED groupVars
  <2>1. ~InGroup(sock) BY <1>1 DEF findmemberbysock, Positions, InGroup
  <2>. QED BY <1>1, <2>1 DEF groupVars, SocksUnique, InGroup
<1>2. ASSUME NEW g \in Groups, NEW i \in 1..Len(mems[g]),
             Leaves(g, i), mems[g][i].sock = sock
      PROVE  /\ SocksUnique'
             /\ \A s : InGroup(s)' => InGroup(s) /\ s # sock
  <2>1. /\ \A h \in Groups : \A j \in DOMAIN mems'[h] :
              /\ j \in Nat
              /\ BeforeLeave(g, i, h, j) \in DOMAIN mems[h]
              /\ mems'[h][j] = mems[h][BeforeLeave(g, i, h, j)]
        /\ \A j, k \in Nat : Kept(i, j) = Kept(i, k) => j = k
        /\ \A j \in Nat : Kept(i, j) # i
    BY <1>2, MembersAfterLeave
  <2>2. ASSUME NEW h \in Groups, NEW k \in Groups,
               NEW a \in DOMAIN mems'[h], NEW b \in DOMAIN mems'[k],
               mems'[h][a].sock = mems'[k][b].sock
        PROVE  h = k /\ a = b
    <3>1. h = k /\ BeforeLeave(g, i, h, a) = BeforeLeave(g, i, k, b)
      BY <2>1, <2>2 DEF SocksUnique
    <3>. QED BY <2>1, <3>1 DEF BeforeLeave
  <2>3. ASSUME NEW h \in Groups, NEW j \in DOMAIN mems'[h]
        PROVE  InGroup(mems'[h][j].sock) /\ mems'[h][j].sock # sock
    <3>1. /\ BeforeLeave(g, i, h, j) \in DOMAIN mems[h]
          /\ mems'[h][j] = mems[h][BeforeLeave(g, i, h, j)]
          /\ j \in Nat
      BY <2>1
    <3>2. i \in DOMAIN mems[g] BY LenProperties DEF TableOK
    <3>3. mems'[h][j].sock = sock => h = g /\ BeforeLeave(g, i, h, j) = i
      BY <1>2, <3>1, <3>2 DEF SocksUnique
    <3>4. ~(h = g /\ BeforeLeave(g, i, h, j) = i)
      BY <2>1, <3>1 DEF BeforeLeave
    <3>. QED BY <3>1, <3>3, <3>4 DEF InGroup
  <2>. QED BY <2>2, <2>3 DEF SocksUnique, InGroup
<1>. QED BY <1>1, <1>2, OneLeaves

-----------------------------------------------------------------------------
(* The server is connected to at most one socket of a client, and a client *)
(* connects once; members are behind sockets the server watches.           *)
Live     == livesdset \ {servsock}
Places   == {"off", "begin", "list", "prompt", "join", "chat", "gone", "confused"}

Connections ==
    /\ livesdset \subseteq {servsock} \cup Socks /\ tempset \subseteq livesdset
    /\ peer \in [Socks -> Clients \cup {NoClient}]
    /\ \A s \in Socks : s \in livesdset <=> peer[s] # NoClient
    /\ backlog \in Seq(Clients)
    /\ servsock \in tempset => backlog # <<>>
    /\ \A s : InGroup(s) => s \in Live

OnePlace ==
    /\ \A s, t \in Live : peer[s] = peer[t] => s = t
    /\ \A s \in Live, n \in 1..Len(backlog) : backlog[n] # peer[s]
    /\ \A m, n \in 1..Len(backlog) : backlog[m] = backlog[n] => m = n
    /\ \A s \in Live : at[peer[s]] # "off"
    /\ \A n \in 1..Len(backlog) : at[backlog[n]] # "off"

(* The server reads from no socket but those that have something to say.   *)
Scanning == \A s \in tempset \ {servsock} : Readable(peer[s])

(* The packets that travel, and the order they keep.                       *)
Requests ==
    {[type |-> t] : t \in {"LIST_GROUPS", "USER_TEXT", "LEAVE_GROUP"}}
    \cup {[type |-> "JOIN_GROUP", group |-> g, name |-> n] : g \in UserGroups, n \in UserNames}
Replies ==
    {[type |-> t] : t \in {"LIST_GROUPS", "JOIN_ACCEPTED", "JOIN_REJECTED"}}
    \cup {[type |-> "USER_TEXT", groups |-> G] : G \in SUBSET Groups}

Enrolled == {peer[s] : s \in {t \in Live : InGroup(t)}}

Packets ==
    /\ at \in [Clients -> Places]
    /\ toServer \in [Clients -> Seq(Requests)] /\ toClient \in [Clients -> Seq(Replies)]
    /\ \A c \in Clients : Orderly(at[c], toServer[c], toClient[c], c, Enrolled)

RoomInv == GroupsInv /\ SocksUnique /\ Connections /\ OnePlace /\ Scanning /\ Packets
-----------------------------------------------------------------------------
LEMMA PacketTypes ==
    /\ [type |-> "LIST_GROUPS"] \in Requests /\ [type |-> "USER_TEXT"] \in Requests
    /\ [type |-> "LEAVE_GROUP"] \in Requests
    /\ \A g \in UserGroups, n \in UserNames :
          [type |-> "JOIN_GROUP", group |-> g, name |-> n] \in Requests
    /\ [type |-> "LIST_GROUPS"] \in Replies
    /\ [type |-> "JOIN_ACCEPTED"] \in Replies /\ [type |-> "JOIN_REJECTED"] \in Replies
    /\ \A sock : [type |-> "USER_TEXT", groups |-> findmemberbysock(sock)] \in Replies
<1>1. /\ [type |-> "LIST_GROUPS"] \in Requests /\ [type |-> "USER_TEXT"] \in Requests
      /\ [type |-> "LEAVE_GROUP"] \in Requests
  BY DEF Requests
<1>2. ASSUME NEW g \in UserGroups, NEW n \in UserNames
      PROVE  [type |-> "JOIN_GROUP", group |-> g, name |-> n] \in Requests
  <2>1. [type |-> "JOIN_GROUP", group |-> g, name |-> n]
           \in {[type |-> "JOIN_GROUP", group |-> h, name |-> m] :
                  h \in UserGroups, m \in UserNames}
    OBVIOUS
  <2>. QED BY <2>1 DEF Requests
<1>3. \A t \in {"LIST_GROUPS", "JOIN_ACCEPTED", "JOIN_REJECTED"} : [type |-> t] \in Replies
  BY DEF Replies
<1>4. \A sock : findmemberbysock(sock) \in SUBSET Groups
  BY DEF findmemberbysock
<1>5. \A G \in SUBSET Groups : [type |-> "USER_TEXT", groups |-> G] \in Replies
  BY DEF Replies
<1>. QED BY <1>1, <1>2, <1>3, <1>4, <1>5

LEMMA JoinRequest ==
    ASSUME NEW p \in Requests, p.type = "JOIN_GROUP"
    PROVE  p.group \in UserGroups /\ p.name \in UserNames
BY DEF Requests

(* The sockets the scan comes to are those of clients.                     *)
LEMMA ScannedSock ==
    ASSUME Connections, NEW sock \in Socks, Scan(sock)
    PROVE  /\ sock \in Live /\ peer[sock] \in Clients
           /\ tempset' \subseteq tempset /\ (servsock \in tempset' => servsock \in tempset)
BY ServerAssumption DEF Connections, Scan, Live

(* What sendpkts writes.                                                   *)
LEMMA Sent ==
    ASSUME Packets, NEW cs, NEW p \in Replies, sendpkts(cs, p)
    PROVE  /\ toClient' \in [Clients -> Seq(Replies)]
           /\ \A c \in Clients : toClient'[c] \in {toClient[c], Append(toClient[c], p)}
<1>1. ASSUME NEW c \in Clients PROVE toClient'[c] \in {toClient[c], Append(toClient[c], p)}
  BY <1>1 DEF sendpkts
<1>2. \A c \in Clients : toClient[c] \in Seq(Replies) /\ Append(toClient[c], p) \in Seq(Replies)
  BY Appended DEF Packets
<1>3. toClient' = [c \in Clients |-> toClient'[c]] BY DEF sendpkts
<1>4. \A c \in Clients : toClient'[c] \in Seq(Replies) BY <1>1, <1>2
<1>. QED BY <1>1, <1>3, <1>4

LEMMA SentToOne ==
    ASSUME NEW d, NEW p, sendpkts(<<d>>, p)
    PROVE  \A c \in Clients \ {d} : toClient'[c] = toClient[c]
<1>1. PICK k \in 0..1 : toClient' = [c \in Clients |->
                                      IF \E n \in 1..k : <<d>>[n] = c
                                      THEN Append(toClient[c], p) ELSE toClient[c]]
  BY DEF sendpkts
<1>2. \A n \in 1..k : <<d>>[n] = d BY <1>1
<1>. QED BY <1>1, <1>2

-----------------------------------------------------------------------------
(* Connections are as they were if the server opens and closes none.       *)
LEMMA ConnectionsStay ==
    ASSUME Connections, OnePlace, UNCHANGED <<livesdset, peer, backlog>>,
           tempset' \subseteq livesdset, servsock \in tempset' => backlog # <<>>,
           \A c \in Clients : at'[c] = "off" => at[c] = "off",
           \A s : InGroup(s)' => s \in Live
    PROVE  Connections' /\ OnePlace'
<1>1. Connections' BY DEF Connections, Live
<1>2. \A s \in Live : peer[s] \in Clients BY DEF Connections, Live
<1>3. \A n \in 1..Len(backlog) : backlog[n] \in Clients BY ElementOfSeq DEF Connections
<1>4. OnePlace' BY <1>2, <1>3 DEF OnePlace, Live
<1>. QED BY <1>1, <1>4

(* Who leaves or joins no group keeps the order of a client that does      *)
(* nothing.                                                                *)
LEMMA FewerEnrolled ==
    ASSUME NEW a, NEW q, NEW r, NEW c, NEW E, NEW F,
           Orderly(a, q, r, c, E), c \in F => c \in E
    PROVE  Orderly(a, q, r, c, F)
BY DEF Orderly

LEMMA Still ==
    ASSUME UNCHANGED <<livesdset, peer>>, \A s : InGroup(s)' => InGroup(s)
    PROVE  Enrolled' \subseteq Enrolled
BY DEF Enrolled, Live
-----------------------------------------------------------------------------
(* The steps of the server.                                                *)
LEMMA GroupsStay ==
    ASSUME GroupsInv, SocksUnique, UNCHANGED groupVars
    PROVE  GroupsInv' /\ SocksUnique' /\ \A s : InGroup(s)' => InGroup(s)
BY DEF groupVars, GroupsInv, TableOK, Occupancy, NamesUnique, SocksUnique, InGroup

LEMMA Received ==
    ASSUME Connections, OnePlace, Scanning, Packets,
           NEW sock \in Socks, NEW type, Receive(sock, type)
    PROVE  /\ sock \in Live /\ peer[sock] \in Clients
           /\ toServer[peer[sock]] \in Seq(Requests) /\ toServer[peer[sock]] # <<>>
           /\ Head(toServer[peer[sock]]).type = type
           /\ toServer' \in [Clients -> Seq(Requests)]
           /\ toServer'[peer[sock]] = Tail(toServer[peer[sock]])
           /\ \A c \in Clients : c # peer[sock] => toServer'[c] = toServer[c]
           /\ tempset' \subseteq livesdset
           /\ servsock \in tempset' => backlog # <<>>
           /\ UNCHANGED <<livesdset, peer, backlog>>
           /\ Scanning'
<1>1. /\ Scan(sock) /\ ~Closed(peer[sock])
      /\ Head(toServer[peer[sock]]).type = type
      /\ toServer' = [toServer EXCEPT ![peer[sock]] = Tail(toServer[peer[sock]])]
      /\ open' = open /\ livesdset' = livesdset /\ peer' = peer /\ backlog' = backlog
  BY DEF Receive
<1>2. /\ sock \in Live /\ peer[sock] \in Clients
      /\ tempset' \subseteq tempset /\ (servsock \in tempset' => servsock \in tempset)
  BY <1>1, ScannedSock
<1>3. sock \in tempset \ {servsock} /\ tempset' = tempset \ {sock}
  BY <1>1 DEF Scan
<1>4. toServer[peer[sock]] # <<>>
  BY <1>1, <1>3 DEF Scanning, Readable, Closed
<1>5. toServer[peer[sock]] \in Seq(Requests) BY <1>2 DEF Packets
<1>6. Tail(toServer[peer[sock]]) \in Seq(Requests) BY <1>4, <1>5, TailOf
<1>7. /\ toServer' \in [Clients -> Seq(Requests)]
      /\ toServer'[peer[sock]] = Tail(toServer[peer[sock]])
      /\ \A c \in Clients : c # peer[sock] => toServer'[c] = toServer[c]
  BY <1>1, <1>2, <1>6 DEF Packets
<1>8. tempset' \subseteq livesdset /\ (servsock \in tempset' => backlog # <<>>)
  BY <1>2 DEF Connections
<1>9. ASSUME NEW s \in tempset', s # servsock
      PROVE  Readable(peer[s])'
  <2>1. s \in tempset \ {servsock} /\ s \in Live /\ s # sock
    BY <1>3, <1>9 DEF Connections, Live
  <2>2. peer[s] # peer[sock] /\ peer[s] \in Clients
    BY <1>2, <2>1 DEF OnePlace, Connections, Live
  <2>3. Readable(peer[s]) BY <2>1 DEF Scanning
  <2>4. peer'[s] = peer[s] /\ toServer'[peer[s]] = toServer[peer[s]] /\ open' = open
    BY <1>1, <1>7, <2>2
  <2>. QED BY <2>3, <2>4 DEF Readable
<1>. QED BY <1>1, <1>2, <1>4, <1>5, <1>7, <1>8, <1>9 DEF Scanning

(* What the server does with a request other than to join.                 *)
LEMMA Served ==
    ASSUME Connections, OnePlace, Scanning, Packets, UNCHANGED at,
           NEW sock \in Socks, NEW type, type # "JOIN_GROUP", Receive(sock, type),
           NEW p \in Replies, p.type \notin {"JOIN_ACCEPTED", "JOIN_REJECTED"},
           toClient' \in [Clients -> Seq(Replies)],
           \A c \in Clients : toClient'[c] \in {toClient[c], Append(toClient[c], p)},
           \A s : InGroup(s)' => InGroup(s),
           type = "LEAVE_GROUP" => ~InGroup(sock)'
    PROVE  Connections' /\ OnePlace' /\ Scanning' /\ Packets'
<1>. DEFINE c == peer[sock]
<1>1. /\ sock \in Live /\ c \in Clients
      /\ toServer[c] \in Seq(Requests) /\ toServer[c] # <<>> /\ Head(toServer[c]).type = type
      /\ toServer' \in [Clients -> Seq(Requests)]
      /\ toServer'[c] = Tail(toServer[c])
      /\ \A d \in Clients : d # c => toServer'[d] = toServer[d]
      /\ tempset' \subseteq livesdset
      /\ servsock \in tempset' => backlog # <<>>
      /\ UNCHANGED <<livesdset, peer, backlog>>
      /\ Scanning'
  BY Received
<1>2. \A s : InGroup(s)' => s \in Live BY DEF Connections
<1>3. \A d \in Clients : at'[d] = "off" => at[d] = "off" OBVIOUS
<1>4. Connections' /\ OnePlace' BY <1>1, <1>2, <1>3, ConnectionsStay
<1>5. Enrolled' \subseteq Enrolled BY <1>1, Still
<1>6. type = "LEAVE_GROUP" => c \notin Enrolled'
  <2>1. ASSUME NEW s \in Live, InGroup(s)', peer[s] = peer[sock] PROVE InGroup(sock)'
    <3>1. s = sock BY <1>1, <2>1 DEF OnePlace
    <3>. QED BY <2>1, <3>1
  <2>2. Live' = Live /\ peer' = peer BY <1>1 DEF Live
  <2>. QED BY <2>1, <2>2 DEF Enrolled
<1>7. ASSUME NEW d \in Clients
      PROVE  Orderly(at[d], toServer'[d], toClient'[d], d, Enrolled')
  <2>1. Orderly(at[d], toServer[d], toClient[d], d, Enrolled) BY DEF Packets
  <2>2. Orderly(at[d], toServer[d], toClient[d], d, Enrolled')
    BY <2>1, <1>5, FewerEnrolled
  <2>3. Orderly(at[d], toServer'[d], toClient[d], d, Enrolled')
    <3>1. CASE d = c
      <4>1. Orderly(at[c], Tail(toServer[c]), toClient[c], c, Enrolled')
        BY <1>1, <1>6, <2>2, <3>1, RequestServed
      <4>. QED BY <1>1, <3>1, <4>1
    <3>2. CASE d # c BY <1>1, <2>2, <3>2
    <3>. QED BY <3>1, <3>2
  <2>4. toClient[d] \in Seq(Replies) BY DEF Packets
  <2>5. Orderly(at[d], toServer'[d], Append(toClient[d], p), d, Enrolled')
    BY <2>3, <2>4, Told
  <2>. QED BY <2>3, <2>5
<1>8. at' = at /\ at \in [Clients -> Places] BY DEF Packets
<1>9. Packets' BY <1>1, <1>7, <1>8 DEF Packets
<1>. QED BY <1>1, <1>4, <1>9

LEMMA ListServed ==
    ASSUME RoomInv, NEW sock \in Socks, ServeList(sock), UNCHANGED clientVars
    PROVE  RoomInv'
<1>. DEFINE p == [type |-> "LIST_GROUPS"]
<1>1. GroupsInv /\ SocksUnique /\ Connections /\ OnePlace /\ Scanning /\ Packets
  BY DEF RoomInv
<1>2. /\ Receive(sock, "LIST_GROUPS") /\ sendpkts(<<peer[sock]>>, p)
      /\ UNCHANGED groupVars /\ UNCHANGED at
  BY DEF ServeList, clientVars
<1>3. p \in Replies /\ p.type \notin {"JOIN_ACCEPTED", "JOIN_REJECTED"}
  BY PacketTypes
<1>. HIDE DEF p
<1>4. /\ toClient' \in [Clients -> Seq(Replies)]
      /\ \A c \in Clients : toClient'[c] \in {toClient[c], Append(toClient[c], p)}
  BY <1>1, <1>2, <1>3, Sent
<1>5. GroupsInv' /\ SocksUnique' /\ \A s : InGroup(s)' => InGroup(s)
  BY <1>1, <1>2, GroupsStay
<1>6. "LIST_GROUPS" # "JOIN_GROUP" /\ "LIST_GROUPS" # "LEAVE_GROUP" OBVIOUS
<1>7. Connections' /\ OnePlace' /\ Scanning' /\ Packets'
  BY <1>1, <1>2, <1>3, <1>4, <1>5, <1>6, Served
<1>. QED BY <1>5, <1>7 DEF RoomInv

LEMMA TextServed ==
    ASSUME RoomInv, NEW sock \in Socks, ServeText(sock), UNCHANGED clientVars
    PROVE  RoomInv'
<1>. DEFINE p == [type |-> "USER_TEXT", groups |-> findmemberbysock(sock)]
<1>1. GroupsInv /\ SocksUnique /\ Connections /\ OnePlace /\ Scanning /\ Packets
  BY DEF RoomInv
<1>2. /\ Receive(sock, "USER_TEXT") /\ UNCHANGED groupVars /\ UNCHANGED at
      /\ \E cs : sendpkts(cs, p)
  BY DEF ServeText, clientVars
<1>3. p \in Replies /\ p.type \notin {"JOIN_ACCEPTED", "JOIN_REJECTED"}
  BY PacketTypes
<1>. HIDE DEF p
<1>4. /\ toClient' \in [Clients -> Seq(Replies)]
      /\ \A c \in Clients : toClient'[c] \in {toClient[c], Append(toClient[c], p)}
  BY <1>1, <1>2, <1>3, Sent
<1>5. GroupsInv' /\ SocksUnique' /\ \A s : InGroup(s)' => InGroup(s)
  BY <1>1, <1>2, GroupsStay
<1>6. "USER_TEXT" # "JOIN_GROUP" /\ "USER_TEXT" # "LEAVE_GROUP" OBVIOUS
<1>7. Connections' /\ OnePlace' /\ Scanning' /\ Packets'
  BY <1>1, <1>2, <1>3, <1>4, <1>5, <1>6, Served
<1>. QED BY <1>5, <1>7 DEF RoomInv

(* Who leaves is counted out.                                              *)
LEMMA GroupsAfterLeave ==
    ASSUME GroupsInv, SocksUnique, NEW sock, leavegroup(sock)
    PROVE  /\ GroupsInv' /\ SocksUnique'
           /\ \A s : InGroup(s)' => InGroup(s) /\ s # sock
<1>1. TableOK BY DEF GroupsInv
<1>2. SocksUnique' /\ \A s : InGroup(s)' => InGroup(s) /\ s # sock
  BY <1>1, LeaveSocks
<1>3. UNCHANGED groupVars => GroupsInv' BY GroupsStay
<1>4. ASSUME NEW g \in Groups, NEW i \in 1..Len(mems[g]), Leaves(g, i) PROVE GroupsInv'
  BY <1>4, SomebodyLeaves
<1>. QED BY <1>1, <1>2, <1>3, <1>4, OneLeaves

LEMMA LeaveServed ==
    ASSUME RoomInv, NEW sock \in Socks, ServeLeave(sock), UNCHANGED clientVars
    PROVE  RoomInv'
<1>. DEFINE p == [type |-> "LIST_GROUPS"]
<1>1. GroupsInv /\ SocksUnique /\ Connections /\ OnePlace /\ Scanning /\ Packets
  BY DEF RoomInv
<1>2. /\ Receive(sock, "LEAVE_GROUP") /\ leavegroup(sock)
      /\ toClient' = toClient /\ UNCHANGED at
  BY DEF ServeLeave, clientVars
<1>3. p \in Replies /\ p.type \notin {"JOIN_ACCEPTED", "JOIN_REJECTED"}
  BY PacketTypes
<1>. HIDE DEF p
<1>4. /\ toClient' \in [Clients -> Seq(Replies)]
      /\ \A c \in Clients : toClient'[c] \in {toClient[c], Append(toClient[c], p)}
  BY <1>1, <1>2 DEF Packets
<1>5. GroupsInv' /\ SocksUnique' /\ \A s : InGroup(s)' => InGroup(s) /\ s # sock
  BY <1>1, <1>2, GroupsAfterLeave
<1>6. "LEAVE_GROUP" # "JOIN_GROUP" /\ ~InGroup(sock)' BY <1>5
<1>7. Connections' /\ OnePlace' /\ Scanning' /\ Packets'
  BY <1>1, <1>2, <1>3, <1>4, <1>5, <1>6, Served
<1>. QED BY <1>5, <1>7 DEF RoomInv
(* Who asks to join is in no group when the request is read.               *)
LEMMA NotYetIn ==
    ASSUME Connections, OnePlace, Scanning, Packets,
           NEW sock \in Socks, Receive(sock, "JOIN_GROUP")
    PROVE  peer[sock] \notin Enrolled /\ ~InGroup(sock)
<1>. DEFINE c == peer[sock]
<1>1. /\ sock \in Live /\ c \in Clients
      /\ toServer[c] \in Seq(Requests) /\ toServer[c] # <<>>
      /\ Head(toServer[c]).type = "JOIN_GROUP"
  BY Received
<1>2. Orderly(at[c], toServer[c], toClient[c], c, Enrolled)
  BY <1>1 DEF Packets
<1>3. c \notin Enrolled BY <1>1, <1>2, JoinOutside
<1>. QED BY <1>1, <1>3 DEF Enrolled

LEMMA JoinAnswered ==
    ASSUME Connections, OnePlace, Scanning, Packets, UNCHANGED at,
           NEW sock \in Socks, Receive(sock, "JOIN_GROUP"),
           NEW p \in Replies, p.type \in {"JOIN_ACCEPTED", "JOIN_REJECTED"},
           sendpkts(<<peer[sock]>>, p),
           \A s : InGroup(s)' => InGroup(s) \/ s = sock,
           p.type = "JOIN_REJECTED" => ~InGroup(sock)'
    PROVE  Connections' /\ OnePlace' /\ Scanning' /\ Packets'
<1>. DEFINE c == peer[sock]
<1>1. /\ sock \in Live /\ c \in Clients
      /\ toServer[c] \in Seq(Requests) /\ toServer[c] # <<>>
      /\ Head(toServer[c]).type = "JOIN_GROUP"
      /\ toServer' \in [Clients -> Seq(Requests)]
      /\ toServer'[c] = Tail(toServer[c])
      /\ \A d \in Clients : d # c => toServer'[d] = toServer[d]
      /\ tempset' \subseteq livesdset
      /\ servsock \in tempset' => backlog # <<>>
      /\ UNCHANGED <<livesdset, peer, backlog>>
      /\ Scanning'
  BY Received
<1>2. /\ toClient' \in [Clients -> Seq(Replies)]
      /\ \A d \in Clients : toClient'[d] \in {toClient[d], Append(toClient[d], p)}
      /\ \A d \in Clients : d # c => toClient'[d] = toClient[d]
  BY Sent, SentToOne
<1>3. \A s : InGroup(s)' => s \in Live BY <1>1 DEF Connections
<1>4. \A d \in Clients : at'[d] = "off" => at[d] = "off" OBVIOUS
<1>5. Connections' /\ OnePlace' BY <1>1, <1>3, <1>4, ConnectionsStay
<1>6. Live' = Live /\ peer' = peer BY <1>1 DEF Live
<1>7. /\ \A d : d \in Enrolled' => d \in Enrolled \/ d = c
      /\ p.type = "JOIN_REJECTED" => c \notin Enrolled'
  <2>1. ASSUME NEW s \in Live, InGroup(s)' PROVE peer[s] \in Enrolled \/ peer[s] = c
    BY <2>1 DEF Enrolled
  <2>2. ASSUME NEW s \in Live, InGroup(s)', peer[s] = c PROVE InGroup(sock)'
    <3>1. s = sock BY <1>1, <2>2 DEF OnePlace
    <3>. QED BY <2>2, <3>1
  <2>. QED BY <1>6, <2>1, <2>2 DEF Enrolled
<1>8. ASSUME NEW d \in Clients
      PROVE  Orderly(at[d], toServer'[d], toClient'[d], d, Enrolled')
  <2>1. /\ Orderly(at[d], toServer[d], toClient[d], d, Enrolled)
        /\ toClient[d] \in Seq(Replies)
    BY DEF Packets
  <2>2. CASE d = c
    <3>1. Orderly(at[c], toServer[c], toClient[c], c, Enrolled) /\ toClient[c] \in Seq(Replies)
      BY <2>1, <2>2
    <3>2. toClient'[c] \in {toClient[c], Append(toClient[c], p)} BY <1>1, <1>2
    <3>3. /\ Orderly(at[c], Tail(toServer[c]), toClient[c], c, Enrolled')
          /\ Orderly(at[c], Tail(toServer[c]), Append(toClient[c], p), c, Enrolled')
      BY <1>1, <1>7, <3>1, JoinServed
    <3>. QED BY <1>1, <2>2, <3>2, <3>3
  <2>3. CASE d # c
    <3>1. d \in Enrolled' => d \in Enrolled BY <1>7, <2>3
    <3>2. Orderly(at[d], toServer[d], toClient[d], d, Enrolled')
      BY <2>1, <3>1, FewerEnrolled
    <3>. QED BY <1>1, <1>2, <2>3, <3>2
  <2>. QED BY <2>2, <2>3
<1>9. at' = at /\ at \in [Clients -> Places] BY DEF Packets
<1>10. Packets' BY <1>1, <1>2, <1>8, <1>9 DEF Packets
<1>. QED BY <1>1, <1>5, <1>10

LEMMA JoinDone ==
    ASSUME RoomInv, NEW sock \in Socks, ServeJoin(sock), UNCHANGED clientVars
    PROVE  RoomInv'
<1>. DEFINE pkt == Head(toServer[peer[sock]])
            yes == [type |-> "JOIN_ACCEPTED"]
            no  == [type |-> "JOIN_REJECTED"]
<1>1. GroupsInv /\ SocksUnique /\ Connections /\ OnePlace /\ Scanning /\ Packets /\ TableOK
  BY DEF RoomInv, GroupsInv
<1>2. Receive(sock, "JOIN_GROUP") /\ UNCHANGED at
  BY DEF ServeJoin, clientVars
<1>3. ~InGroup(sock) BY <1>1, <1>2, NotYetIn
<1>4. /\ yes \in Replies /\ yes.type \in {"JOIN_ACCEPTED", "JOIN_REJECTED"}
      /\ no \in Replies /\ no.type \in {"JOIN_ACCEPTED", "JOIN_REJECTED"}
      /\ yes.type # "JOIN_REJECTED"
  BY PacketTypes
<1>5. CASE admits(pkt.group, pkt.name)
  <2>1. enter(sock, pkt.group, pkt.name) /\ sendpkts(<<peer[sock]>>, yes)
    BY <1>5 DEF ServeJoin
  <2>2. pkt \in Requests /\ pkt.type = "JOIN_GROUP"
    <3>1. /\ toServer[peer[sock]] \in Seq(Requests) /\ toServer[peer[sock]] # <<>>
          /\ Head(toServer[peer[sock]]).type = "JOIN_GROUP"
      BY <1>1, <1>2, Received
    <3>. QED BY <3>1, TailOf
  <2>. HIDE DEF pkt, yes
  <2>3. pkt.name \in Names /\ pkt.group \in Groups
    BY <1>5, <2>2, JoinRequest, RoomAssumption DEF admits
  <2>4. SocksUnique' /\ \A s : InGroup(s)' => InGroup(s) \/ s = sock
    BY <1>1, <1>3, <2>1, <2>3, EnterSocks
  <2>5. GroupsInv' BY <1>1, <1>5, <2>1, <2>3, SomebodyEnters
  <2>6. Connections' /\ OnePlace' /\ Scanning' /\ Packets'
    BY <1>1, <1>2, <1>4, <2>1, <2>4, JoinAnswered
  <2>. QED BY <2>4, <2>5, <2>6 DEF RoomInv
<1>6. CASE ~admits(pkt.group, pkt.name)
  <2>1. UNCHANGED groupVars /\ sendpkts(<<peer[sock]>>, no)
    BY <1>6 DEF ServeJoin
  <2>2. GroupsInv' /\ SocksUnique' /\ \A s : InGroup(s)' => InGroup(s)
    BY <1>1, <2>1, GroupsStay
  <2>. HIDE DEF no
  <2>3. Connections' /\ OnePlace' /\ Scanning' /\ Packets'
    BY <1>1, <1>2, <1>3, <1>4, <2>1, <2>2, JoinAnswered
  <2>. QED BY <2>2, <2>3 DEF RoomInv
<1>. QED BY <1>5, <1>6
LEMMA OthersStay ==
    ASSUME Packets, UNCHANGED <<at, toServer, toClient>>, Enrolled' \subseteq Enrolled
    PROVE  Packets'
<1>1. /\ at \in [Clients -> Places] /\ toServer \in [Clients -> Seq(Requests)]
      /\ toClient \in [Clients -> Seq(Replies)]
      /\ \A c \in Clients : Orderly(at[c], toServer[c], toClient[c], c, Enrolled)
  BY DEF Packets
<1>2. \A c \in Clients : Orderly(at[c], toServer[c], toClient[c], c, Enrolled')
  BY <1>1, FewerEnrolled
<1>3. at' = at /\ toServer' = toServer /\ toClient' = toClient OBVIOUS
<1>. QED BY <1>1, <1>2, <1>3 DEF Packets

LEMMA Disconnected ==
    ASSUME RoomInv, NEW sock \in Socks, Disconnect(sock), UNCHANGED clientVars
    PROVE  RoomInv'
<1>1. GroupsInv /\ SocksUnique /\ Connections /\ OnePlace /\ Scanning /\ Packets
  BY DEF RoomInv
<1>2. /\ Scan(sock) /\ leavegroup(sock)
      /\ livesdset' = livesdset \ {sock}
      /\ peer' = [peer EXCEPT ![sock] = NoClient]
      /\ open' = open /\ toServer' = toServer /\ toClient' = toClient
      /\ backlog' = backlog /\ at' = at
  BY DEF Disconnect, linkVars, clientVars
<1>3. /\ sock \in Live /\ tempset' = tempset \ {sock}
      /\ servsock \in tempset' => servsock \in tempset
  BY <1>1, <1>2, ScannedSock DEF Scan
<1>4. /\ GroupsInv' /\ SocksUnique'
      /\ \A s : InGroup(s)' => InGroup(s) /\ s # sock
  BY <1>1, <1>2, GroupsAfterLeave
<1>5. /\ Live' = Live \ {sock}
      /\ \A s \in Live : s \in Socks
      /\ \A s \in Live' : peer'[s] = peer[s]
  BY <1>1, <1>2 DEF Live, Connections
<1>6. Connections'
  <2>1. \A s : InGroup(s)' => s \in Live' BY <1>1, <1>4, <1>5 DEF Connections
  <2>2. /\ livesdset' \subseteq {servsock} \cup Socks /\ tempset' \subseteq livesdset'
        /\ backlog' \in Seq(Clients) /\ (servsock \in tempset' => backlog' # <<>>)
    BY <1>1, <1>2, <1>3 DEF Connections
  <2>3. /\ peer' \in [Socks -> Clients \cup {NoClient}]
        /\ \A s \in Socks : s \in livesdset' <=> peer'[s] # NoClient
    BY <1>1, <1>2 DEF Connections
  <2>. QED BY <2>1, <2>2, <2>3 DEF Connections
<1>7. OnePlace' BY <1>1, <1>2, <1>5 DEF OnePlace
<1>8. Scanning'
  <2>1. \A s \in tempset' \ {servsock} : s \in tempset \ {servsock} /\ s \in Live'
    BY <1>1, <1>3, <1>5 DEF Connections, Live
  <2>2. \A s \in tempset' \ {servsock} : Readable(peer[s]) /\ peer'[s] = peer[s]
    BY <1>1, <1>5, <2>1 DEF Scanning
  <2>. QED BY <1>2, <2>2 DEF Scanning, Readable
<1>9. Enrolled' \subseteq Enrolled BY <1>4, <1>5 DEF Enrolled
<1>10. Packets' BY <1>1, <1>2, <1>9, OthersStay
<1>. QED BY <1>4, <1>6, <1>7, <1>8, <1>10 DEF RoomInv

(* The server dies, or begins a scan: connections and groups stay.         *)
LEMMA TableStays ==
    ASSUME RoomInv, UNCHANGED <<groupVars, livesdset, peer, backlog>>,
           UNCHANGED <<at, open, toServer, toClient>>,
           tempset' \subseteq livesdset, servsock \in tempset' => backlog # <<>>,
           \A s \in tempset' \ {servsock} : Readable(peer[s])
    PROVE  RoomInv'
<1>1. GroupsInv /\ SocksUnique /\ Connections /\ OnePlace /\ Scanning /\ Packets
  BY DEF RoomInv
<1>2. GroupsInv' /\ SocksUnique' /\ \A s : InGroup(s)' => InGroup(s)
  BY <1>1, GroupsStay
<1>3. \A s : InGroup(s)' => s \in Live BY <1>1, <1>2 DEF Connections
<1>4. \A c \in Clients : at'[c] = "off" => at[c] = "off" OBVIOUS
<1>5. Connections' /\ OnePlace' BY <1>1, <1>3, <1>4, ConnectionsStay
<1>6. Scanning' BY DEF Scanning, Readable
<1>7. Enrolled' \subseteq Enrolled BY <1>2, Still
<1>8. Packets' BY <1>1, <1>7, OthersStay
<1>. QED BY <1>2, <1>5, <1>6, <1>8 DEF RoomInv

LEMMA DisconnectCrashed ==
    ASSUME RoomInv, NEW sock \in Socks, DisconnectCrash(sock), UNCHANGED clientVars
    PROVE  RoomInv'
<1>1. Scan(sock) /\ Connections /\ Scanning BY DEF DisconnectCrash, RoomInv
<1>2. /\ UNCHANGED <<groupVars, livesdset, peer, backlog>>
      /\ UNCHANGED <<at, open, toServer, toClient>>
  BY DEF DisconnectCrash, clientVars
<1>3. tempset' = tempset \ {sock} BY <1>1 DEF Scan
<1>4. tempset' \subseteq livesdset /\ (servsock \in tempset' => backlog # <<>>)
  BY <1>1, <1>3 DEF Connections
<1>5. \A s \in tempset' \ {servsock} : Readable(peer[s]) BY <1>1, <1>3 DEF Scanning
<1>. QED BY <1>2, <1>4, <1>5, TableStays

LEMMA Selected ==
    ASSUME RoomInv, Select, UNCHANGED clientVars
    PROVE  RoomInv'
<1>1. /\ UNCHANGED <<groupVars, livesdset, peer, backlog>>
      /\ UNCHANGED <<at, open, toServer, toClient>>
      /\ tempset' = {s \in livesdset : Ready(s)}
  BY DEF Select, clientVars, linkVars
<1>2. tempset' \subseteq livesdset /\ (servsock \in tempset' => backlog # <<>>)
  BY <1>1 DEF Ready
<1>3. \A s \in tempset' \ {servsock} : Readable(peer[s]) BY <1>1 DEF Ready
<1>. QED BY <1>1, <1>2, <1>3, TableStays

LEMMA Accepted ==
    ASSUME RoomInv, Accept, UNCHANGED clientVars
    PROVE  RoomInv'
<1>. DEFINE free == Socks \ livesdset
            new  == Lowest(free)
<1>1. GroupsInv /\ SocksUnique /\ Connections /\ OnePlace /\ Scanning /\ Packets
  BY DEF RoomInv
<1>2. /\ tempset = {servsock} /\ tempset' = {}
      /\ UNCHANGED groupVars /\ UNCHANGED <<at, open, toServer, toClient>>
  BY DEF Accept, clientVars
<1>3. backlog # <<>> /\ backlog \in Seq(Clients) BY <1>1, <1>2 DEF Connections
<1>4. CASE UNCHANGED <<livesdset, peer, backlog>>
  <2>1. tempset' \subseteq livesdset /\ servsock \notin tempset' BY <1>2
  <2>2. \A s \in tempset' \ {servsock} : Readable(peer[s]) BY <1>2
  <2>. QED BY <1>2, <1>4, <2>1, <2>2, TableStays
<1>5. CASE /\ free # {}
           /\ livesdset' = livesdset \cup {new}
           /\ peer' = [peer EXCEPT ![new] = Head(backlog)]
           /\ backlog' = Tail(backlog)
  <2>1. new \in Socks \ livesdset
    <3>1. free \subseteq Nat BY GroupsAssumption
    <3>. QED BY <1>5, <3>1, LowestIsOne
  <2>2. new # servsock BY <2>1, ServerAssumption, GroupsAssumption
  <2>. HIDE DEF new, free
  <2>3. /\ Tail(backlog) \in Seq(Clients) /\ Len(Tail(backlog)) = Len(backlog) - 1
        /\ Len(backlog) \in Nat /\ Len(backlog) >= 1
        /\ \A k \in 1..Len(backlog) - 1 : Tail(backlog)[k] = backlog[k + 1]
        /\ Head(backlog) = backlog[1] /\ backlog[1] \in Clients
    BY <1>3, TailOf
  <2>4. GroupsInv' /\ SocksUnique' /\ \A s : InGroup(s)' => InGroup(s)
    BY <1>1, <1>2, GroupsStay
  <2>5. /\ \A s : s \in Live' <=> s \in Live \/ s = new
        /\ new \notin Live
        /\ \A s \in Live : s \in Socks
        /\ peer'[new] = backlog[1]
        /\ \A s \in Live : peer'[s] = peer[s]
    BY <1>1, <1>5, <2>1, <2>2, <2>3 DEF Live, Connections
  <2>6. Connections'
    <3>1. \A s : InGroup(s)' => s \in Live' BY <1>1, <2>4, <2>5 DEF Connections
    <3>2. /\ livesdset' \subseteq {servsock} \cup Socks /\ tempset' \subseteq livesdset'
          /\ backlog' \in Seq(Clients) /\ (servsock \in tempset' => backlog' # <<>>)
      BY <1>1, <1>2, <1>5, <2>1, <2>3 DEF Connections
    <3>3. /\ peer' \in [Socks -> Clients \cup {NoClient}]
          /\ \A s \in Socks : s \in livesdset' <=> peer'[s] # NoClient
      BY <1>1, <1>5, <2>1, <2>3, ServerAssumption DEF Connections
    <3>. QED BY <3>1, <3>2, <3>3 DEF Connections
  <2>7. OnePlace'
    <3>1. \A n \in 1..Len(backlog') : n + 1 \in 1..Len(backlog) /\ backlog'[n] = backlog[n + 1]
      BY <1>5, <2>3
    <3>2. ASSUME NEW s \in Live', NEW t \in Live', peer'[s] = peer'[t] PROVE s = t
      <4>1. 1 \in 1..Len(backlog) BY <2>3
      <4>. QED BY <1>1, <2>5, <3>2, <4>1 DEF OnePlace
    <3>3. ASSUME NEW s \in Live', NEW n \in 1..Len(backlog') PROVE backlog'[n] # peer'[s]
      <4>1. n + 1 \in 1..Len(backlog) /\ backlog'[n] = backlog[n + 1] /\ n + 1 # 1
        BY <3>1, <3>3
      <4>2. 1 \in 1..Len(backlog) BY <2>3
      <4>. QED BY <1>1, <2>5, <4>1, <4>2 DEF OnePlace
    <3>4. ASSUME NEW m \in 1..Len(backlog'), NEW n \in 1..Len(backlog'),
                 backlog'[m] = backlog'[n]
          PROVE  m = n
      <4>1. m + 1 = n + 1 BY <1>1, <3>1, <3>4 DEF OnePlace
      <4>. QED BY <4>1
    <3>5. ASSUME NEW s \in Live' PROVE at'[peer'[s]] # "off"
      <4>1. 1 \in 1..Len(backlog) BY <2>3
      <4>. QED BY <1>1, <1>2, <2>5, <4>1 DEF OnePlace
    <3>6. \A n \in 1..Len(backlog') : at'[backlog'[n]] # "off"
      BY <1>1, <1>2, <3>1 DEF OnePlace
    <3>. QED BY <3>2, <3>3, <3>4, <3>5, <3>6 DEF OnePlace
  <2>8. Scanning' BY <1>2 DEF Scanning
  <2>9. Enrolled' \subseteq Enrolled
    <3>1. \A s : InGroup(s)' => s \in Live BY <1>1, <2>4 DEF Connections
    <3>. QED BY <2>4, <2>5, <3>1 DEF Enrolled
  <2>10. Packets' BY <1>1, <1>2, <2>9, OthersStay
  <2>. QED BY <2>4, <2>6, <2>7, <2>8, <2>10 DEF RoomInv
<1>. QED BY <1>4, <1>5 DEF Accept
-----------------------------------------------------------------------------
(* The steps of the clients: one client moves, and keeps its order.        *)
LEMMA ClientMoves ==
    ASSUME RoomInv, NEW c \in Clients, UNCHANGED <<groupVars, serverVars>>,
           NEW l \in Places, l # "off", Become(c, l), open' \subseteq open,
           NEW q \in Seq(Requests), toServer' = [toServer EXCEPT ![c] = q],
           q = <<>> => toServer[c] = <<>>,
           NEW r \in Seq(Replies), toClient' = [toClient EXCEPT ![c] = r],
           Orderly(l, q, r, c, Enrolled)
    PROVE  RoomInv'
<1>1. GroupsInv /\ SocksUnique /\ Connections /\ OnePlace /\ Scanning /\ Packets
  BY DEF RoomInv
<1>2. UNCHANGED groupVars /\ UNCHANGED <<livesdset, peer, backlog>> /\ tempset' = tempset
  BY DEF serverVars
<1>3. /\ at' = [at EXCEPT ![c] = l]
      /\ at \in [Clients -> Places] /\ toServer \in [Clients -> Seq(Requests)]
      /\ toClient \in [Clients -> Seq(Replies)]
  BY <1>1 DEF Packets, Become
<1>4. GroupsInv' /\ SocksUnique' /\ \A s : InGroup(s)' => InGroup(s)
  BY <1>1, <1>2, GroupsStay
<1>5. \A s : InGroup(s)' => s \in Live BY <1>1, <1>4 DEF Connections
<1>6. \A d \in Clients : at'[d] = "off" => at[d] = "off" BY <1>3
<1>7. tempset' \subseteq livesdset /\ (servsock \in tempset' => backlog # <<>>)
  BY <1>1, <1>2 DEF Connections
<1>8. Connections' /\ OnePlace' BY <1>1, <1>2, <1>5, <1>6, <1>7, ConnectionsStay
<1>9. Scanning'
  <2>1. \A d \in Clients : toServer'[d] = <<>> => toServer[d] = <<>> BY <1>3
  <2>2. \A s \in tempset \ {servsock} : peer[s] \in Clients
    BY <1>1 DEF Connections
  <2>3. \A s \in tempset \ {servsock} : Readable(peer[s]) BY <1>1 DEF Scanning
  <2>. QED BY <1>2, <2>1, <2>2, <2>3 DEF Scanning, Readable
<1>10. Enrolled' \subseteq Enrolled BY <1>2, <1>4, Still
<1>11. ASSUME NEW d \in Clients
       PROVE  Orderly(at'[d], toServer'[d], toClient'[d], d, Enrolled')
  <2>1. CASE d = c
    <3>1. Orderly(l, q, r, c, Enrolled') BY <1>10, FewerEnrolled
    <3>2. at'[c] = l /\ toServer'[c] = q /\ toClient'[c] = r BY <1>3
    <3>. QED BY <2>1, <3>1, <3>2
  <2>2. CASE d # c
    <3>1. Orderly(at[d], toServer[d], toClient[d], d, Enrolled) BY <1>1 DEF Packets
    <3>2. Orderly(at[d], toServer[d], toClient[d], d, Enrolled')
      BY <1>10, <3>1, FewerEnrolled
    <3>3. at'[d] = at[d] /\ toServer'[d] = toServer[d] /\ toClient'[d] = toClient[d]
      BY <1>3, <2>2
    <3>. QED BY <3>2, <3>3
  <2>. QED BY <2>1, <2>2
<1>12. /\ at' \in [Clients -> Places] /\ toServer' \in [Clients -> Seq(Requests)]
       /\ toClient' \in [Clients -> Seq(Replies)]
  BY <1>3
<1>13. Packets' BY <1>11, <1>12 DEF Packets
<1>. QED BY <1>4, <1>8, <1>9, <1>13 DEF RoomInv

(* A client's queues and its order, as the invariant has them.             *)
LEMMA ClientNow ==
    ASSUME RoomInv, NEW c \in Clients
    PROVE  /\ toServer[c] \in Seq(Requests) /\ toClient[c] \in Seq(Replies)
           /\ at[c] \in Places
           /\ Orderly(at[c], toServer[c], toClient[c], c, Enrolled)
           /\ toServer = [toServer EXCEPT ![c] = toServer[c]]
           /\ toClient = [toClient EXCEPT ![c] = toClient[c]]
           /\ at = [at EXCEPT ![c] = at[c]]
BY DEF RoomInv, Packets

(* The client says p and goes on at l.                                     *)
LEMMA ClientSays ==
    ASSUME RoomInv, NEW c \in Clients, UNCHANGED <<groupVars, serverVars>>,
           NEW l \in Places, l # "off", Become(c, l), UNCHANGED <<open, toClient>>,
           NEW p \in Requests, sendpkt(c, p),
           Orderly(l, Append(toServer[c], p), toClient[c], c, Enrolled)
    PROVE  RoomInv'
<1>1. toServer[c] \in Seq(Requests) /\ toClient[c] \in Seq(Replies)
      /\ toClient = [toClient EXCEPT ![c] = toClient[c]]
  BY ClientNow
<1>2. Append(toServer[c], p) \in Seq(Requests) /\ Append(toServer[c], p) # <<>>
  BY <1>1, AppendProperties
<1>3. toServer' = [toServer EXCEPT ![c] = Append(toServer[c], p)] BY DEF sendpkt
<1>4. toClient' = [toClient EXCEPT ![c] = toClient[c]] BY <1>1
<1>. QED BY <1>1, <1>2, <1>3, <1>4, ClientMoves

(* The client ends, having read what it read.                              *)
LEMMA GivenUp ==
    ASSUME NEW a, NEW q, NEW r, NEW c, NEW E, NEW l \in {"gone", "confused"},
           Orderly(a, q, r, c, E)
    PROVE  Orderly(l, q, r, c, E)
BY DEF Orderly, Outside

LEMMA ClientExits ==
    ASSUME RoomInv, NEW c \in Clients, UNCHANGED <<groupVars, serverVars>>,
           Exit(c, "gone"), UNCHANGED <<toServer, toClient>>
    PROVE  RoomInv'
<1>1. /\ toServer[c] \in Seq(Requests) /\ toClient[c] \in Seq(Replies)
      /\ Orderly(at[c], toServer[c], toClient[c], c, Enrolled)
      /\ toServer = [toServer EXCEPT ![c] = toServer[c]]
      /\ toClient = [toClient EXCEPT ![c] = toClient[c]]
  BY ClientNow
<1>2. Orderly("gone", toServer[c], toClient[c], c, Enrolled) BY <1>1, GivenUp
<1>3. "gone" \in Places /\ "gone" # "off" BY DEF Places
<1>4. Become(c, "gone") /\ open' \subseteq open BY DEF Exit
<1>5. /\ toServer' = [toServer EXCEPT ![c] = toServer[c]]
      /\ toClient' = [toClient EXCEPT ![c] = toClient[c]]
  BY <1>1
<1>. QED BY <1>1, <1>2, <1>3, <1>4, <1>5, ClientMoves

LEMMA ListRequested ==
    ASSUME RoomInv, NEW c \in Clients, UNCHANGED <<groupVars, serverVars>>, RequestList(c)
    PROVE  RoomInv'
<1>. DEFINE p == [type |-> "LIST_GROUPS"]
<1>1. /\ at[c] = "begin" /\ sendpkt(c, p) /\ Become(c, "list")
      /\ UNCHANGED <<open, toClient>>
  BY DEF RequestList
<1>2. p \in Requests /\ p.type # "JOIN_GROUP" BY PacketTypes
<1>. HIDE DEF p
<1>3. /\ Orderly("begin", toServer[c], toClient[c], c, Enrolled)
      /\ toServer[c] \in Seq(Requests)
  BY <1>1, ClientNow
<1>4. Orderly("begin", Append(toServer[c], p), toClient[c], c, Enrolled)
  BY <1>2, <1>3, Says
<1>5. Orderly("list", Append(toServer[c], p), toClient[c], c, Enrolled)
  BY <1>4 DEF Orderly, Outside
<1>6. "list" \in Places /\ "list" # "off" BY DEF Places
<1>. QED BY <1>1, <1>2, <1>5, <1>6, ClientSays

LEMMA JoinAsked ==
    ASSUME RoomInv, NEW c \in Clients, UNCHANGED <<groupVars, serverVars>>,
           NEW g \in UserGroups, NEW n \in UserNames, Join(c, g, n)
    PROVE  RoomInv'
<1>. DEFINE p == [type |-> "JOIN_GROUP", group |-> g, name |-> n]
<1>1. /\ at[c] = "prompt" /\ sendpkt(c, p) /\ Become(c, "join")
      /\ UNCHANGED <<open, toClient>>
  BY DEF Join
<1>2. p \in Requests /\ p.type = "JOIN_GROUP" BY PacketTypes
<1>. HIDE DEF p
<1>3. /\ Orderly("prompt", toServer[c], toClient[c], c, Enrolled)
      /\ toServer[c] \in Seq(Requests)
  BY <1>1, ClientNow
<1>4. Orderly("join", Append(toServer[c], p), toClient[c], c, Enrolled)
  BY <1>2, <1>3, AsksToJoin
<1>5. "join" \in Places /\ "join" # "off" BY DEF Places
<1>. QED BY <1>1, <1>2, <1>4, <1>5, ClientSays

LEMMA TextTyped ==
    ASSUME RoomInv, NEW c \in Clients, UNCHANGED <<groupVars, serverVars>>, TypeText(c)
    PROVE  RoomInv'
<1>. DEFINE p == [type |-> "USER_TEXT"]
<1>1. /\ at[c] = "chat" /\ sendpkt(c, p) /\ UNCHANGED <<open, toClient>> /\ at' = at
  BY DEF TypeText
<1>2. p \in Requests /\ p.type # "JOIN_GROUP" BY PacketTypes
<1>. HIDE DEF p
<1>3. /\ Orderly("chat", toServer[c], toClient[c], c, Enrolled)
      /\ toServer[c] \in Seq(Requests)
      /\ at = [at EXCEPT ![c] = at[c]]
  BY <1>1, ClientNow
<1>4. Orderly("chat", Append(toServer[c], p), toClient[c], c, Enrolled)
  BY <1>2, <1>3, Says
<1>5. "chat" \in Places /\ "chat" # "off" BY DEF Places
<1>6. Become(c, "chat") BY <1>1, <1>3 DEF Become
<1>. QED BY <1>1, <1>2, <1>4, <1>5, <1>6, ClientSays

LEMMA EndTyped ==
    ASSUME RoomInv, NEW c \in Clients, UNCHANGED <<groupVars, serverVars>>, TypeEnd(c)
    PROVE  RoomInv'
<1>. DEFINE p == [type |-> "LEAVE_GROUP"]
<1>1. /\ at[c] = "chat" /\ sendpkt(c, p) /\ Become(c, "begin")
      /\ UNCHANGED <<open, toClient>>
  BY DEF TypeEnd
<1>2. p \in Requests /\ p.type # "JOIN_GROUP" /\ p.type = "LEAVE_GROUP" BY PacketTypes
<1>. HIDE DEF p
<1>3. /\ Orderly("chat", toServer[c], toClient[c], c, Enrolled)
      /\ toServer[c] \in Seq(Requests)
  BY <1>1, ClientNow
<1>4. /\ Orderly("chat", Append(toServer[c], p), toClient[c], c, Enrolled)
      /\ Leavings(Append(toServer[c], p)) # {}
  BY <1>2, <1>3, Says
<1>5. Orderly("begin", Append(toServer[c], p), toClient[c], c, Enrolled)
  BY <1>4 DEF Orderly, Outside
<1>6. "begin" \in Places /\ "begin" # "off" BY DEF Places
<1>. QED BY <1>1, <1>2, <1>5, <1>6, ClientSays

(* A reply is read: what is expected decides where the client goes on.     *)
LEMMA ReplyTaken ==
    ASSUME RoomInv, NEW c \in Clients, UNCHANGED <<groupVars, serverVars>>,
           NEW l, NEW T, NEW m \in Places, m # "off", Read(c, l, T, m),
           Head(toClient[c]).type \in T =>
              \/ l = "list" /\ m = "prompt"
              \/ l = "chat" /\ m = "chat"
              \/ l = "join" /\ m = "chat" /\ Head(toClient[c]).type = "JOIN_ACCEPTED"
              \/ l = "join" /\ m = "begin" /\ Head(toClient[c]).type = "JOIN_REJECTED"
    PROVE  RoomInv'
<1>. DEFINE b == IF Head(toClient[c]).type \in T THEN m ELSE "confused"
<1>1. /\ at[c] = l /\ toClient[c] # <<>>
      /\ toClient' = [toClient EXCEPT ![c] = Tail(toClient[c])]
      /\ Become(c, b) /\ open' \subseteq open /\ toServer' = toServer
  BY DEF Read, Exit
<1>2. b \in Places /\ b # "off" BY DEF Places
<1>3. \/ b = "confused"
      \/ l = "list" /\ b = "prompt"
      \/ l = "chat" /\ b = "chat"
      \/ l = "join" /\ b = "chat" /\ Head(toClient[c]).type = "JOIN_ACCEPTED"
      \/ l = "join" /\ b = "begin" /\ Head(toClient[c]).type = "JOIN_REJECTED"
  OBVIOUS
<1>. HIDE DEF b
<1>4. /\ toServer[c] \in Seq(Requests) /\ toClient[c] \in Seq(Replies)
      /\ Orderly(l, toServer[c], toClient[c], c, Enrolled)
      /\ toServer = [toServer EXCEPT ![c] = toServer[c]]
  BY <1>1, ClientNow
<1>5. Orderly(b, toServer[c], Tail(toClient[c]), c, Enrolled)
  BY <1>1, <1>3, <1>4, ReplyRead
<1>6. Tail(toClient[c]) \in Seq(Replies) BY <1>1, <1>4, TailOf
<1>7. toServer' = [toServer EXCEPT ![c] = toServer[c]] BY <1>1, <1>4
<1>. QED BY <1>1, <1>2, <1>4, <1>5, <1>6, <1>7, ClientMoves

LEMMA SomethingRead ==
    ASSUME RoomInv, NEW c \in Clients, UNCHANGED <<groupVars, serverVars>>, ClientRead(c)
    PROVE  RoomInv'
<1>1. CASE ReadList(c)
  <2>1. "prompt" \in Places /\ "prompt" # "off" BY DEF Places
  <2>2. Read(c, "list", {"LIST_GROUPS"}, "prompt") BY <1>1 DEF ReadList
  <2>. QED BY <2>1, <2>2, ReplyTaken
<1>2. CASE ReadText(c)
  <2>1. "chat" \in Places /\ "chat" # "off" BY DEF Places
  <2>2. Read(c, "chat", {"USER_TEXT"}, "chat") BY <1>2 DEF ReadText
  <2>. QED BY <2>1, <2>2, ReplyTaken
<1>3. CASE ReadJoin(c)
  <2>. DEFINE m == IF Head(toClient[c]).type = "JOIN_ACCEPTED" THEN "chat" ELSE "begin"
  <2>1. m \in Places /\ m # "off" BY DEF Places
  <2>2. Read(c, "join", {"JOIN_ACCEPTED", "JOIN_REJECTED"}, m) BY <1>3 DEF ReadJoin
  <2>3. Head(toClient[c]).type \in {"JOIN_ACCEPTED", "JOIN_REJECTED"} =>
           \/ m = "chat" /\ Head(toClient[c]).type = "JOIN_ACCEPTED"
           \/ m = "begin" /\ Head(toClient[c]).type = "JOIN_REJECTED"
    OBVIOUS
  <2>. HIDE DEF m
  <2>. QED BY <2>1, <2>2, <2>3, ReplyTaken
<1>4. CASE ServerDied(c)
  <2>1. Exit(c, "gone") /\ UNCHANGED <<toServer, toClient>> BY <1>4 DEF ServerDied
  <2>. QED BY <2>1, ClientExits
<1>. QED BY <1>1, <1>2, <1>3, <1>4 DEF ClientRead

LEMMA UserDone ==
    ASSUME RoomInv, NEW c \in Clients, UNCHANGED <<groupVars, serverVars>>,
           UserStep(c) \/ Crash(c)
    PROVE  RoomInv'
<1>1. Quit(c) \/ Crash(c) => Exit(c, "gone") /\ UNCHANGED <<toServer, toClient>>
  BY DEF Quit, Crash
<1>2. Quit(c) \/ Crash(c) => RoomInv' BY <1>1, ClientExits
<1>3. ASSUME NEW g \in UserGroups, NEW n \in UserNames, Join(c, g, n) PROVE RoomInv'
  BY <1>3, JoinAsked
<1>. QED BY <1>2, <1>3, TextTyped, EndTyped DEF UserStep
LEMMA Dialled ==
    ASSUME RoomInv, NEW c \in Clients, Dial(c)
    PROVE  RoomInv'
<1>1. GroupsInv /\ SocksUnique /\ Connections /\ OnePlace /\ Scanning /\ Packets
  BY DEF RoomInv
<1>2. /\ at[c] = "off" /\ at' = [at EXCEPT ![c] = "begin"]
      /\ open' = open \cup {c} /\ toServer' = toServer /\ toClient' = toClient
      /\ backlog' = Append(backlog, c)
      /\ UNCHANGED groupVars /\ livesdset' = livesdset /\ tempset' = tempset /\ peer' = peer
  BY DEF Dial, Connect, Become
<1>3. at \in [Clients -> Places] BY <1>1 DEF Packets
<1>4. GroupsInv' /\ SocksUnique' /\ \A s : InGroup(s)' => InGroup(s)
  BY <1>1, <1>2, GroupsStay
<1>5. /\ backlog' \in Seq(Clients) /\ backlog' # <<>>
      /\ Len(backlog') = Len(backlog) + 1 /\ Len(backlog) \in Nat
      /\ \A k \in 1..Len(backlog) : backlog'[k] = backlog[k] /\ backlog[k] \in Clients
      /\ backlog'[Len(backlog) + 1] = c
  <2>1. backlog \in Seq(Clients) BY <1>1 DEF Connections
  <2>. QED BY <1>2, <2>1, Appended, AppendProperties, ElementOfSeq
<1>6. Live' = Live /\ \A s \in Live : peer[s] \in Clients /\ peer[s] # c
  BY <1>1, <1>2 DEF Live, Connections, OnePlace
<1>7. Connections'
  <2>1. \A s : InGroup(s)' => s \in Live' BY <1>1, <1>4, <1>6 DEF Connections
  <2>. QED BY <1>1, <1>2, <1>5, <2>1 DEF Connections
<1>8. OnePlace'
  <2>1. \A k \in 1..Len(backlog) : backlog[k] # c BY <1>1, <1>2 DEF OnePlace
  <2>2. \A n \in 1..Len(backlog') : \/ n = Len(backlog) + 1 /\ backlog'[n] = c
                                    \/ n \in 1..Len(backlog) /\ backlog'[n] = backlog[n]
    BY <1>5
  <2>3. \A d \in Clients : at'[d] = "off" => at[d] = "off" /\ d # c BY <1>2, <1>3
  <2>4. \A s, t \in Live : peer[s] = peer[t] => s = t BY <1>1 DEF OnePlace
  <2>5. \A s \in Live, n \in 1..Len(backlog') : backlog'[n] # peer[s]
    BY <1>1, <1>6, <2>2 DEF OnePlace
  <2>6. \A m, n \in 1..Len(backlog') : backlog'[m] = backlog'[n] => m = n
    BY <1>1, <2>1, <2>2 DEF OnePlace
  <2>7. \A s \in Live : at'[peer[s]] # "off" BY <1>1, <1>6, <2>3 DEF OnePlace
  <2>8. \A n \in 1..Len(backlog') : at'[backlog'[n]] # "off"
    BY <1>1, <1>2, <1>3, <1>5, <2>2, <2>3 DEF OnePlace
  <2>. QED BY <1>2, <1>6, <2>4, <2>5, <2>6, <2>7, <2>8 DEF OnePlace
<1>9. Scanning'
  <2>1. \A s \in tempset \ {servsock} : Readable(peer[s]) /\ peer[s] # c
    BY <1>1, <1>6 DEF Scanning, Connections, Live
  <2>. QED BY <1>2, <2>1 DEF Scanning, Readable
<1>10. Enrolled' \subseteq Enrolled BY <1>2, <1>4, Still
<1>11. ASSUME NEW d \in Clients
       PROVE  Orderly(at'[d], toServer'[d], toClient'[d], d, Enrolled')
  <2>1. Orderly(at[d], toServer[d], toClient[d], d, Enrolled) BY <1>1 DEF Packets
  <2>2. Orderly(at[d], toServer[d], toClient[d], d, Enrolled')
    BY <1>10, <2>1, FewerEnrolled
  <2>3. CASE d = c
    <3>1. Orderly("begin", toServer[c], toClient[c], c, Enrolled')
      BY <1>2, <2>2, <2>3 DEF Orderly, Outside
    <3>. QED BY <1>2, <1>3, <2>3, <3>1
  <2>4. CASE d # c BY <1>2, <1>3, <2>2, <2>4
  <2>. QED BY <2>3, <2>4
<1>12. at' \in [Clients -> Places] BY <1>2, <1>3 DEF Places
<1>13. Packets' BY <1>1, <1>2, <1>11, <1>12 DEF Packets
<1>. QED BY <1>4, <1>7, <1>8, <1>9, <1>13 DEF RoomInv

-----------------------------------------------------------------------------
LEMMA RoomInit == Init => RoomInv
<1>. SUFFICES ASSUME Init PROVE RoomInv
  OBVIOUS
<1>1. /\ initgroups /\ livesdset = {servsock} /\ tempset = {}
      /\ peer = [s \in Socks |-> NoClient] /\ backlog = <<>>
      /\ at = [c \in Clients |-> "off"]
      /\ toServer = [c \in Clients |-> <<>>] /\ toClient = [c \in Clients |-> <<>>]
  BY DEF Init, ServerInit, ClientInit
<1>2. GroupsInv BY <1>1, InitGroups
<1>3. \A g \in Groups : DOMAIN mems[g] = {} BY <1>1, EmptySeq DEF initgroups
<1>4. SocksUnique /\ \A s : ~InGroup(s) BY <1>3 DEF SocksUnique, InGroup
<1>5. Live = {} /\ \A s \in Socks : s # servsock
  BY <1>1, ServerAssumption, GroupsAssumption DEF Live
<1>6. backlog \in Seq(Clients) /\ Len(backlog) = 0 BY <1>1, EmptySeq
<1>7. Connections BY <1>1, <1>4, <1>5, <1>6 DEF Connections
<1>8. OnePlace BY <1>5, <1>6 DEF OnePlace
<1>9. Scanning BY <1>1 DEF Scanning
<1>10. <<>> \in Seq(Requests) /\ <<>> \in Seq(Replies) /\ Len(<<>>) = 0 BY EmptySeq
<1>11. \A T : Of(<<>>, T) = {} BY <1>10 DEF Of
<1>12. Enrolled = {} BY <1>4 DEF Enrolled
<1>13. \A c \in Clients : Orderly("off", <<>>, <<>>, c, Enrolled)
  BY <1>11, <1>12 DEF Orderly, Asks, Answers, Outside
<1>14. Packets BY <1>1, <1>10, <1>13 DEF Packets, Places
<1>. QED BY <1>2, <1>4, <1>7, <1>8, <1>9, <1>14 DEF RoomInv

LEMMA RoomStep == RoomInv /\ [Next]_vars => RoomInv'
<1>. SUFFICES ASSUME RoomInv, [Next]_vars PROVE RoomInv'
  OBVIOUS
<1>1. CASE UNCHANGED vars
  <2>1. UNCHANGED <<groupVars, livesdset, peer, backlog>>
        /\ UNCHANGED <<at, open, toServer, toClient>> /\ tempset' = tempset
    BY <1>1 DEF vars, linkVars, serverVars, clientVars
  <2>2. Connections /\ Scanning BY DEF RoomInv
  <2>3. tempset' \subseteq livesdset /\ (servsock \in tempset' => backlog # <<>>)
    BY <2>1, <2>2 DEF Connections
  <2>4. \A s \in tempset' \ {servsock} : Readable(peer[s]) BY <2>1, <2>2 DEF Scanning
  <2>. QED BY <2>1, <2>3, <2>4, TableStays
<1>2. ASSUME ServerStep, UNCHANGED clientVars PROVE RoomInv'
  <2>1. ASSUME NEW sock \in Socks, Serve(sock) PROVE RoomInv'
    BY <1>2, <2>1, ListServed, JoinDone, LeaveServed, TextServed, Disconnected,
       DisconnectCrashed DEF Serve
  <2>. QED BY <1>2, <2>1, Selected, Accepted DEF ServerStep
<1>3. ASSUME NEW c \in Clients, ClientStep(c) PROVE RoomInv'
  BY <1>3, Dialled, ListRequested, SomethingRead, UserDone DEF ClientStep
<1>. QED BY <1>1, <1>2, <1>3 DEF Next, ServerNext

LEMMA RoomInvariant == Spec => []RoomInv
BY RoomInit, RoomStep, PTL DEF Spec

(* Whatever clients ask, and however they disconnect, the server uses its  *)
(* table only as GroupsSpec says (chatserver.c:224-275, 378-475).          *)
THEOREM RoomUsesGroups == Spec => GroupsSpec
<1>1. Init => initgroups BY DEF Init, ServerInit
<1>2. ASSUME RoomInv, [Next]_vars PROVE [GroupsNext]_groupVars
  <2>1. ASSUME NEW sock \in Socks, ServeJoin(sock) PROVE [GroupsNext]_groupVars
    <3>. DEFINE pkt == Head(toServer[peer[sock]])
    <3>1. Connections /\ OnePlace /\ Scanning /\ Packets /\ Receive(sock, "JOIN_GROUP")
      BY <1>2, <2>1 DEF RoomInv, ServeJoin
    <3>2. pkt \in Requests /\ pkt.type = "JOIN_GROUP"
      BY <3>1, Received, TailOf
    <3>. HIDE DEF pkt
    <3>3. CASE admits(pkt.group, pkt.name)
      <4>1. enter(sock, pkt.group, pkt.name) BY <2>1, <3>3 DEF ServeJoin, pkt
      <4>2. pkt.name \in Names /\ pkt.group \in Groups
        BY <3>2, <3>3, JoinRequest, RoomAssumption DEF admits
      <4>. QED BY <3>3, <4>1, <4>2 DEF GroupsNext
    <3>4. CASE ~admits(pkt.group, pkt.name)
      BY <2>1, <3>4 DEF ServeJoin, pkt
    <3>. QED BY <3>3, <3>4
  <2>2. ASSUME NEW sock \in Socks, ServeLeave(sock) \/ Disconnect(sock)
        PROVE  GroupsNext
    BY <2>2 DEF ServeLeave, Disconnect, GroupsNext
  <2>3. ASSUME NEW sock \in Socks,
               ServeList(sock) \/ ServeText(sock) \/ DisconnectCrash(sock)
        PROVE  UNCHANGED groupVars
    BY <2>3 DEF ServeList, ServeText, DisconnectCrash
  <2>4. Select \/ Accept => UNCHANGED groupVars BY DEF Select, Accept
  <2>5. ServerStep => [GroupsNext]_groupVars
    BY <2>1, <2>2, <2>3, <2>4 DEF ServerStep, Serve
  <2>6. \A c \in Clients : ClientStep(c) => UNCHANGED groupVars
    BY DEF ClientStep, Dial
  <2>. QED BY <1>2, <2>5, <2>6 DEF Next, ServerNext, vars
<1>. QED BY <1>1, <1>2, RoomInvariant, PTL DEF Spec, GroupsSpec

(* So its counts are right (chatserver.c:403-404, 431, 462),               *)
THEOREM RoomCounts == Spec => []Occupancy
<1>1. RoomInv => Occupancy BY DEF RoomInv, GroupsInv
<1>. QED BY <1>1, RoomInvariant, PTL

(* and no two members share a nickname (chatserver.c:392-401).             *)
THEOREM RoomNames == Spec => []NamesUnique
<1>1. RoomInv => NamesUnique BY DEF RoomInv, GroupsInv
<1>. QED BY <1>1, RoomInvariant, PTL

(* A connection is in at most one group though joingroup does not look,    *)
(* because of the order in which a client asks (chatserver.c:378-435,      *)
(* chatclient.c:173-228).                                                  *)
THEOREM OneGroupEach == Spec => []OneMembership
<1>1. ASSUME SocksUnique PROVE OneMembership
  <2>1. \A m \in AllMembers : \E g \in Groups : \E i \in DOMAIN mems[g] :
            m = <<g, i>> /\ At(m) = mems[g][i]
    BY DEF AllMembers, At
  <2>. QED BY <1>1, <2>1 DEF OneMembership, SocksUnique
<1>2. RoomInv => OneMembership BY <1>1 DEF RoomInv
<1>. QED BY <1>2, RoomInvariant, PTL

(* A descriptor in a group is watched and belongs to a client, so it is    *)
(* not given to another before it has left (chatserver.c:214-221, 285).    *)
THEOREM MembersStayConnected == Spec => []MembersConnected
<1>1. ASSUME Connections PROVE MembersConnected
  <2>1. \A m \in AllMembers : InGroup(At(m).sock) BY DEF AllMembers, At, InGroup
  <2>2. \A s : InGroup(s) => s \in livesdset /\ s \in Socks
    BY <1>1 DEF Connections, Live
  <2>. QED BY <1>1, <2>1, <2>2 DEF MembersConnected, Connections
<1>2. RoomInv => MembersConnected BY <1>1 DEF RoomInv
<1>. QED BY <1>2, RoomInvariant, PTL

-----------------------------------------------------------------------------
(* What a client that is in a group or on its way into one has ahead of    *)
(* it.  E is the set of clients that are in the group and by the name rm   *)
(* they asked for last.                                                    *)
Lists(q)   == Of(q, {"LIST_GROUPS"})
Accepts(r) == Of(r, {"JOIN_ACCEPTED"})

(* From the k-th on, the packets of r are what was said in g.              *)
Heard(r, k, g) ==
    \A l \in k..Len(r) : r[l].type = "USER_TEXT" /\ r[l].groups = {g}

(* A list is asked for once and answered once.  A client that asks to join *)
(* has asked to leave before; when it is accepted it sits where it asked   *)
(* to, and hears from then on what is said there, until it leaves.         *)
Talking(a, q, r, rm, c, E) ==
    /\ a \in {"off", "begin", "prompt", "join", "chat"} =>
          Lists(q) = {} /\ Lists(r) = {}
    /\ a = "list" => /\ \A k, l \in Lists(q) : k = l
                     /\ \A k, l \in Lists(r) : k = l
                     /\ Lists(r) # {} => Lists(q) = {}
    /\ a = "join" => /\ \A k \in Asks(q) : /\ <<q[k].group, q[k].name>> = rm
                                           /\ \A l \in Leavings(q) : l < k
                     /\ Asks(q) = {} => Leavings(q) = {}
                     /\ \A k \in Accepts(r) : c \in E /\ Heard(r, k + 1, rm[1])
    /\ a = "chat" => c \in E /\ Leavings(q) = {} /\ Heard(r, 1, rm[1])

(* A client that has given up expects nothing.                             *)
LEMMA TalkOver ==
    ASSUME NEW a \in {"gone", "confused"}, NEW q, NEW r, NEW rm, NEW c, NEW E
    PROVE  Talking(a, q, r, rm, c, E)
BY DEF Talking

(* Who sits where it asked to still does.                                  *)
LEMMA TalkGoesOn ==
    ASSUME NEW a, NEW q, NEW r, NEW rm, NEW c, NEW E, NEW F,
           Talking(a, q, r, rm, c, E), c \in E => c \in F
    PROVE  Talking(a, q, r, rm, c, F)
BY DEF Talking

(* The server reads a request other than to join or to leave.              *)
LEMMA TalkServed ==
    ASSUME NEW S, NEW q \in Seq(S), q # <<>>, NEW a, NEW r, NEW rm, NEW c, NEW E,
           Talking(a, q, r, rm, c, E), Head(q).type # "JOIN_GROUP"
    PROVE  Talking(a, Tail(q), r, rm, c, E)
<1>1. /\ \A k \in Asks(Tail(q)) : k \in Nat /\ k + 1 \in Asks(q)
      /\ \A k \in Asks(q) : k = 1 \/ k - 1 \in Asks(Tail(q))
      /\ 1 \notin Asks(q)
  BY OfTail DEF Asks
<1>2. \A k \in Leavings(Tail(q)) : k \in Nat /\ k + 1 \in Leavings(q)
  BY OfTail DEF Leavings
<1>3. \A k \in Lists(Tail(q)) : k \in Nat /\ k + 1 \in Lists(q)
  BY OfTail DEF Lists
<1>4. \A k \in Asks(Tail(q)) : Tail(q)[k] = q[k + 1]
  <2>1. \A k \in Asks(Tail(q)) : k \in 1..Len(q) - 1 BY TailOf DEF Asks, Of
  <2>. QED BY <2>1, TailOf
<1>5. /\ Lists(q) = {} => Lists(Tail(q)) = {}
      /\ Leavings(q) = {} => Leavings(Tail(q)) = {}
      /\ Asks(Tail(q)) = {} => Asks(q) = {}
  BY <1>1, <1>2, <1>3
<1>6. (\A k, l \in Lists(q) : k = l) => \A k, l \in Lists(Tail(q)) : k = l
  <2>1. SUFFICES ASSUME \A k, l \in Lists(q) : k = l,
                        NEW k \in Lists(Tail(q)), NEW l \in Lists(Tail(q))
                 PROVE  k = l
    OBVIOUS
  <2>2. k + 1 = l + 1 /\ k \in Nat /\ l \in Nat BY <1>3, <2>1
  <2>. QED BY <2>2
<1>7. ASSUME a = "join", NEW k \in Asks(Tail(q))
      PROVE  /\ <<Tail(q)[k].group, Tail(q)[k].name>> = rm
             /\ \A l \in Leavings(Tail(q)) : l < k
  <2>1. k \in Nat /\ k + 1 \in Asks(q) /\ Tail(q)[k] = q[k + 1] BY <1>1, <1>4, <1>7
  <2>2. \A l \in Leavings(q) : l < k + 1 BY <1>7, <2>1 DEF Talking
  <2>3. \A l \in Leavings(Tail(q)) : l \in Nat /\ l + 1 < k + 1 BY <1>2, <2>2
  <2>4. \A l \in Leavings(Tail(q)) : l < k BY <2>1, <2>3
  <2>. QED BY <1>7, <2>1, <2>4 DEF Talking
<1>. QED BY <1>5, <1>6, <1>7 DEF Talking

(* A request to leave was the last thing the client said in its group.     *)
LEMMA TalkLeft ==
    ASSUME NEW S, NEW q \in Seq(S), q # <<>>, NEW a, NEW r, NEW rm, NEW c, NEW E,
           NEW G, Orderly(a, q, r, c, G),
           Talking(a, q, r, rm, c, E), Head(q).type = "LEAVE_GROUP", NEW F
    PROVE  Talking(a, Tail(q), r, rm, c, F)
<1>1. Talking(a, Tail(q), r, rm, c, E) BY TalkServed
<1>2. Leavings(q) # {} BY OfTail DEF Leavings
<1>3. a # "chat" BY <1>2 DEF Talking
<1>4. a = "join" => Accepts(r) = {}
  <2>1. Accepts(r) \subseteq Answers(r) BY DEF Accepts, Answers, Of
  <2>2. a = "join" => Asks(q) # {} BY <1>2 DEF Talking
  <2>3. a = "join" => Answers(r) = {} BY <2>2 DEF Orderly
  <2>. QED BY <2>1, <2>3
<1>. QED BY <1>1, <1>3, <1>4 DEF Talking

(* It sends the list to a client that waits for it.                        *)
LEMMA TalkListed ==
    ASSUME NEW S, NEW q \in Seq(S), q # <<>>, NEW a, NEW R, NEW r \in Seq(R),
           NEW rm, NEW c, NEW E, Talking(a, q, r, rm, c, E),
           Head(q).type = "LIST_GROUPS", a \in Places,
           NEW p \in R, p.type = "LIST_GROUPS"
    PROVE  Talking(a, Tail(q), Append(r, p), rm, c, E)
<1>1. Talking(a, Tail(q), r, rm, c, E) BY TalkServed
<1>2. 1 \in Lists(q) BY OfTail DEF Lists
<1>3. a \in {"list", "gone", "confused"} BY <1>2 DEF Talking, Places
<1>4. a = "list" => Lists(Tail(q)) = {}
  <2>1. \A k \in Lists(Tail(q)) : k \in 1..Len(Tail(q)) /\ k \in Nat /\ k + 1 \in Lists(q)
    BY OfTail DEF Lists, Of
  <2>2. a = "list" => \A k \in Lists(Tail(q)) : k + 1 = 1 /\ k \in Nat /\ k >= 1
    <3>1. \A k \in 1..Len(Tail(q)) : k >= 1 BY TailOf, LenProperties
    <3>. QED BY <1>2, <2>1, <3>1 DEF Talking
  <2>3. a = "list" => \A k \in Lists(Tail(q)) : FALSE BY <2>2
  <2>. QED BY <2>3
<1>5. a = "list" => Lists(r) = {} BY <1>2 DEF Talking
<1>6. Lists(Append(r, p)) = Lists(r) \cup {Len(r) + 1} BY OfAppended DEF Lists
<1>7. a = "list" => \A k, l \in Lists(Append(r, p)) : k = l BY <1>5, <1>6
<1>. QED BY <1>1, <1>3, <1>4, <1>7 DEF Talking

(* It reads a request to join, and answers unless it dies.                 *)
LEMMA TalkAnswered ==
    ASSUME NEW S, NEW q \in Seq(S), q # <<>>, NEW a, NEW R, NEW r \in Seq(R),
           NEW rm, NEW c, NEW E, NEW G, Orderly(a, q, r, c, G), a \in Places,
           Talking(a, q, r, rm, c, E), Head(q).type = "JOIN_GROUP", NEW F,
           NEW p \in R, p.type \in {"JOIN_ACCEPTED", "JOIN_REJECTED"},
           p.type = "JOIN_ACCEPTED" /\ rm = <<Head(q).group, Head(q).name>> => c \in F
    PROVE  /\ Talking(a, Tail(q), r, rm, c, F)
           /\ Talking(a, Tail(q), Append(r, p), rm, c, F)
<1>1. 1 \in Asks(q) /\ Head(q) = q[1] BY OfTail, TailOf DEF Asks
<1>2. a \in {"join", "gone", "confused"} BY <1>1 DEF Orderly, Outside, Places
<1>3. CASE a = "join"
  <2>1. /\ rm = <<q[1].group, q[1].name>>
        /\ \A l \in Leavings(q) : l < 1
        /\ Lists(q) = {} /\ Lists(r) = {} /\ Answers(r) = {}
        /\ \A k, l \in Asks(q) : k = l
    BY <1>1, <1>3 DEF Talking, Orderly
  <2>2. Leavings(Tail(q)) = {} /\ Lists(Tail(q)) = {} /\ Asks(Tail(q)) = {}
    <3>1. ASSUME NEW T, \A l \in Of(q, T) : l <= 1 PROVE Of(Tail(q), T) = {}
      <4>1. \A k \in Of(Tail(q), T) : k \in 1..Len(Tail(q)) /\ k \in Nat /\ k + 1 \in Of(q, T)
        BY OfTail DEF Of
      <4>2. \A k \in 1..Len(Tail(q)) : k \in Nat /\ k >= 1 BY TailOf, LenProperties
      <4>3. \A k \in Of(Tail(q), T) : k \in Nat /\ k >= 1 /\ k + 1 <= 1
        BY <3>1, <4>1, <4>2
      <4>4. \A k \in Of(Tail(q), T) : FALSE BY <4>3
      <4>. QED BY <4>4
    <3>2. \A l \in Leavings(q) : l <= 1 BY <2>1 DEF Leavings, Of
    <3>3. \A l \in Asks(q) : l <= 1 BY <1>1, <2>1
    <3>4. \A l \in Lists(q) : l <= 1 BY <2>1
    <3>. QED BY <3>1, <3>2, <3>3, <3>4 DEF Leavings, Asks, Lists
  <2>3. Accepts(r) = {} BY <2>1 DEF Accepts, Answers, Of
  <2>4. Lists(Append(r, p)) = Lists(r) BY OfAppended DEF Lists
  <2>5. ASSUME NEW k \in Accepts(Append(r, p))
        PROVE  c \in F /\ Heard(Append(r, p), k + 1, rm[1])
    <3>1. p.type = "JOIN_ACCEPTED" /\ k = Len(r) + 1
      BY <2>3, <2>5, OfAppended DEF Accepts
    <3>2. c \in F BY <1>1, <2>1, <3>1
    <3>3. Len(Append(r, p)) = Len(r) + 1 /\ Len(r) \in Nat BY Appended
    <3>4. \A l \in k + 1..Len(Append(r, p)) : FALSE BY <3>1, <3>3
    <3>. QED BY <3>2, <3>4 DEF Heard
  <2>6. Talking("join", Tail(q), r, rm, c, F) BY <2>1, <2>2, <2>3 DEF Talking
  <2>7. Talking("join", Tail(q), Append(r, p), rm, c, F)
    BY <2>1, <2>2, <2>4, <2>5 DEF Talking
  <2>. QED BY <1>3, <2>6, <2>7
<1>4. CASE a # "join" BY <1>2, <1>4, TalkOver
<1>. QED BY <1>3, <1>4

(* The client is sent what was said in its group.                          *)
LEMMA TalkHeard ==
    ASSUME NEW R, NEW r \in Seq(R), NEW p \in R, NEW a, NEW q, NEW rm, NEW c, NEW E,
           Talking(a, q, r, rm, c, E),
           p.type = "USER_TEXT", c \in E => p.groups = {rm[1]}
    PROVE  Talking(a, q, Append(r, p), rm, c, E)
<1>1. /\ Len(Append(r, p)) = Len(r) + 1 /\ Len(r) \in Nat
      /\ \A k \in 1..Len(r) : Append(r, p)[k] = r[k]
      /\ Append(r, p)[Len(r) + 1] = p
  BY Appended
<1>2. Lists(Append(r, p)) = Lists(r) BY OfAppended DEF Lists
<1>3. Accepts(Append(r, p)) = Accepts(r) BY OfAppended DEF Accepts
<1>4. ASSUME NEW k \in Nat, k >= 1, Heard(r, k, rm[1]), c \in E
      PROVE  Heard(Append(r, p), k, rm[1])
  <2>1. SUFFICES ASSUME NEW l \in k..Len(r) + 1
                 PROVE  /\ Append(r, p)[l].type = "USER_TEXT"
                        /\ Append(r, p)[l].groups = {rm[1]}
    BY <1>1 DEF Heard
  <2>2. CASE l = Len(r) + 1 BY <1>1, <1>4, <2>2
  <2>3. CASE l # Len(r) + 1
    <3>1. l \in k..Len(r) /\ l \in 1..Len(r) BY <1>1, <1>4, <2>1, <2>3
    <3>. QED BY <1>1, <1>4, <3>1 DEF Heard
  <2>. QED BY <2>2, <2>3
<1>5. \A k \in Accepts(r) : k + 1 \in Nat /\ k + 1 >= 1 BY <1>1 DEF Accepts, Of
<1>6. a = "join" => \A k \in Accepts(r) : Heard(Append(r, p), k + 1, rm[1])
  BY <1>4, <1>5 DEF Talking
<1>7. a = "chat" => Heard(Append(r, p), 1, rm[1]) BY <1>4 DEF Talking
<1>. QED BY <1>2, <1>3, <1>6, <1>7 DEF Talking

(* The client asks for the list, to join, says something, leaves.          *)
LEMMA TalkAsksList ==
    ASSUME NEW S, NEW q \in Seq(S), NEW p \in S, NEW r, NEW rm, NEW c, NEW E,
           Talking("begin", q, r, rm, c, E), p.type = "LIST_GROUPS"
    PROVE  Talking("list", Append(q, p), r, rm, c, E)
<1>1. Lists(Append(q, p)) = Lists(q) \cup {Len(q) + 1} BY OfAppended DEF Lists
<1>. QED BY <1>1 DEF Talking

LEMMA TalkAsksJoin ==
    ASSUME NEW S, NEW q \in Seq(S), NEW p \in S, NEW r, NEW rm, NEW c, NEW E, NEW F,
           NEW G, Orderly("prompt", q, r, c, G),
           Talking("prompt", q, r, rm, c, E), p.type = "JOIN_GROUP"
    PROVE  Talking("join", Append(q, p), r, <<p.group, p.name>>, c, F)
<1>1. Asks(q) = {} /\ Answers(r) = {} BY DEF Orderly, Outside
<1>2. Asks(Append(q, p)) = {Len(q) + 1} BY <1>1, OfAppended DEF Asks
<1>3. Leavings(Append(q, p)) = Leavings(q) BY OfAppended DEF Leavings
<1>4. Lists(Append(q, p)) = Lists(q) BY OfAppended DEF Lists
<1>5. \A l \in Leavings(q) : l < Len(q) + 1 BY LenProperties DEF Leavings, Of
<1>6. Append(q, p)[Len(q) + 1] = p BY Appended
<1>7. Accepts(r) = {} BY <1>1 DEF Accepts, Answers, Of
<1>. QED BY <1>2, <1>3, <1>4, <1>5, <1>6, <1>7 DEF Talking

LEMMA TalkSays ==
    ASSUME NEW S, NEW q \in Seq(S), NEW p \in S, NEW r, NEW rm, NEW c, NEW E,
           Talking("chat", q, r, rm, c, E), p.type = "USER_TEXT"
    PROVE  Talking("chat", Append(q, p), r, rm, c, E)
<1>1. Leavings(Append(q, p)) = Leavings(q) BY OfAppended DEF Leavings
<1>2. Lists(Append(q, p)) = Lists(q) BY OfAppended DEF Lists
<1>. QED BY <1>1, <1>2 DEF Talking

LEMMA TalkLeaves ==
    ASSUME NEW S, NEW q \in Seq(S), NEW p \in S, NEW r, NEW rm, NEW c, NEW E,
           Talking("chat", q, r, rm, c, E), p.type = "LEAVE_GROUP"
    PROVE  Talking("begin", Append(q, p), r, rm, c, E)
<1>1. Lists(Append(q, p)) = Lists(q) BY OfAppended DEF Lists
<1>. QED BY <1>1 DEF Talking

(* The client reads: the cases of ReplyRead.                               *)
LEMMA TalkRead ==
    ASSUME NEW R, NEW r \in Seq(R), r # <<>>, NEW q, NEW a, NEW b, NEW rm, NEW c, NEW E,
           NEW G, Orderly(a, q, r, c, G), Talking(a, q, r, rm, c, E),
           \/ b = "confused"
           \/ a = "list" /\ b = "prompt" /\ Head(r).type = "LIST_GROUPS"
           \/ a = "chat" /\ b = "chat"
           \/ a = "join" /\ b = "chat" /\ Head(r).type = "JOIN_ACCEPTED"
           \/ a = "join" /\ b = "begin" /\ Head(r).type = "JOIN_REJECTED"
    PROVE  Talking(b, q, Tail(r), rm, c, E)
<1>1. /\ Len(Tail(r)) = Len(r) - 1 /\ Len(r) \in Nat /\ Len(r) >= 1
      /\ \A k \in 1..Len(r) - 1 : Tail(r)[k] = r[k + 1]
  BY TailOf
<1>2. \A k \in Lists(Tail(r)) : k \in 1..Len(Tail(r)) /\ k + 1 \in Lists(r)
  BY OfTail DEF Lists, Of
<1>3. Lists(r) = {} => Lists(Tail(r)) = {} BY <1>2
<1>4. ASSUME Heard(r, 2, rm[1]) PROVE Heard(Tail(r), 1, rm[1])
  <2>1. SUFFICES ASSUME NEW l \in 1..Len(Tail(r))
                 PROVE  Tail(r)[l].type = "USER_TEXT" /\ Tail(r)[l].groups = {rm[1]}
    BY DEF Heard
  <2>2. l \in 1..Len(r) - 1 /\ l + 1 \in 2..Len(r) BY <1>1, <2>1
  <2>3. r[l + 1].type = "USER_TEXT" /\ r[l + 1].groups = {rm[1]}
    BY <1>4, <2>2 DEF Heard
  <2>. QED BY <1>1, <2>2, <2>3
<1>5. Heard(r, 1, rm[1]) => Heard(r, 2, rm[1]) BY <1>1 DEF Heard
<1>6. CASE b = "confused" BY <1>6, TalkOver
<1>7. CASE a = "list" /\ b = "prompt" /\ Head(r).type = "LIST_GROUPS"
  <2>1. 1 \in Lists(r) BY <1>7, OfTail DEF Lists
  <2>2. Lists(q) = {} /\ \A k \in Lists(r) : k = 1 BY <1>7, <2>1 DEF Talking
  <2>3. \A k \in 1..Len(Tail(r)) : k + 1 # 1 BY <1>1
  <2>4. Lists(Tail(r)) = {} BY <1>2, <2>2, <2>3
  <2>. QED BY <1>7, <2>2, <2>4 DEF Talking
<1>8. CASE a = "chat" /\ b = "chat" BY <1>3, <1>4, <1>5, <1>8 DEF Talking
<1>9. CASE a = "join" /\ b = "chat" /\ Head(r).type = "JOIN_ACCEPTED"
  <2>1. 1 \in Accepts(r) BY <1>9, OfTail DEF Accepts
  <2>2. 1 \in Answers(r) BY <2>1 DEF Accepts, Answers, Of
  <2>3. Asks(q) = {} BY <1>9, <2>2 DEF Orderly
  <2>4. Leavings(q) = {} BY <1>9, <2>3 DEF Talking
  <2>5. c \in E /\ Heard(r, 1 + 1, rm[1]) BY <1>9, <2>1 DEF Talking
  <2>6. 1 + 1 = 2 OBVIOUS
  <2>7. Heard(Tail(r), 1, rm[1]) BY <1>4, <2>5, <2>6
  <2>. QED BY <1>3, <1>9, <2>4, <2>5, <2>7 DEF Talking
<1>10. CASE a = "join" /\ b = "begin" /\ Head(r).type = "JOIN_REJECTED"
  BY <1>3, <1>10 DEF Talking
<1>. QED BY <1>6, <1>7, <1>8, <1>9, <1>10

(* Who is a member stays one, at a place of its own in the list, until the *)
(* server removes it.                                                      *)
LEMMA EnterSeats ==
    ASSUME TableOK, NEW sock \in Socks, NEW g \in Groups, NEW n \in Names,
           enter(sock, g, n)
    PROVE  /\ \A h \in Groups : \A j \in DOMAIN mems[h] :
                 \E k \in DOMAIN mems'[h] : mems'[h][k] = mems[h][j]
           /\ \E k \in DOMAIN mems'[g] : mems'[g][k] = [name |-> n, sock |-> sock]
<1>. DEFINE m == [name |-> n, sock |-> sock]
            t == <<m>> \o mems[g]
<1>1. /\ m \in Member /\ mems[g] \in Seq(Member) /\ Len(mems[g]) \in Nat
      /\ DOMAIN mems[g] = 1..Len(mems[g])
  BY LenProperties DEF TableOK, Member
<1>2. mems' = [mems EXCEPT ![g] = t]
  BY DEF enter
<1>. HIDE DEF m
<1>3. /\ DOMAIN t = 1..Len(mems[g]) + 1 /\ t[1] = m
      /\ \A j \in 2..Len(mems[g]) + 1 : t[j] = mems[g][j - 1]
  BY <1>1, InFront
<1>. HIDE DEF t
<1>4. mems'[g] = t /\ \A h \in Groups \ {g} : mems'[h] = mems[h]
  BY <1>2 DEF TableOK
<1>5. ASSUME NEW j \in DOMAIN mems[g] PROVE j + 1 \in DOMAIN t /\ t[j + 1] = mems[g][j]
  <2>1. j + 1 \in 2..Len(mems[g]) + 1 /\ j + 1 \in DOMAIN t /\ j + 1 - 1 = j
    BY <1>1, <1>3
  <2>. QED BY <1>3, <2>1
<1>6. ASSUME NEW h \in Groups, NEW j \in DOMAIN mems[h]
      PROVE  \E k \in DOMAIN mems'[h] : mems'[h][k] = mems[h][j]
  BY <1>4, <1>5
<1>7. 1 \in DOMAIN t BY <1>1, <1>3
<1>. QED BY <1>3, <1>4, <1>6, <1>7 DEF m

LEMMA LeaveSeats ==
    ASSUME TableOK, NEW sock, leavegroup(sock),
           NEW h \in Groups, NEW j \in DOMAIN mems[h], mems[h][j].sock # sock
    PROVE  \E k \in DOMAIN mems'[h] : mems'[h][k] = mems[h][j]
<1>1. CASE UNCHANGED groupVars BY <1>1 DEF groupVars
<1>2. ASSUME NEW g \in Groups, NEW i \in 1..Len(mems[g]),
             Leaves(g, i), mems[g][i].sock = sock
      PROVE  \E k \in DOMAIN mems'[h] : mems'[h][k] = mems[h][j]
  <2>. DEFINE t == Without(mems[g], i)
  <2>1. /\ mems[g] \in Seq(Member) /\ Len(mems[g]) \in Nat
        /\ DOMAIN mems[g] = 1..Len(mems[g])
    BY LenProperties DEF TableOK
  <2>2. /\ t \in Seq(Member) /\ Len(t) = Len(mems[g]) - 1
        /\ \A l \in 1..Len(mems[g]) - 1 : t[l] = mems[g][Kept(i, l)]
    BY <2>1, WithoutProperties
  <2>3. DOMAIN t = 1..Len(mems[g]) - 1 BY <2>2, LenProperties
  <2>4. mems' = [mems EXCEPT ![g] = t] BY <1>2 DEF Leaves
  <2>. HIDE DEF t
  <2>5. mems'[g] = t /\ \A k \in Groups \ {g} : mems'[k] = mems[k]
    BY <2>4 DEF TableOK
  <2>6. CASE h = g
    <3>. DEFINE l == IF j < i THEN j ELSE j - 1
    <3>1. j \in 1..Len(mems[g]) /\ j # i BY <1>2, <2>1, <2>6
    <3>2. l \in 1..Len(mems[g]) - 1 /\ Kept(i, l) = j BY <2>1, <3>1 DEF Kept
    <3>. HIDE DEF l
    <3>3. l \in DOMAIN t /\ t[l] = mems[g][j] BY <2>2, <2>3, <3>2
    <3>. QED BY <2>5, <2>6, <3>3
  <2>7. CASE h # g BY <2>5, <2>7
  <2>. QED BY <2>6, <2>7
<1>. QED BY <1>1, <1>2, OneLeaves

(* c is a member, of the group and by the name of x.                       *)
InRoom(c, x) ==
    \E g \in Groups : \E i \in DOMAIN mems[g] :
        x = <<g, mems[g][i].name>> /\ peer[mems[g][i].sock] = c

Seated == {c \in Clients : InRoom(c, room[c])}

Talks ==
    /\ room \in [Clients -> {<<>>} \cup (UserGroups \X UserNames)]
    /\ \A c \in Clients :
          /\ at[c] \in {"begin", "list", "prompt", "join", "chat"} => c \in open
          /\ Talking(at[c], toServer[c], toClient[c], room[c], c, Seated)

(* Members keep their seats when their connections and the table stay.     *)
LEMMA SeatsStay ==
    ASSUME UNCHANGED <<groupVars, peer, room>>
    PROVE  Seated' = Seated
BY DEF groupVars, Seated, InRoom

LEMMA SeatKept ==
    ASSUME NEW c \in Seated, room' = room,
           \A h \in Groups : \A j \in DOMAIN mems[h] :
              peer[mems[h][j].sock] = c =>
                 /\ peer'[mems[h][j].sock] = c
                 /\ \E k \in DOMAIN mems'[h] : mems'[h][k] = mems[h][j]
    PROVE  c \in Seated'
<1>1. PICK g \in Groups : \E i \in DOMAIN mems[g] :
          room[c] = <<g, mems[g][i].name>> /\ peer[mems[g][i].sock] = c
  BY DEF Seated, InRoom
<1>2. PICK i \in DOMAIN mems[g] :
          room[c] = <<g, mems[g][i].name>> /\ peer[mems[g][i].sock] = c
  BY <1>1
<1>3. PICK k \in DOMAIN mems'[g] : mems'[g][k] = mems[g][i] BY <1>2
<1>4. /\ room'[c] = <<g, mems'[g][k].name>> /\ peer'[mems'[g][k].sock] = c
      /\ c \in Clients
  BY <1>2, <1>3 DEF Seated
<1>. QED BY <1>4 DEF Seated, InRoom

(* A step of the server, client by client.                                 *)
LEMMA ServerTalks ==
    ASSUME Talks, UNCHANGED clientVars, open' = open,
           \A c \in Clients : Talking(at[c], toServer'[c], toClient'[c], room[c], c, Seated')
    PROVE  Talks'
BY DEF Talks, clientVars

LEMMA TalksOf ==
    ASSUME RoomInv, Talks, NEW c \in Clients
    PROVE  /\ Talking(at[c], toServer[c], toClient[c], room[c], c, Seated)
           /\ Orderly(at[c], toServer[c], toClient[c], c, Enrolled)
           /\ toServer[c] \in Seq(Requests) /\ toClient[c] \in Seq(Replies)
           /\ at[c] \in Places
BY DEF RoomInv, Packets, Talks

LEMMA ListTalked ==
    ASSUME RoomInv, Talks, NEW sock \in Socks, ServeList(sock), UNCHANGED clientVars
    PROVE  Talks'
<1>. DEFINE p == [type |-> "LIST_GROUPS"]
            c == peer[sock]
<1>1. Connections /\ OnePlace /\ Scanning /\ Packets BY DEF RoomInv
<1>2. /\ Receive(sock, "LIST_GROUPS") /\ sendpkts(<<peer[sock]>>, p)
      /\ UNCHANGED groupVars /\ UNCHANGED <<at, room>>
  BY DEF ServeList, clientVars
<1>3. p \in Replies /\ p.type = "LIST_GROUPS" BY PacketTypes
<1>. HIDE DEF p
<1>4. /\ c \in Clients /\ toServer[c] \in Seq(Requests) /\ toServer[c] # <<>>
      /\ Head(toServer[c]).type = "LIST_GROUPS"
      /\ toServer'[c] = Tail(toServer[c])
      /\ \A d \in Clients : d # c => toServer'[d] = toServer[d]
      /\ UNCHANGED peer
  BY <1>1, <1>2, Received
<1>5. open' = open BY <1>2 DEF Receive
<1>6. /\ \A d \in Clients : toClient'[d] \in {toClient[d], Append(toClient[d], p)}
      /\ \A d \in Clients : d # c => toClient'[d] = toClient[d]
  BY <1>1, <1>2, <1>3, Sent, SentToOne
<1>7. Seated' = Seated BY <1>2, <1>4, SeatsStay
<1>8. ASSUME NEW d \in Clients
      PROVE  Talking(at[d], toServer'[d], toClient'[d], room[d], d, Seated)
  <2>1. /\ Talking(at[d], toServer[d], toClient[d], room[d], d, Seated)
        /\ toClient[d] \in Seq(Replies) /\ at[d] \in Places
    BY TalksOf
  <2>2. CASE d = c
    <3>1. "LIST_GROUPS" # "JOIN_GROUP" OBVIOUS
    <3>2. Talking(at[c], Tail(toServer[c]), toClient[c], room[c], c, Seated)
      BY <1>4, <2>1, <2>2, <3>1, TalkServed
    <3>3. Talking(at[c], Tail(toServer[c]), Append(toClient[c], p), room[c], c, Seated)
      BY <1>3, <1>4, <2>1, <2>2, TalkListed
    <3>. QED BY <1>4, <1>6, <2>2, <3>2, <3>3
  <2>3. CASE d # c BY <1>4, <1>6, <2>1, <2>3
  <2>. QED BY <2>2, <2>3
<1>. QED BY <1>5, <1>7, <1>8, ServerTalks

LEMMA JoinTalked ==
    ASSUME RoomInv, Talks, NEW sock \in Socks, ServeJoin(sock), UNCHANGED clientVars
    PROVE  Talks'
<1>. DEFINE c   == peer[sock]
            pkt == Head(toServer[c])
            yes == [type |-> "JOIN_ACCEPTED"]
            no  == [type |-> "JOIN_REJECTED"]
<1>1. Connections /\ OnePlace /\ Scanning /\ Packets /\ TableOK
  BY DEF RoomInv, GroupsInv
<1>2. Receive(sock, "JOIN_GROUP") /\ room' = room
  BY DEF ServeJoin, clientVars
<1>3. /\ c \in Clients /\ toServer[c] \in Seq(Requests) /\ toServer[c] # <<>>
      /\ pkt.type = "JOIN_GROUP"
      /\ toServer'[c] = Tail(toServer[c])
      /\ \A d \in Clients : d # c => toServer'[d] = toServer[d]
      /\ UNCHANGED peer
  BY <1>1, <1>2, Received
<1>4. open' = open BY <1>2 DEF Receive
<1>5. ASSUME NEW p \in Replies, p.type \in {"JOIN_ACCEPTED", "JOIN_REJECTED"},
             sendpkts(<<c>>, p),
             \A d \in Seated : d \in Seated',
             p.type = "JOIN_ACCEPTED" /\ room[c] = <<pkt.group, pkt.name>> => c \in Seated'
      PROVE  Talks'
  <2>1. /\ \A d \in Clients : toClient'[d] \in {toClient[d], Append(toClient[d], p)}
        /\ \A d \in Clients : d # c => toClient'[d] = toClient[d]
    BY <1>1, <1>5, Sent, SentToOne
  <2>2. ASSUME NEW d \in Clients
        PROVE  Talking(at[d], toServer'[d], toClient'[d], room[d], d, Seated')
    <3>1. /\ Talking(at[d], toServer[d], toClient[d], room[d], d, Seated)
          /\ Orderly(at[d], toServer[d], toClient[d], d, Enrolled)
          /\ toClient[d] \in Seq(Replies) /\ at[d] \in Places
      BY TalksOf
    <3>2. CASE d = c
      <4>1. /\ Talking(at[c], Tail(toServer[c]), toClient[c], room[c], c, Seated')
            /\ Talking(at[c], Tail(toServer[c]), Append(toClient[c], p), room[c], c, Seated')
        BY <1>3, <1>5, <3>1, <3>2, TalkAnswered
      <4>. QED BY <1>3, <2>1, <3>2, <4>1
    <3>3. CASE d # c
      <4>1. Talking(at[d], toServer[d], toClient[d], room[d], d, Seated')
        BY <1>5, <3>1, TalkGoesOn
      <4>. QED BY <1>3, <2>1, <3>3, <4>1
    <3>. QED BY <3>2, <3>3
  <2>. QED BY <1>4, <2>2, ServerTalks
<1>6. /\ yes \in Replies /\ yes.type \in {"JOIN_ACCEPTED", "JOIN_REJECTED"}
      /\ no \in Replies /\ no.type \in {"JOIN_ACCEPTED", "JOIN_REJECTED"}
      /\ no.type # "JOIN_ACCEPTED"
  BY PacketTypes
<1>7. CASE admits(pkt.group, pkt.name)
  <2>1. enter(sock, pkt.group, pkt.name) /\ sendpkts(<<c>>, yes)
    BY <1>7 DEF ServeJoin
  <2>2. pkt \in Requests BY <1>3, TailOf
  <2>. HIDE DEF yes, pkt
  <2>3. pkt.name \in Names /\ pkt.group \in Groups
    BY <1>3, <1>7, <2>2, JoinRequest, RoomAssumption DEF admits
  <2>4. /\ \A h \in Groups : \A j \in DOMAIN mems[h] :
             \E k \in DOMAIN mems'[h] : mems'[h][k] = mems[h][j]
        /\ \E k \in DOMAIN mems'[pkt.group] :
             mems'[pkt.group][k] = [name |-> pkt.name, sock |-> sock]
    BY <1>1, <2>1, <2>3, EnterSeats
  <2>5. \A d \in Seated : d \in Seated' BY <1>2, <1>3, <2>4, SeatKept
  <2>6. ASSUME room[c] = <<pkt.group, pkt.name>> PROVE c \in Seated'
    <3>1. PICK k \in DOMAIN mems'[pkt.group] :
             mems'[pkt.group][k] = [name |-> pkt.name, sock |-> sock]
      BY <2>4
    <3>2. mems'[pkt.group][k].name = pkt.name /\ mems'[pkt.group][k].sock = sock
      BY <3>1
    <3>3. /\ room'[c] = <<pkt.group, mems'[pkt.group][k].name>>
          /\ peer'[mems'[pkt.group][k].sock] = c
      BY <1>2, <1>3, <2>6, <3>2
    <3>. QED BY <1>3, <2>3, <3>3 DEF Seated, InRoom
  <2>. QED BY <1>5, <1>6, <2>1, <2>5, <2>6
<1>8. CASE ~admits(pkt.group, pkt.name)
  <2>1. UNCHANGED groupVars /\ sendpkts(<<c>>, no) BY <1>8 DEF ServeJoin
  <2>2. Seated' = Seated BY <1>2, <1>3, <2>1, SeatsStay
  <2>. HIDE DEF no
  <2>. QED BY <1>5, <1>6, <2>1, <2>2
<1>. QED BY <1>7, <1>8

(* Another client's seat when sock's member leaves.                        *)
LEMMA OthersSit ==
    ASSUME RoomInv, NEW sock \in Socks, leavegroup(sock), room' = room,
           NEW c \in Seated, c # peer[sock],
           \A s \in Socks : s # sock => peer'[s] = peer[s]
    PROVE  c \in Seated'
<1>1. TableOK /\ Connections BY DEF RoomInv, GroupsInv
<1>2. ASSUME NEW h \in Groups, NEW j \in DOMAIN mems[h], peer[mems[h][j].sock] = c
      PROVE  /\ peer'[mems[h][j].sock] = c
             /\ \E k \in DOMAIN mems'[h] : mems'[h][k] = mems[h][j]
  <2>1. mems[h][j].sock # sock BY <1>2
  <2>2. mems[h][j].sock \in Live BY <1>1 DEF Connections, InGroup
  <2>3. mems[h][j].sock \in Socks BY <1>1, <2>2 DEF Connections, Live
  <2>4. \E k \in DOMAIN mems'[h] : mems'[h][k] = mems[h][j] BY <1>1, <2>1, LeaveSeats
  <2>. QED BY <1>2, <2>1, <2>3, <2>4
<1>. QED BY <1>2, SeatKept

LEMMA LeaveTalked ==
    ASSUME RoomInv, Talks, NEW sock \in Socks, ServeLeave(sock), UNCHANGED clientVars
    PROVE  Talks'
<1>. DEFINE c == peer[sock]
<1>1. Connections /\ OnePlace /\ Scanning /\ Packets BY DEF RoomInv
<1>2. /\ Receive(sock, "LEAVE_GROUP") /\ leavegroup(sock)
      /\ toClient' = toClient /\ room' = room
  BY DEF ServeLeave, clientVars
<1>3. /\ c \in Clients /\ toServer[c] \in Seq(Requests) /\ toServer[c] # <<>>
      /\ Head(toServer[c]).type = "LEAVE_GROUP"
      /\ toServer'[c] = Tail(toServer[c])
      /\ \A d \in Clients : d # c => toServer'[d] = toServer[d]
      /\ peer' = peer
  BY <1>1, <1>2, Received
<1>4. open' = open BY <1>2 DEF Receive
<1>5. \A d \in Seated : d # c => d \in Seated' BY <1>2, <1>3, OthersSit
<1>6. ASSUME NEW d \in Clients
      PROVE  Talking(at[d], toServer'[d], toClient[d], room[d], d, Seated')
  <2>1. /\ Talking(at[d], toServer[d], toClient[d], room[d], d, Seated)
        /\ Orderly(at[d], toServer[d], toClient[d], d, Enrolled)
    BY TalksOf
  <2>2. CASE d = c
    <3>1. Talking(at[c], Tail(toServer[c]), toClient[c], room[c], c, Seated')
      BY <1>3, <2>1, <2>2, TalkLeft
    <3>. QED BY <1>3, <2>2, <3>1
  <2>3. CASE d # c
    <3>1. Talking(at[d], toServer[d], toClient[d], room[d], d, Seated')
      BY <1>5, <2>1, <2>3, TalkGoesOn
    <3>. QED BY <1>3, <2>3, <3>1
  <2>. QED BY <2>2, <2>3
<1>. QED BY <1>2, <1>4, <1>6, ServerTalks

(* The sockets a text is relayed through are those of one group, the       *)
(* sender's, and a client sits in no other.                                *)
LEMMA HearsOwnGroup ==
    ASSUME RoomInv, NEW sock, NEW i \in DOMAIN recipients(sock),
           NEW c \in Seated, peer[recipients(sock)[i]] = c
    PROVE  findmemberbysock(sock) = {room[c][1]}
<1>. DEFINE fm == findmemberbysock(sock)
            g  == Lowest(fm)
            s  == recipients(sock)[i]
<1>1. TableOK /\ SocksUnique /\ Connections /\ OnePlace BY DEF RoomInv, GroupsInv
<1>2. fm # {} /\ s = mems[g][i].sock /\ i \in DOMAIN mems[g]
  <2>1. fm # {}
    <3>1. SUFFICES ASSUME fm = {} PROVE FALSE
      OBVIOUS
    <3>2. recipients(sock) = <<>> BY <3>1 DEF recipients
    <3>3. DOMAIN <<>> = {} OBVIOUS
    <3>. QED BY <3>2, <3>3
  <2>2. recipients(sock) = [k \in DOMAIN mems[g] |-> mems[g][k].sock]
    BY <2>1 DEF recipients
  <2>. QED BY <2>1, <2>2
<1>3. fm \subseteq Nat /\ fm \subseteq Groups
  BY GroupsAssumption DEF findmemberbysock, Groups
<1>4. g \in fm BY <1>2, <1>3, LowestIsOne
<1>. HIDE DEF g, fm, s
<1>5. g \in Groups BY <1>3, <1>4
<1>6. PICK h \in Groups : \E k \in DOMAIN mems[h] :
          room[c] = <<h, mems[h][k].name>> /\ peer[mems[h][k].sock] = c
  BY DEF Seated, InRoom
<1>7. PICK k \in DOMAIN mems[h] :
          room[c] = <<h, mems[h][k].name>> /\ peer[mems[h][k].sock] = c
  BY <1>6
<1>8. mems[h][k].sock \in Live /\ s \in Live
  BY <1>1, <1>2, <1>5 DEF Connections, InGroup
<1>9. peer[s] = c BY DEF s
<1>10. mems[h][k].sock = mems[g][i].sock BY <1>1, <1>2, <1>7, <1>8, <1>9 DEF OnePlace
<1>11. h = g BY <1>1, <1>2, <1>5, <1>10 DEF SocksUnique
<1>12. room[c][1] = g BY <1>7, <1>11
<1>13. ASSUME NEW f \in fm PROVE f = g
  <2>1. f \in Groups /\ \E a \in DOMAIN mems[f] : mems[f][a].sock = sock
    BY <1>3 DEF findmemberbysock, Positions, fm
  <2>2. \E b \in DOMAIN mems[g] : mems[g][b].sock = sock
    BY <1>4 DEF findmemberbysock, Positions, fm
  <2>. QED BY <1>1, <1>5, <2>1, <2>2 DEF SocksUnique
<1>14. fm = {g} BY <1>4, <1>13
<1>. QED BY <1>12, <1>14 DEF fm

LEMMA RecipientsSeq ==
    ASSUME TableOK, NEW sock
    PROVE  recipients(sock) \in Seq(Socks)
<1>. DEFINE fm == findmemberbysock(sock)
            g  == Lowest(fm)
<1>1. CASE fm = {} BY <1>1, EmptySeq DEF recipients
<1>2. CASE fm # {}
  <2>1. fm \subseteq Nat /\ fm \subseteq Groups
    BY GroupsAssumption DEF findmemberbysock, Groups
  <2>2. g \in Groups BY <1>2, <2>1, LowestIsOne
  <2>3. recipients(sock) = [k \in DOMAIN mems[g] |-> mems[g][k].sock]
    BY <1>2 DEF recipients
  <2>. HIDE DEF g
  <2>4. /\ mems[g] \in Seq(Member) /\ Len(mems[g]) \in Nat
        /\ DOMAIN mems[g] = 1..Len(mems[g])
    BY <2>2, LenProperties DEF TableOK
  <2>5. \A k \in 1..Len(mems[g]) : mems[g][k] \in Member BY <2>4, ElementOfSeq
  <2>6. \A m \in Member : m.sock \in Socks BY DEF Member
  <2>7. \A k \in 1..Len(mems[g]) : mems[g][k].sock \in Socks BY <2>5, <2>6
  <2>. QED BY <2>3, <2>4, <2>7
<1>. QED BY <1>1, <1>2

LEMMA TextTalked ==
    ASSUME RoomInv, Talks, NEW sock \in Socks, ServeText(sock), UNCHANGED clientVars
    PROVE  Talks'
<1>. DEFINE p  == [type |-> "USER_TEXT", groups |-> findmemberbysock(sock)]
            c  == peer[sock]
            to == recipients(sock)
            cs == [i \in DOMAIN to |-> IF to[i] = sock THEN NoClient ELSE peer[to[i]]]
<1>1. Connections /\ OnePlace /\ Scanning /\ Packets BY DEF RoomInv
<1>2. /\ Receive(sock, "USER_TEXT") /\ UNCHANGED groupVars /\ room' = room
      /\ sendpkts(cs, p)
  BY DEF ServeText, clientVars
<1>3. p \in Replies /\ p.type = "USER_TEXT" /\ p.groups = findmemberbysock(sock)
  BY PacketTypes
<1>. HIDE DEF p
<1>4. /\ c \in Clients /\ toServer[c] \in Seq(Requests) /\ toServer[c] # <<>>
      /\ Head(toServer[c]).type = "USER_TEXT"
      /\ toServer'[c] = Tail(toServer[c])
      /\ \A d \in Clients : d # c => toServer'[d] = toServer[d]
      /\ UNCHANGED peer
  BY <1>1, <1>2, Received
<1>5. open' = open BY <1>2 DEF Receive
<1>6. Seated' = Seated BY <1>2, <1>4, SeatsStay
<1>7. ASSUME NEW d \in Clients, toClient'[d] # toClient[d], d \in Seated
      PROVE  p.groups = {room[d][1]}
  <2>1. PICK k \in 0..Len(cs) : toClient' = [e \in Clients |->
                                   IF \E i \in 1..k : cs[i] = e
                                   THEN Append(toClient[e], p) ELSE toClient[e]]
    BY <1>2 DEF sendpkts
  <2>2. PICK i \in 1..k : cs[i] = d BY <1>7, <2>1
  <2>3. i \in DOMAIN to
    <3>1. to \in Seq(Socks) BY <1>1, RecipientsSeq DEF RoomInv, GroupsInv
    <3>. HIDE DEF to
    <3>2. DOMAIN to = 1..Len(to) /\ Len(to) \in Nat BY <3>1, LenProperties
    <3>3. /\ \A j \in 1..Len(to) : to[j] \in Socks /\ peer[to[j]] \in Clients \cup {NoClient}
          /\ cs = [j \in 1..Len(to) |-> IF to[j] = sock THEN NoClient ELSE peer[to[j]]]
      BY <1>1, <3>1, <3>2, ElementOfSeq DEF Connections
    <3>4. cs \in Seq(Clients \cup {NoClient}) /\ DOMAIN cs = 1..Len(to) BY <3>2, <3>3
    <3>5. Len(cs) = Len(to) BY <3>2, <3>4, LenProperties
    <3>. QED BY <2>1, <2>2, <3>2, <3>5
  <2>4. peer[to[i]] = d BY <2>2, <2>3, ServerAssumption
  <2>. QED BY <1>3, <1>7, <2>3, <2>4, HearsOwnGroup
<1>8. ASSUME NEW d \in Clients
      PROVE  Talking(at[d], toServer'[d], toClient'[d], room[d], d, Seated)
  <2>1. /\ Talking(at[d], toServer[d], toClient[d], room[d], d, Seated)
        /\ toClient[d] \in Seq(Replies) /\ at[d] \in Places
    BY TalksOf
  <2>2. Talking(at[d], toServer'[d], toClient[d], room[d], d, Seated)
    <3>1. CASE d = c
      <4>1. "USER_TEXT" # "JOIN_GROUP" OBVIOUS
      <4>2. Talking(at[c], Tail(toServer[c]), toClient[c], room[c], c, Seated)
        BY <1>4, <2>1, <3>1, <4>1, TalkServed
      <4>. QED BY <1>4, <3>1, <4>2
    <3>2. CASE d # c BY <1>4, <2>1, <3>2
    <3>. QED BY <3>1, <3>2
  <2>3. CASE toClient'[d] = toClient[d] BY <2>2, <2>3
  <2>4. CASE toClient'[d] # toClient[d]
    <3>1. toClient'[d] = Append(toClient[d], p) BY <1>1, <1>2, <1>3, <2>4, Sent
    <3>2. d \in Seated => p.groups = {room[d][1]} BY <1>7, <2>4
    <3>3. Talking(at[d], toServer'[d], Append(toClient[d], p), room[d], d, Seated)
      BY <1>3, <2>1, <2>2, <3>2, TalkHeard
    <3>. QED BY <3>1, <3>3
  <2>. QED BY <2>3, <2>4
<1>. QED BY <1>5, <1>6, <1>8, ServerTalks

LEMMA DisconnectTalked ==
    ASSUME RoomInv, Talks, NEW sock \in Socks, Disconnect(sock), UNCHANGED clientVars
    PROVE  Talks'
<1>. DEFINE c == peer[sock]
<1>1. Connections /\ OnePlace /\ Packets BY DEF RoomInv
<1>2. /\ Scan(sock) /\ Closed(peer[sock]) /\ leavegroup(sock)
      /\ peer' = [peer EXCEPT ![sock] = NoClient]
      /\ open' = open /\ toServer' = toServer /\ toClient' = toClient /\ room' = room
  BY DEF Disconnect, linkVars, clientVars
<1>3. sock \in Live /\ c \in Clients BY <1>1, <1>2, ScannedSock
<1>4. at[c] \in {"gone", "confused"}
  <2>1. c \notin open BY <1>2 DEF Closed
  <2>2. at[c] \notin {"begin", "list", "prompt", "join", "chat"} BY <1>3, <2>1 DEF Talks
  <2>3. at[c] # "off" BY <1>1, <1>3 DEF OnePlace
  <2>4. at[c] \in Places BY <1>1, <1>3 DEF Packets
  <2>. QED BY <2>2, <2>3, <2>4 DEF Places
<1>5. \A s \in Socks : s # sock => peer'[s] = peer[s] BY <1>1, <1>2 DEF Connections
<1>6. \A d \in Seated : d # c => d \in Seated' BY <1>2, <1>5, OthersSit
<1>7. ASSUME NEW d \in Clients
      PROVE  Talking(at[d], toServer[d], toClient[d], room[d], d, Seated')
  <2>1. CASE d = c BY <1>4, <2>1, TalkOver
  <2>2. CASE d # c
    <3>1. Talking(at[d], toServer[d], toClient[d], room[d], d, Seated) BY TalksOf
    <3>. QED BY <1>6, <2>2, <3>1, TalkGoesOn
  <2>. QED BY <2>1, <2>2
<1>. QED BY <1>2, <1>7, ServerTalks

LEMMA NothingSaid ==
    ASSUME Talks, UNCHANGED clientVars, UNCHANGED <<open, toServer, toClient>>,
           \A c \in Seated : c \in Seated'
    PROVE  Talks'
<1>1. ASSUME NEW c \in Clients
      PROVE  Talking(at[c], toServer[c], toClient[c], room[c], c, Seated')
  <2>1. Talking(at[c], toServer[c], toClient[c], room[c], c, Seated) BY DEF Talks
  <2>. QED BY <2>1, TalkGoesOn
<1>. QED BY <1>1, ServerTalks

LEMMA AcceptTalked ==
    ASSUME RoomInv, Talks, Accept, UNCHANGED clientVars
    PROVE  Talks'
<1>. DEFINE free == Socks \ livesdset
            new  == Lowest(free)
<1>1. Connections BY DEF RoomInv
<1>2. /\ UNCHANGED groupVars /\ UNCHANGED <<open, toServer, toClient>> /\ room' = room
      /\ mems' = mems
  BY DEF Accept, clientVars, groupVars
<1>3. CASE UNCHANGED peer
  <2>1. Seated' = Seated BY <1>2, <1>3, SeatsStay
  <2>. QED BY <1>2, <2>1, NothingSaid
<1>4. CASE free # {} /\ peer' = [peer EXCEPT ![new] = Head(backlog)]
  <2>1. new \in Socks \ livesdset
    <3>1. free \subseteq Nat BY GroupsAssumption
    <3>. QED BY <1>4, <3>1, LowestIsOne
  <2>. HIDE DEF new, free
  <2>2. \A s \in Live : peer'[s] = peer[s] BY <1>1, <1>4, <2>1 DEF Live, Connections
  <2>3. \A h \in Groups : \A j \in DOMAIN mems[h] : peer'[mems[h][j].sock] = peer[mems[h][j].sock]
    BY <1>1, <2>2 DEF Connections, InGroup
  <2>4. \A c \in Seated : c \in Seated' BY <1>2, <2>3, SeatKept
  <2>. QED BY <1>2, <2>4, NothingSaid
<1>. QED BY <1>3, <1>4 DEF Accept

-----------------------------------------------------------------------------
(* The steps of the clients.                                               *)
LEMMA ClientTalks ==
    ASSUME RoomInv, Talks, NEW c \in Clients, UNCHANGED <<groupVars, serverVars>>,
           NEW l \in Places, Become(c, l), open' \subseteq open,
           \A d \in open : d # c => d \in open',
           l \in {"begin", "list", "prompt", "join", "chat"} => c \in open',
           NEW q, toServer' = [toServer EXCEPT ![c] = q],
           NEW r, toClient' = [toClient EXCEPT ![c] = r],
           NEW x \in {<<>>} \cup (UserGroups \X UserNames), room' = [room EXCEPT ![c] = x],
           \A F : (x = room[c] /\ c \in Seated => c \in F) => Talking(l, q, r, x, c, F)
    PROVE  Talks'
<1>1. /\ at' = [at EXCEPT ![c] = l] /\ at \in [Clients -> Places]
      /\ toServer \in [Clients -> Seq(Requests)] /\ toClient \in [Clients -> Seq(Replies)]
  BY DEF RoomInv, Packets, Become
<1>2. room \in [Clients -> {<<>>} \cup (UserGroups \X UserNames)] BY DEF Talks
<1>3. room' \in [Clients -> {<<>>} \cup (UserGroups \X UserNames)] BY <1>2
<1>4. mems' = mems /\ peer' = peer BY DEF groupVars, serverVars
<1>5. ASSUME NEW d \in Seated, room'[d] = room[d] PROVE d \in Seated'
  BY <1>4, <1>5 DEF Seated, InRoom
<1>6. ASSUME NEW d \in Clients
      PROVE  /\ at'[d] \in {"begin", "list", "prompt", "join", "chat"} => d \in open'
             /\ Talking(at'[d], toServer'[d], toClient'[d], room'[d], d, Seated')
  <2>1. CASE d = c
    <3>1. at'[c] = l /\ toServer'[c] = q /\ toClient'[c] = r /\ room'[c] = x BY <1>1, <1>2
    <3>2. x = room[c] /\ c \in Seated => c \in Seated' BY <1>5, <3>1
    <3>3. Talking(l, q, r, x, c, Seated') BY <3>2
    <3>. QED BY <2>1, <3>1, <3>3
  <2>2. CASE d # c
    <3>1. /\ at'[d] = at[d] /\ toServer'[d] = toServer[d] /\ toClient'[d] = toClient[d]
          /\ room'[d] = room[d]
      BY <1>1, <1>2, <2>2
    <3>2. Talking(at[d], toServer[d], toClient[d], room[d], d, Seated) BY TalksOf
    <3>3. d \in Seated => d \in Seated' BY <1>5, <3>1
    <3>4. Talking(at[d], toServer[d], toClient[d], room[d], d, Seated')
      BY <3>2, <3>3, TalkGoesOn
    <3>5. at[d] \in {"begin", "list", "prompt", "join", "chat"} => d \in open BY DEF Talks
    <3>. QED BY <2>2, <3>1, <3>4, <3>5
  <2>. QED BY <2>1, <2>2
<1>. QED BY <1>3, <1>6 DEF Talks

(* The client says p and goes on at l.                                     *)
LEMMA SaysTalked ==
    ASSUME RoomInv, Talks, NEW c \in Clients, UNCHANGED <<groupVars, serverVars>>,
           NEW l \in Places, Become(c, l), UNCHANGED <<open, toClient>>,
           at[c] \in {"begin", "list", "prompt", "join", "chat"},
           NEW p, sendpkt(c, p),
           NEW x \in {<<>>} \cup (UserGroups \X UserNames), room' = [room EXCEPT ![c] = x],
           \A F : (x = room[c] /\ c \in Seated => c \in F)
                    => Talking(l, Append(toServer[c], p), toClient[c], x, c, F)
    PROVE  Talks'
<1>1. c \in open BY DEF Talks
<1>2. /\ toServer' = [toServer EXCEPT ![c] = Append(toServer[c], p)]
      /\ toClient' = [toClient EXCEPT ![c] = toClient[c]]
  BY ClientNow DEF sendpkt
<1>3. /\ open' \subseteq open /\ \A d \in open : d # c => d \in open'
      /\ l \in {"begin", "list", "prompt", "join", "chat"} => c \in open'
  BY <1>1
<1>. QED BY <1>2, <1>3, ClientTalks

(* The room a client asked for last, when it asks for no other.            *)
LEMMA SameRoom ==
    ASSUME Talks, NEW c \in Clients, room' = room
    PROVE  /\ room[c] \in {<<>>} \cup (UserGroups \X UserNames)
           /\ room' = [room EXCEPT ![c] = room[c]]
BY DEF Talks

LEMMA ListRequestTalked ==
    ASSUME RoomInv, Talks, NEW c \in Clients, UNCHANGED <<groupVars, serverVars>>,
           RequestList(c)
    PROVE  Talks'
<1>. DEFINE p == [type |-> "LIST_GROUPS"]
<1>1. /\ at[c] = "begin" /\ sendpkt(c, p) /\ Become(c, "list")
      /\ UNCHANGED <<open, toClient>> /\ room' = room
  BY DEF RequestList
<1>2. p \in Requests /\ p.type = "LIST_GROUPS" BY PacketTypes
<1>. HIDE DEF p
<1>3. /\ Talking("begin", toServer[c], toClient[c], room[c], c, Seated)
      /\ toServer[c] \in Seq(Requests)
  BY <1>1, TalksOf
<1>4. ASSUME NEW F, c \in Seated => c \in F
      PROVE  Talking("list", Append(toServer[c], p), toClient[c], room[c], c, F)
  <2>1. Talking("begin", toServer[c], toClient[c], room[c], c, F)
    BY <1>3, <1>4, TalkGoesOn
  <2>. QED BY <1>2, <1>3, <2>1, TalkAsksList
<1>5. "list" \in Places BY DEF Places
<1>6. /\ room[c] \in {<<>>} \cup (UserGroups \X UserNames)
      /\ room' = [room EXCEPT ![c] = room[c]]
  BY <1>1, SameRoom
<1>. QED BY <1>1, <1>4, <1>5, <1>6, SaysTalked

LEMMA JoinRequestTalked ==
    ASSUME RoomInv, Talks, NEW c \in Clients, UNCHANGED <<groupVars, serverVars>>,
           NEW g \in UserGroups, NEW n \in UserNames, Join(c, g, n)
    PROVE  Talks'
<1>. DEFINE p == [type |-> "JOIN_GROUP", group |-> g, name |-> n]
<1>1. /\ at[c] = "prompt" /\ sendpkt(c, p) /\ Become(c, "join")
      /\ UNCHANGED <<open, toClient>> /\ room' = [room EXCEPT ![c] = <<g, n>>]
  BY DEF Join
<1>2. p \in Requests /\ p.type = "JOIN_GROUP" /\ <<p.group, p.name>> = <<g, n>>
  BY PacketTypes
<1>. HIDE DEF p
<1>3. /\ Talking("prompt", toServer[c], toClient[c], room[c], c, Seated)
      /\ Orderly("prompt", toServer[c], toClient[c], c, Enrolled)
      /\ toServer[c] \in Seq(Requests)
  BY <1>1, TalksOf
<1>4. ASSUME NEW F
      PROVE  Talking("join", Append(toServer[c], p), toClient[c], <<g, n>>, c, F)
  <2>1. Talking("join", Append(toServer[c], p), toClient[c], <<p.group, p.name>>, c, F)
    BY <1>2, <1>3, TalkAsksJoin
  <2>. QED BY <1>2, <2>1
<1>5. "join" \in Places BY DEF Places
<1>6. <<g, n>> \in {<<>>} \cup (UserGroups \X UserNames) OBVIOUS
<1>. QED BY <1>1, <1>4, <1>5, <1>6, SaysTalked

LEMMA TextTypedTalked ==
    ASSUME RoomInv, Talks, NEW c \in Clients, UNCHANGED <<groupVars, serverVars>>,
           TypeText(c)
    PROVE  Talks'
<1>. DEFINE p == [type |-> "USER_TEXT"]
<1>1. /\ at[c] = "chat" /\ sendpkt(c, p) /\ UNCHANGED <<open, toClient>>
      /\ at' = at /\ room' = room
  BY DEF TypeText
<1>2. p \in Requests /\ p.type = "USER_TEXT" BY PacketTypes
<1>. HIDE DEF p
<1>3. /\ Talking("chat", toServer[c], toClient[c], room[c], c, Seated)
      /\ toServer[c] \in Seq(Requests)
  BY <1>1, TalksOf
<1>4. ASSUME NEW F, c \in Seated => c \in F
      PROVE  Talking("chat", Append(toServer[c], p), toClient[c], room[c], c, F)
  <2>1. Talking("chat", toServer[c], toClient[c], room[c], c, F)
    BY <1>3, <1>4, TalkGoesOn
  <2>. QED BY <1>2, <1>3, <2>1, TalkSays
<1>5. "chat" \in Places BY DEF Places
<1>6. Become(c, "chat") BY <1>1, ClientNow DEF Become
<1>7. /\ room[c] \in {<<>>} \cup (UserGroups \X UserNames)
      /\ room' = [room EXCEPT ![c] = room[c]]
  BY <1>1, SameRoom
<1>. QED BY <1>1, <1>4, <1>5, <1>6, <1>7, SaysTalked

LEMMA EndTypedTalked ==
    ASSUME RoomInv, Talks, NEW c \in Clients, UNCHANGED <<groupVars, serverVars>>,
           TypeEnd(c)
    PROVE  Talks'
<1>. DEFINE p == [type |-> "LEAVE_GROUP"]
<1>1. /\ at[c] = "chat" /\ sendpkt(c, p) /\ Become(c, "begin")
      /\ UNCHANGED <<open, toClient>> /\ room' = room
  BY DEF TypeEnd
<1>2. p \in Requests /\ p.type = "LEAVE_GROUP" BY PacketTypes
<1>. HIDE DEF p
<1>3. /\ Talking("chat", toServer[c], toClient[c], room[c], c, Seated)
      /\ toServer[c] \in Seq(Requests)
  BY <1>1, TalksOf
<1>4. ASSUME NEW F, c \in Seated => c \in F
      PROVE  Talking("begin", Append(toServer[c], p), toClient[c], room[c], c, F)
  <2>1. Talking("chat", toServer[c], toClient[c], room[c], c, F)
    BY <1>3, <1>4, TalkGoesOn
  <2>. QED BY <1>2, <1>3, <2>1, TalkLeaves
<1>5. "begin" \in Places BY DEF Places
<1>6. /\ room[c] \in {<<>>} \cup (UserGroups \X UserNames)
      /\ room' = [room EXCEPT ![c] = room[c]]
  BY <1>1, SameRoom
<1>. QED BY <1>1, <1>4, <1>5, <1>6, SaysTalked

LEMMA ExitTalked ==
    ASSUME RoomInv, Talks, NEW c \in Clients, UNCHANGED <<groupVars, serverVars>>,
           Exit(c, "gone"), UNCHANGED <<toServer, toClient, room>>
    PROVE  Talks'
<1>1. /\ toServer' = [toServer EXCEPT ![c] = toServer[c]]
      /\ toClient' = [toClient EXCEPT ![c] = toClient[c]]
  BY ClientNow
<1>2. /\ "gone" \in Places /\ "gone" \in {"gone", "confused"}
      /\ "gone" \notin {"begin", "list", "prompt", "join", "chat"}
  BY DEF Places
<1>3. /\ Become(c, "gone") /\ open' \subseteq open
      /\ \A d \in open : d # c => d \in open'
  BY DEF Exit
<1>4. /\ room[c] \in {<<>>} \cup (UserGroups \X UserNames)
      /\ room' = [room EXCEPT ![c] = room[c]]
  BY SameRoom
<1>5. \A F : Talking("gone", toServer[c], toClient[c], room[c], c, F) BY <1>2, TalkOver
<1>. QED BY <1>1, <1>2, <1>3, <1>4, <1>5, ClientTalks

LEMMA ReadTalked ==
    ASSUME RoomInv, Talks, NEW c \in Clients, UNCHANGED <<groupVars, serverVars>>,
           NEW l \in {"list", "chat", "join"}, NEW T,
           NEW m \in {"prompt", "chat", "begin"}, Read(c, l, T, m),
           Head(toClient[c]).type \in T =>
              \/ l = "list" /\ m = "prompt" /\ Head(toClient[c]).type = "LIST_GROUPS"
              \/ l = "chat" /\ m = "chat"
              \/ l = "join" /\ m = "chat" /\ Head(toClient[c]).type = "JOIN_ACCEPTED"
              \/ l = "join" /\ m = "begin" /\ Head(toClient[c]).type = "JOIN_REJECTED"
    PROVE  Talks'
<1>. DEFINE b == IF Head(toClient[c]).type \in T THEN m ELSE "confused"
<1>1. /\ at[c] = l /\ toClient[c] # <<>>
      /\ toClient' = [toClient EXCEPT ![c] = Tail(toClient[c])]
      /\ Become(c, b) /\ open' \subseteq open /\ toServer' = toServer /\ room' = room
      /\ \A d \in open : d # c => d \in open'
      /\ b # "confused" => open' = open
  BY DEF Read, Exit
<1>2. b \in Places BY DEF Places
<1>3. \/ b = "confused"
      \/ l = "list" /\ b = "prompt" /\ Head(toClient[c]).type = "LIST_GROUPS"
      \/ l = "chat" /\ b = "chat"
      \/ l = "join" /\ b = "chat" /\ Head(toClient[c]).type = "JOIN_ACCEPTED"
      \/ l = "join" /\ b = "begin" /\ Head(toClient[c]).type = "JOIN_REJECTED"
  OBVIOUS
<1>. HIDE DEF b
<1>4. /\ Talking(l, toServer[c], toClient[c], room[c], c, Seated)
      /\ Orderly(l, toServer[c], toClient[c], c, Enrolled)
      /\ toClient[c] \in Seq(Replies)
  BY <1>1, TalksOf
<1>5. ASSUME NEW F, c \in Seated => c \in F
      PROVE  Talking(b, toServer[c], Tail(toClient[c]), room[c], c, F)
  <2>1. Talking(l, toServer[c], toClient[c], room[c], c, F)
    BY <1>4, <1>5, TalkGoesOn
  <2>. QED BY <1>1, <1>3, <1>4, <2>1, TalkRead
<1>6. b \in {"begin", "list", "prompt", "join", "chat"} => c \in open'
  <2>1. c \in open BY <1>1 DEF Talks
  <2>. QED BY <1>1, <2>1
<1>7. toServer' = [toServer EXCEPT ![c] = toServer[c]] BY <1>1, ClientNow
<1>8. /\ room[c] \in {<<>>} \cup (UserGroups \X UserNames)
      /\ room' = [room EXCEPT ![c] = room[c]]
  BY <1>1, SameRoom
<1>. QED BY <1>1, <1>2, <1>5, <1>6, <1>7, <1>8, ClientTalks

LEMMA SomethingReadTalked ==
    ASSUME RoomInv, Talks, NEW c \in Clients, UNCHANGED <<groupVars, serverVars>>,
           ClientRead(c)
    PROVE  Talks'
<1>1. CASE ReadList(c)
  <2>1. Read(c, "list", {"LIST_GROUPS"}, "prompt") BY <1>1 DEF ReadList
  <2>. QED BY <2>1, ReadTalked
<1>2. CASE ReadText(c)
  <2>1. Read(c, "chat", {"USER_TEXT"}, "chat") BY <1>2 DEF ReadText
  <2>. QED BY <2>1, ReadTalked
<1>3. CASE ReadJoin(c)
  <2>. DEFINE m == IF Head(toClient[c]).type = "JOIN_ACCEPTED" THEN "chat" ELSE "begin"
  <2>1. m \in {"prompt", "chat", "begin"} OBVIOUS
  <2>2. Read(c, "join", {"JOIN_ACCEPTED", "JOIN_REJECTED"}, m) BY <1>3 DEF ReadJoin
  <2>3. Head(toClient[c]).type \in {"JOIN_ACCEPTED", "JOIN_REJECTED"} =>
           \/ m = "chat" /\ Head(toClient[c]).type = "JOIN_ACCEPTED"
           \/ m = "begin" /\ Head(toClient[c]).type = "JOIN_REJECTED"
    OBVIOUS
  <2>. HIDE DEF m
  <2>. QED BY <2>1, <2>2, <2>3, ReadTalked
<1>4. CASE ServerDied(c)
  <2>1. Exit(c, "gone") /\ UNCHANGED <<toServer, toClient, room>> BY <1>4 DEF ServerDied
  <2>. QED BY <2>1, ExitTalked
<1>. QED BY <1>1, <1>2, <1>3, <1>4 DEF ClientRead

LEMMA DialTalked ==
    ASSUME RoomInv, Talks, NEW c \in Clients, Dial(c)
    PROVE  Talks'
<1>1. /\ at[c] = "off" /\ at' = [at EXCEPT ![c] = "begin"]
      /\ open' = open \cup {c} /\ toServer' = toServer /\ toClient' = toClient
      /\ UNCHANGED <<groupVars, peer, room>>
  BY DEF Dial, Connect, Become
<1>2. at \in [Clients -> Places] BY DEF RoomInv, Packets
<1>3. Seated' = Seated BY <1>1, SeatsStay
<1>4. ASSUME NEW d \in Clients
      PROVE  /\ at'[d] \in {"begin", "list", "prompt", "join", "chat"} => d \in open'
             /\ Talking(at'[d], toServer[d], toClient[d], room[d], d, Seated)
  <2>1. /\ Talking(at[d], toServer[d], toClient[d], room[d], d, Seated)
        /\ at[d] \in {"begin", "list", "prompt", "join", "chat"} => d \in open
    BY DEF Talks
  <2>2. CASE d = c
    <3>1. Talking("begin", toServer[c], toClient[c], room[c], c, Seated)
      BY <1>1, <2>1, <2>2 DEF Talking
    <3>. QED BY <1>1, <1>2, <2>2, <3>1
  <2>3. CASE d # c BY <1>1, <1>2, <2>1, <2>3
  <2>. QED BY <2>2, <2>3
<1>. QED BY <1>1, <1>3, <1>4 DEF Talks

LEMMA TalksInit == Init => Talks
<1>. SUFFICES ASSUME Init PROVE Talks
  OBVIOUS
<1>1. /\ at = [c \in Clients |-> "off"] /\ room = [c \in Clients |-> <<>>]
      /\ toServer = [c \in Clients |-> <<>>] /\ toClient = [c \in Clients |-> <<>>]
  BY DEF Init, ClientInit
<1>2. Lists(<<>>) = {} BY EmptySeq DEF Lists, Of
<1>3. \A c \in Clients : Talking("off", <<>>, <<>>, <<>>, c, Seated)
  BY <1>2 DEF Talking
<1>. QED BY <1>1, <1>3 DEF Talks

LEMMA TalksStep == RoomInv /\ Talks /\ [Next]_vars => Talks'
<1>. SUFFICES ASSUME RoomInv, Talks, [Next]_vars PROVE Talks'
  OBVIOUS
<1>1. CASE UNCHANGED vars
  <2>1. /\ UNCHANGED clientVars /\ UNCHANGED <<open, toServer, toClient>>
        /\ UNCHANGED <<groupVars, peer, room>>
    BY <1>1 DEF vars, linkVars, serverVars, clientVars
  <2>2. Seated' = Seated BY <2>1, SeatsStay
  <2>. QED BY <2>1, <2>2, NothingSaid
<1>2. ASSUME ServerStep, UNCHANGED clientVars PROVE Talks'
  <2>1. ASSUME Select \/ \E sock \in Socks : DisconnectCrash(sock) PROVE Talks'
    <3>1. UNCHANGED <<open, toServer, toClient>> /\ UNCHANGED <<groupVars, peer, room>>
      BY <1>2, <2>1 DEF DisconnectCrash, Select, linkVars, clientVars
    <3>2. Seated' = Seated BY <3>1, SeatsStay
    <3>. QED BY <1>2, <3>1, <3>2, NothingSaid
  <2>2. ASSUME NEW sock \in Socks, Serve(sock) PROVE Talks'
    BY <1>2, <2>1, <2>2, ListTalked, JoinTalked, LeaveTalked, TextTalked,
       DisconnectTalked DEF Serve
  <2>. QED BY <1>2, <2>1, <2>2, AcceptTalked DEF ServerStep
<1>3. ASSUME NEW c \in Clients, UNCHANGED <<groupVars, serverVars>>, UserStep(c) \/ Crash(c)
      PROVE  Talks'
  <2>1. Quit(c) \/ Crash(c) => Exit(c, "gone") /\ UNCHANGED <<toServer, toClient, room>>
    BY DEF Quit, Crash
  <2>2. Quit(c) \/ Crash(c) => Talks' BY <1>3, <2>1, ExitTalked
  <2>3. ASSUME NEW g \in UserGroups, NEW n \in UserNames, Join(c, g, n) PROVE Talks'
    BY <1>3, <2>3, JoinRequestTalked
  <2>. QED BY <1>3, <2>2, <2>3, TextTypedTalked, EndTypedTalked DEF UserStep
<1>4. ASSUME NEW c \in Clients, ClientStep(c) PROVE Talks'
  BY <1>3, <1>4, DialTalked, ListRequestTalked, SomethingReadTalked DEF ClientStep
<1>. QED BY <1>1, <1>2, <1>4 DEF Next, ServerNext

LEMMA TalksInvariant == Spec => [](RoomInv /\ Talks)
BY RoomInit, RoomStep, TalksInit, TalksStep, PTL DEF Spec

(* A client that was told it is accepted is a member, of the group and by  *)
(* the name it asked for, until it leaves or its connection ends           *)
(* (chatclient.c:129-134, 173-228).                                        *)
THEOREM ChattersSit == Spec => []ChattersAreMembers
<1>1. ASSUME RoomInv, Talks PROVE ChattersAreMembers
  <2>1. SUFFICES ASSUME NEW c \in Clients, at[c] = "chat"
                 PROVE  \E m \in AllMembers : /\ peer[At(m).sock] = c
                                              /\ <<m[1], At(m).name>> = room[c]
    BY DEF ChattersAreMembers
  <2>2. c \in Seated BY <1>1, <2>1 DEF Talks, Talking
  <2>3. PICK g \in Groups : \E i \in DOMAIN mems[g] :
            room[c] = <<g, mems[g][i].name>> /\ peer[mems[g][i].sock] = c
    BY <2>2 DEF Seated, InRoom
  <2>4. PICK i \in DOMAIN mems[g] :
            room[c] = <<g, mems[g][i].name>> /\ peer[mems[g][i].sock] = c
    BY <2>3
  <2>5. <<g, i>> \in AllMembers /\ At(<<g, i>>) = mems[g][i] /\ <<g, i>>[1] = g
    BY DEF AllMembers, At
  <2>. QED BY <2>4, <2>5
<1>. QED BY <1>1, TalksInvariant, PTL

(* What it shows was said in the group it is in: whatever was said in its  *)
(* last group came before the reply to its request to join                 *)
(* (chatserver.c:496-502, chatclient.c:189-209).                           *)
THEOREM OwnTextsOnly == Spec => []TextsFromOwnGroup
<1>1. ASSUME RoomInv, Talks PROVE TextsFromOwnGroup
  <2>1. SUFFICES ASSUME NEW c \in Clients, at[c] = "chat", toClient[c] # <<>>
                 PROVE  /\ Head(toClient[c]).type = "USER_TEXT"
                        /\ Head(toClient[c]).groups = {room[c][1]}
    BY DEF TextsFromOwnGroup
  <2>2. Heard(toClient[c], 1, room[c][1]) /\ toClient[c] \in Seq(Replies)
    BY <1>1, <2>1, TalksOf DEF Talking
  <2>3. 1 \in 1..Len(toClient[c]) /\ Head(toClient[c]) = toClient[c][1]
    BY <2>1, <2>2, TailOf
  <2>. QED BY <2>2, <2>3 DEF Heard
<1>. QED BY <1>1, TalksInvariant, PTL

-----------------------------------------------------------------------------
(* The port.  A server that serves has its link as long as only one that   *)
(* serves removes the link: so a signal must find it serving, and a second *)
(* one must not find it between unlink and exit.                           *)
OneSignal == \A s, t \in Signals : s = t

PortInv == /\ server \in [Servers -> {"off", "starting", "serving", "refused",
                                      "cleaning", "dead"}]
           /\ got \in [Servers -> SUBSET Signals]
           /\ \A p \in Servers : server[p] = "cleaning" => got[p] # {}
           /\ ServerLinked

LEMMA StartserverStep ==
    ASSUME PortInv, NEW p \in Servers, startserver(p) PROVE PortInv'
<1>1. server' \in [Servers -> {"off", "starting", "serving", "refused", "cleaning", "dead"}]
  BY DEF PortInv, startserver
<1>2. CASE chatport = NoLink
  <2>1. \A q \in Servers : server[q] # "serving"
    BY <1>2, PortAssumption DEF PortInv, ServerLinked
  <2>. QED BY <1>1, <1>2, <2>1 DEF PortInv, startserver, ServerLinked
<1>3. CASE chatport # NoLink
  BY <1>1, <1>3 DEF PortInv, startserver, ServerLinked
<1>. QED BY <1>2, <1>3

LEMMA CleanupStep ==
    ASSUME PortInv, OneSignal, ~Early, NEW p \in Servers, NEW s \in Signals, cleanup(p, s)
    PROVE  PortInv'
<1>1. /\ server' = [server EXCEPT ![p] = "cleaning"]
      /\ got' = [got EXCEPT ![p] = @ \cup {s}]
  BY DEF cleanup
<1>2. server[p] # "cleaning"
  <2>1. got[p] \subseteq {s} /\ s \notin got[p] BY DEF PortInv, OneSignal, cleanup
  <2>. QED BY <2>1 DEF PortInv
<1>3. server[p] = "serving" BY <1>2 DEF cleanup, Interruptible
<1>4. \A q \in Servers : server[q] = "serving" => q = p
  BY <1>3 DEF PortInv, ServerLinked
<1>5. ServerLinked' BY <1>1, <1>4 DEF PortInv, ServerLinked
<1>6. /\ server' \in [Servers -> {"off", "starting", "serving", "refused",
                                  "cleaning", "dead"}]
      /\ got' \in [Servers -> SUBSET Signals]
      /\ \A q \in Servers : server'[q] = "cleaning" => got'[q] # {}
  BY <1>1 DEF PortInv
<1>. QED BY <1>5, <1>6 DEF PortInv

LEMMA PortStep ==
    ASSUME PortInv, OneSignal, ~Early, [PortNext]_portVars PROVE PortInv'
<1>1. ASSUME NEW p \in Servers, Launch(p) \/ ExitServer(p) \/ Die(p) PROVE PortInv'
  BY <1>1 DEF PortInv, ServerLinked, Launch, ExitServer, Die
<1>2. ASSUME NEW c \in Callers, ReadLink(c) \/ hooktoserver(c) PROVE PortInv'
  BY <1>2 DEF PortInv, ServerLinked, ReadLink, hooktoserver
<1>3. CASE UNCHANGED portVars BY <1>3 DEF PortInv, ServerLinked, portVars
<1>. QED BY <1>1, <1>2, <1>3, StartserverStep, CleanupStep DEF PortNext

LEMMA PortInvariant == ASSUME OneSignal, ~Early PROVE PortSpec => []PortInv
<1>1. PortInit => PortInv BY DEF PortInit, PortInv, ServerLinked
<1>2. PortInv /\ [PortNext]_portVars => PortInv' BY PortStep
<1>. QED BY <1>1, <1>2, PTL DEF PortSpec

(* However many servers are started, refused, stopped and killed, in any   *)
(* order, no two of them serve, if each is sent one signal at most and     *)
(* that when it serves (chatlinker.c:71-84, chatserver.c:111-120).         *)
THEOREM PortOfOneServer == ASSUME OneSignal, ~Early PROVE PortSpec => []OneServer
<1>1. PortInv => OneServer BY DEF PortInv, ServerLinked, OneServer
<1>. QED BY <1>1, PortInvariant, PTL

(* And the link names the one that serves: clients find it, and the others *)
(* are refused (chatlinker.c:71-84, 100-102, chatserver.c:111-120).        *)
THEOREM PortNamesServer == ASSUME OneSignal, ~Early PROVE PortSpec => []ServerLinked
<1>1. PortInv => ServerLinked BY DEF PortInv
<1>. QED BY <1>1, PortInvariant, PTL
=============================================================================
