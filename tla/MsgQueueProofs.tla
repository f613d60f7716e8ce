--------------------------- MODULE MsgQueueProofs ---------------------------
(***************************************************************************)
(* Proofs about MsgQueue for any finite set of clients, any room in the    *)
(* queue and any number of deaths.  A waiting client is never without a    *)
(* message on its way, because each step that adds a waiter adds a message *)
(* and only a waiter takes a reply away.                                   *)
(***************************************************************************)
EXTENDS MsgQueue, FiniteSetTheorems, TLAPS

Types == /\ server \in {"receive", "reply"}
         /\ client \in [Clients -> {"off", "send", "wait"}]
         /\ requests \in Nat /\ replies \in Nat /\ deaths \in Nat

QueueInv == Types /\ EnoughOnTheWay

-----------------------------------------------------------------------------
(* The waiting clients are finitely many.                                  *)
LEMMA WaitingFinite == IsFiniteSet(Waiting) /\ Cardinality(Waiting) \in Nat
<1>1. Waiting \subseteq Clients BY DEF Waiting
<1>2. IsFiniteSet(Waiting) BY <1>1, QueueAssumption, FS_Subset
<1>. QED BY <1>2, FS_CardinalityType

(* How the number of waiting clients follows one client that moves.        *)
LEMMA OneComes ==
    ASSUME Types, NEW c \in Clients, client[c] # "wait",
           client' = [client EXCEPT ![c] = "wait"]
    PROVE  Cardinality(Waiting') = Cardinality(Waiting) + 1
<1>1. Waiting' = Waiting \cup {c} BY DEF Waiting, Types
<1>2. c \notin Waiting BY DEF Waiting
<1>. QED BY <1>1, <1>2, WaitingFinite, FS_AddElement

LEMMA OneGoes ==
    ASSUME Types, NEW c \in Clients, client' = [client EXCEPT ![c] = "off"]
    PROVE  /\ Cardinality(Waiting') \in Nat
           /\ Cardinality(Waiting') <= Cardinality(Waiting)
           /\ client[c] = "wait"
                => Cardinality(Waiting') = Cardinality(Waiting) - 1
<1>1. Waiting' = Waiting \ {c} BY DEF Waiting, Types
<1>2. c \in Waiting <=> client[c] = "wait" BY DEF Waiting
<1>3. CASE client[c] = "wait"
  <2>1. /\ Cardinality(Waiting \ {c}) = Cardinality(Waiting) - 1
        /\ IsFiniteSet(Waiting \ {c})
    BY <1>2, <1>3, WaitingFinite, FS_RemoveElement
  <2>2. Cardinality(Waiting \ {c}) \in Nat BY <2>1, FS_CardinalityType
  <2>. QED BY <1>1, <2>1, <2>2, WaitingFinite
<1>4. CASE client[c] # "wait"
  <2>1. Waiting' = Waiting BY <1>1, <1>2, <1>4
  <2>. QED BY <2>1, <1>4, WaitingFinite
<1>. QED BY <1>3, <1>4

-----------------------------------------------------------------------------
LEMMA QueueInit == Init => QueueInv
<1>. SUFFICES ASSUME Init PROVE QueueInv
  OBVIOUS
<1>1. Types BY DEF Init, Types
<1>2. Waiting = {} BY DEF Init, Waiting
<1>3. Cardinality(Waiting) = 0 BY <1>2, FS_EmptySet
<1>. QED BY <1>1, <1>3 DEF QueueInv, EnoughOnTheWay, Init

LEMMA QueueStep == QueueInv /\ [Next]_vars => QueueInv'
<1>. SUFFICES ASSUME QueueInv, [Next]_vars PROVE QueueInv'
  OBVIOUS
<1>. USE DEF QueueInv
<1>t. Types OBVIOUS
<1>w. Cardinality(Waiting) \in Nat BY WaitingFinite
<1>1. ASSUME UNCHANGED client PROVE Waiting' = Waiting
  BY <1>1 DEF Waiting
<1>2. CASE Receive
  <2>1. Types' BY <1>2 DEF Types, Receive
  <2>2. Waiting' = Waiting BY <1>1, <1>2 DEF Receive
  <2>. QED BY <2>1, <2>2, <1>w, <1>2 DEF Types, EnoughOnTheWay, Receive
<1>3. CASE Reply
  <2>1. Types' BY <1>3 DEF Types, Reply
  <2>2. Waiting' = Waiting BY <1>1, <1>3 DEF Reply
  <2>. QED BY <2>1, <2>2, <1>w, <1>3 DEF Types, EnoughOnTheWay, Reply
<1>4. ASSUME NEW c \in Clients, Start(c) PROVE QueueInv'
  <2>1. Types' BY <1>4 DEF Types, Start
  <2>2. client' = [client EXCEPT ![c] = "send"] /\ client[c] = "off"
    BY <1>4 DEF Start
  <2>3. Waiting' = Waiting BY <2>2, <1>t DEF Waiting, Types
  <2>. QED BY <2>1, <2>3, <1>w, <1>4 DEF Types, EnoughOnTheWay, Start
<1>5. ASSUME NEW c \in Clients, Send(c) PROVE QueueInv'
  <2>1. Types' BY <1>5 DEF Types, Send
  <2>2. Cardinality(Waiting') = Cardinality(Waiting) + 1
  <3>1. client[c] # "wait" /\ client' = [client EXCEPT ![c] = "wait"]
    BY <1>5 DEF Send
  <3>. QED BY <3>1, <1>t, OneComes
  <2>. QED BY <2>1, <2>2, <1>w, <1>5 DEF Types, EnoughOnTheWay, Send
<1>6. ASSUME NEW c \in Clients, Read(c) PROVE QueueInv'
  <2>1. Types' BY <1>6 DEF Types, Read
  <2>2. Cardinality(Waiting') = Cardinality(Waiting) - 1
    BY <1>6, <1>t, OneGoes DEF Read
  <2>. QED BY <2>1, <2>2, <1>w, <1>6 DEF Types, EnoughOnTheWay, Read
<1>7. ASSUME NEW c \in Clients, Kill(c) PROVE QueueInv'
  <2>1. Types' BY <1>7 DEF Types, Kill
  <2>2. /\ Cardinality(Waiting') \in Nat
        /\ Cardinality(Waiting') <= Cardinality(Waiting)
    BY <1>7, <1>t, OneGoes DEF Kill
  <2>. QED BY <2>1, <2>2, <1>w, <1>7 DEF Types, EnoughOnTheWay, Kill
<1>8. CASE UNCHANGED vars
  <2>1. Waiting' = Waiting BY <1>1, <1>8 DEF vars
  <2>. QED BY <2>1, <1>8 DEF Types, EnoughOnTheWay, vars
<1>. QED BY <1>2, <1>3, <1>4, <1>5, <1>6, <1>7, <1>8 DEF Next

(* Whatever clients and replies do to each other, there is something on    *)
(* its way for each client that waits (ipc.c:143-149, msg.c:54-57).        *)
THEOREM AlwaysEnough == Spec => []EnoughOnTheWay
<1>1. QueueInv => EnoughOnTheWay BY DEF QueueInv
<1>. QED BY <1>1, QueueInit, QueueStep, PTL DEF Spec
=============================================================================
