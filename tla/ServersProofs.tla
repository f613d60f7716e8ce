---------------------------- MODULE ServersProofs ---------------------------
(***************************************************************************)
(* Proofs about the servers, for any number of clients and any length of   *)
(* their arrays: no descriptor is lost, the reads of select/, epoll/ and   *)
(* the echo server do not wait.                                            *)
(*                                                                         *)
(* The first part is what the operations of SocketServer keep: a client is *)
(* at most at one place, in the queue of connections or behind one         *)
(* descriptor, so what is done to one descriptor leaves what can be read   *)
(* from the others as it was.  The second part is what each loop adds, the *)
(* third what the array of epoll/ holds; its rounds of moves are a         *)
(* recursive function, about which the lemmas argue by the smallest index  *)
(* at which they would fail.  The last part is what is written of the      *)
(* lines that are typed.                                                   *)
(***************************************************************************)
EXTENDS Servers, FiniteSetTheorems, WellFoundedInduction, TLAPS

States == {"off", "on", "closed", "reset", "over"}

Waiting == 1..Len(backlog)

SocketTypes == /\ desc \in [Fds -> Clients \cup {NoClient}]
               /\ conn \in [Clients -> States]
               /\ backlog \in Seq(Clients)
               /\ pending \in [Clients -> Nat]

OnePlace ==
    /\ \A f, g \in Open : desc[f] = desc[g] => f = g
    /\ \A f \in Open, n \in Waiting : backlog[n] # desc[f]
    /\ \A m, n \in Waiting : backlog[m] = backlog[n] => m = n
    /\ \A f \in Open : conn[desc[f]] # "off"
    /\ \A n \in Waiting : conn[backlog[n]] # "off"

SocketInv == SocketTypes /\ OnePlace

(* What can be read from the descriptors of S can be read afterwards.      *)
Kept(S) == \A g \in S : Readable(g) => Readable(g)'

-----------------------------------------------------------------------------
(* Fds is a finite set of numbers that are not those of the other files.   *)
LEMMA FdsFinite == /\ IsFiniteSet(Fds) /\ Fds \subseteq Nat
                   /\ Sock \notin Fds /\ Stdin \notin Fds /\ NoFd \notin Fds
<1>1. Cardinality(Clients) \in Nat BY SocketAssumption, FS_CardinalityType
<1>2. IsFiniteSet(2..Cardinality(Clients) + 1) BY <1>1, FS_Interval
<1>. QED BY <1>1, <1>2 DEF Fds, Sock, Stdin, NoFd

(* The open descriptors are finitely many.                                 *)
LEMMA OpenFinite == IsFiniteSet(Open) /\ Cardinality(Open) \in Nat
<1>1. Open \subseteq Fds BY DEF Open
<1>2. IsFiniteSet(Open) BY <1>1, FdsFinite, FS_Subset
<1>. QED BY <1>2, FS_CardinalityType

(* Before the server runs nobody is anywhere.                              *)
LEMMA SocketStarts == SocketInit => SocketInv /\ Open = {}
<1>. SUFFICES ASSUME SocketInit PROVE SocketInv /\ Open = {}
  OBVIOUS
<1>1. SocketTypes BY DEF SocketInit, SocketTypes, States
<1>2. Open = {} BY DEF SocketInit, Open
<1>3. Waiting = {} BY DEF SocketInit, Waiting
<1>. QED BY <1>1, <1>2, <1>3 DEF SocketInv, OnePlace

-----------------------------------------------------------------------------
(* The queue without its head, and the queue with one more.                *)
LEMMA TailOfBacklog ==
    ASSUME backlog \in Seq(Clients), backlog # <<>>
    PROVE  /\ Tail(backlog) \in Seq(Clients)
           /\ Head(backlog) = backlog[1] /\ 1 \in Waiting
           /\ Head(backlog) \in Clients
           /\ \A n \in 1..Len(Tail(backlog)) :
                 n + 1 \in Waiting /\ Tail(backlog)[n] = backlog[n + 1] /\ n + 1 # 1
BY DEF Waiting

LEMMA AppendToBacklog ==
    ASSUME backlog \in Seq(Clients), NEW c \in Clients
    PROVE  /\ Append(backlog, c) \in Seq(Clients)
           /\ Append(backlog, c) # <<>>
           /\ Len(backlog) \in Nat
           /\ \A n \in 1..Len(Append(backlog, c)) :
                 \/ n \in Waiting /\ Append(backlog, c)[n] = backlog[n]
                 \/ n = Len(backlog) + 1 /\ Append(backlog, c)[n] = c
BY DEF Waiting

(* Accept gives a new descriptor to the head of the queue.                 *)
LEMMA AcceptKeeps ==
    ASSUME SocketInv, backlog # <<>>, NEW f \in Fds, AcceptAs(f), UNCHANGED pending
    PROVE  SocketInv' /\ f \notin Open /\ Open' = Open \cup {f} /\ Kept(Open)
<1>. USE DEF SocketInv
<1>1. SocketTypes /\ backlog \in Seq(Clients) BY DEF SocketTypes
<1>2. f \notin Open /\ desc' = [desc EXCEPT ![f] = backlog[1]] /\ backlog' = Tail(backlog)
  BY <1>1, TailOfBacklog DEF AcceptAs, LowestFree, Open
<1>3. backlog[1] \in Clients /\ backlog[1] # NoClient
  BY <1>1, TailOfBacklog, SocketAssumption
<1>4. \A g \in Fds : desc'[g] = IF g = f THEN backlog[1] ELSE desc[g]
  BY <1>1, <1>2 DEF SocketTypes
<1>5. Open' = Open \cup {f} BY <1>3, <1>4 DEF Open
<1>6. SocketTypes'
  BY <1>1, <1>2, <1>3, TailOfBacklog DEF SocketTypes, AcceptAs
<1>7. \A n \in Waiting' : /\ n + 1 \in Waiting /\ backlog'[n] = backlog[n + 1]
                          /\ n + 1 # 1 /\ n \in Int
  BY <1>1, <1>2, TailOfBacklog DEF Waiting
<1>8. OnePlace'
  <2>1. 1 \in Waiting BY <1>1, TailOfBacklog
  <2>2. \A g, h \in Open' : desc'[g] = desc'[h] => g = h
    BY <1>4, <1>5, <2>1 DEF OnePlace, Open
  <2>3. \A g \in Open', n \in Waiting' : backlog'[n] # desc'[g]
    BY <1>4, <1>5, <1>7, <2>1 DEF OnePlace, Open
  <2>4. \A m, n \in Waiting' : backlog'[m] = backlog'[n] => m = n
    <3>. TAKE m, n \in Waiting'
    <3>1. backlog'[m] = backlog'[n] => m + 1 = n + 1 BY <1>7 DEF OnePlace
    <3>. QED BY <3>1, <1>7
  <2>5. \A g \in Open' : conn'[desc'[g]] # "off"
    BY <1>4, <1>5, <2>1 DEF OnePlace, Open, AcceptAs
  <2>6. \A n \in Waiting' : conn'[backlog'[n]] # "off"
    BY <1>7 DEF OnePlace, AcceptAs
  <2>. QED BY <2>2, <2>3, <2>4, <2>5, <2>6 DEF OnePlace
<1>9. Kept(Open)
  <2>. SUFFICES ASSUME NEW g \in Open, Readable(g) PROVE Readable(g)'
    BY DEF Kept
  <2>1. desc'[g] = desc[g] /\ g \in Open' BY <1>2, <1>4, <1>5 DEF Open
  <2>2. conn' = conn /\ pending' = pending BY DEF AcceptAs
  <2>. QED BY <2>1, <2>2 DEF Readable, HasData, HasError, HasEnd
<1>. QED BY <1>2, <1>5, <1>6, <1>8, <1>9

(* What is proved once of all steps that move no connection from its place:*)
(* no descriptor and no entry of the queue changes, and only connections   *)
(* that are made are given another state.                                  *)
LEMMA PlacesKeep ==
    ASSUME SocketInv, UNCHANGED <<desc, backlog>>,
           conn' \in [Clients -> States], pending' \in [Clients -> Nat],
           \A c \in Clients : conn[c] # "off" => conn'[c] # "off"
    PROVE  SocketInv' /\ Open' = Open
<1>1. SocketTypes' BY DEF SocketInv, SocketTypes
<1>2. Open' = Open /\ Waiting' = Waiting BY DEF Open, Waiting
<1>3. \A f \in Open : desc[f] \in Clients BY DEF SocketInv, SocketTypes, Open
<1>4. \A n \in Waiting : backlog[n] \in Clients
  BY DEF SocketInv, SocketTypes, Waiting
<1>5. OnePlace' BY <1>2, <1>3, <1>4 DEF SocketInv, OnePlace
<1>. QED BY <1>1, <1>2, <1>5 DEF SocketInv

(* Taking the data of one descriptor.                                      *)
LEMMA ReadDataKeeps ==
    ASSUME SocketInv, NEW f \in Fds, ReadData(f)
    PROVE  /\ SocketInv' /\ Open' = Open /\ UNCHANGED backlog
           /\ Kept(Fds \ {f})
<1>1. f \in Open /\ desc[f] \in Clients
  BY DEF ReadData, HasData, Open, SocketInv, SocketTypes
<1>2. pending' \in [Clients -> Nat] BY <1>1 DEF ReadData, SocketInv, SocketTypes
<1>3. SocketInv' /\ Open' = Open
  BY <1>2, PlacesKeep DEF ReadData, SocketInv, SocketTypes
<1>4. ASSUME NEW g \in Fds \ {f}, Readable(g) PROVE Readable(g)'
  <2>1. g \in Open /\ desc[g] \in Clients
    BY <1>4 DEF Readable, HasData, HasError, HasEnd, Open, SocketInv, SocketTypes
  <2>2. desc[g] # desc[f] BY <1>1, <2>1 DEF SocketInv, OnePlace
  <2>3. pending'[desc[g]] = pending[desc[g]]
    BY <1>1, <2>1, <2>2 DEF ReadData, SocketInv, SocketTypes
  <2>4. desc' = desc /\ conn' = conn BY DEF ReadData
  <2>. QED BY <1>3, <1>4, <2>3, <2>4 DEF Readable, HasData, HasError, HasEnd
<1>. QED BY <1>3, <1>4 DEF ReadData, Kept

(* What is readable stays readable when the state of a connection goes     *)
(* from closed to reset or back, or from on to either.                     *)
Ended == {"closed", "reset"}

LEMMA ConnKeeps ==
    ASSUME SocketInv, UNCHANGED <<desc, backlog>>, conn' \in [Clients -> States],
           \A c \in Clients : /\ conn[c] \in Ended => conn'[c] \in Ended
                              /\ conn[c] # "off" => conn'[c] # "off",
           pending' \in [Clients -> Nat],
           \A c \in Clients : pending[c] > 0 => pending'[c] > 0
    PROVE  SocketInv' /\ Open' = Open /\ Kept(Fds)
<1>1. SocketInv' /\ Open' = Open
  <2>1. \A c \in Clients : conn[c] # "off" => conn'[c] # "off" OBVIOUS
  <2>. QED BY <2>1, PlacesKeep
<1>2. ASSUME NEW g \in Fds, Readable(g) PROVE Readable(g)'
  <2>1. g \in Open /\ desc[g] \in Clients
    BY <1>2 DEF Readable, HasData, HasError, HasEnd, Open, SocketInv, SocketTypes
  <2>2. pending[desc[g]] > 0 \/ conn[desc[g]] \in Ended
    BY <1>2 DEF Readable, HasData, HasError, HasEnd, Ended
  <2>3. desc' = desc OBVIOUS
  <2>4. pending'[desc[g]] > 0 \/ conn'[desc[g]] \in Ended
    BY <2>1, <2>2
  <2>. QED BY <2>1, <2>3, <2>4 DEF Readable, HasData, HasError, HasEnd, Ended, Open
<1>. QED BY <1>1, <1>2 DEF Kept

LEMMA ReadErrorKeeps ==
    ASSUME SocketInv, NEW f \in Fds, ReadError(f)
    PROVE  SocketInv' /\ Open' = Open /\ UNCHANGED backlog /\ Kept(Fds)
<1>1. desc[f] \in Clients /\ conn[desc[f]] = "reset"
  BY DEF ReadError, HasError, Open, SocketInv, SocketTypes
<1>2. conn' \in [Clients -> States]
  BY <1>1 DEF ReadError, SocketInv, SocketTypes, States
<1>3. \A c \in Clients : /\ conn[c] \in Ended => conn'[c] \in Ended
                         /\ conn[c] # "off" => conn'[c] # "off"
  BY <1>1 DEF ReadError, SocketInv, SocketTypes, Ended
<1>. QED BY <1>2, <1>3, ConnKeeps DEF ReadError, SocketInv, SocketTypes

(* Writing to any descriptors.                                             *)
LEMMA WroteKeeps ==
    ASSUME SocketInv, NEW times, Wrote(times), UNCHANGED <<desc, backlog, pending>>
    PROVE  SocketInv' /\ Open' = Open /\ Kept(Fds)
<1>. DEFINE Times(c) == IF \E f \in Open : desc[f] = c
                        THEN times[CHOOSE f \in Open : desc[f] = c] ELSE 0
<1>1. conn' = [c \in Clients |->
                  CASE Times(c) > 0 /\ conn[c] = "closed" -> "reset"
                    [] Times(c) > 0 /\ conn[c] = "reset"  -> "closed"
                    [] OTHER -> conn[c]]
  BY DEF Wrote
<1>. HIDE DEF Times
<1>2. conn' \in [Clients -> States]
  BY <1>1 DEF SocketInv, SocketTypes, States
<1>3. \A c \in Clients : /\ conn[c] \in Ended => conn'[c] \in Ended
                         /\ conn[c] # "off" => conn'[c] # "off"
  BY <1>1 DEF Ended
<1>. QED BY <1>2, <1>3, ConnKeeps DEF SocketInv, SocketTypes

(* Closing a descriptor.                                                   *)
LEMMA ReadEndKeeps ==
    ASSUME SocketInv, NEW f \in Fds, ReadEnd(f)
    PROVE  /\ SocketInv' /\ f \in Open /\ Open' = Open \ {f} /\ UNCHANGED backlog
           /\ Kept(Fds \ {f})
<1>1. f \in Open /\ desc[f] \in Clients
  BY DEF ReadEnd, HasEnd, Open, SocketInv, SocketTypes
<1>2. \A g \in Fds : desc'[g] = IF g = f THEN NoClient ELSE desc[g]
  BY DEF ReadEnd, SocketInv, SocketTypes
<1>3. Open' = Open \ {f} /\ Waiting' = Waiting BY <1>2 DEF Open, Waiting, ReadEnd
<1>4. \A c \in Clients : conn'[c] = IF c = desc[f] THEN "over" ELSE conn[c]
  BY <1>1 DEF ReadEnd, SocketInv, SocketTypes
<1>5. SocketTypes'
  BY <1>1 DEF ReadEnd, SocketInv, SocketTypes, States
<1>6. \A g \in Open : desc[g] \in Clients BY DEF SocketInv, SocketTypes, Open
<1>7. \A n \in Waiting : backlog[n] \in Clients
  BY DEF SocketInv, SocketTypes, Waiting
<1>8. OnePlace'
  BY <1>2, <1>3, <1>4, <1>6, <1>7 DEF SocketInv, OnePlace, ReadEnd, Open
<1>9. ASSUME NEW g \in Fds \ {f}, Readable(g) PROVE Readable(g)'
  <2>1. g \in Open /\ desc[g] \in Clients
    BY <1>9 DEF Readable, HasData, HasError, HasEnd, Open, SocketInv, SocketTypes
  <2>2. desc'[g] = desc[g] /\ g \in Open' BY <1>2, <1>3, <2>1
  <2>3. conn'[desc[g]] = conn[desc[g]]
    BY <1>1, <1>4, <2>1 DEF SocketInv, OnePlace
  <2>4. pending' = pending BY DEF ReadEnd
  <2>. QED BY <1>9, <2>1, <2>2, <2>3, <2>4 DEF Readable, HasData, HasError, HasEnd
<1>. QED BY <1>1, <1>3, <1>5, <1>8, <1>9 DEF SocketInv, ReadEnd, Kept

(* Accepting a connection and closing it at once.                          *)
LEMMA TurnAwayKeeps ==
    ASSUME SocketInv, backlog # <<>>, AcceptAndClose, UNCHANGED pending
    PROVE  SocketInv' /\ Open' = Open /\ Kept(Fds)
<1>1. backlog \in Seq(Clients) BY DEF SocketInv, SocketTypes
<1>2. backlog' = Tail(backlog) /\ backlog[1] \in Clients /\ 1 \in Waiting
      /\ conn' = [conn EXCEPT ![backlog[1]] = "over"] /\ desc' = desc
  BY <1>1, TailOfBacklog DEF AcceptAndClose
<1>3. \A c \in Clients : conn'[c] = IF c = backlog[1] THEN "over" ELSE conn[c]
  BY <1>2 DEF SocketInv, SocketTypes
<1>4. Open' = Open BY <1>2 DEF Open
<1>5. SocketTypes'
  BY <1>1, <1>2, TailOfBacklog DEF SocketInv, SocketTypes, States
<1>6. \A f \in Open : desc[f] \in Clients /\ desc[f] # backlog[1]
  BY <1>2 DEF SocketInv, SocketTypes, OnePlace, Open
<1>7. \A n \in Waiting' : /\ n + 1 \in Waiting /\ backlog'[n] = backlog[n + 1]
                          /\ n + 1 # 1 /\ n \in Int /\ backlog'[n] \in Clients
  BY <1>1, <1>2, TailOfBacklog DEF Waiting
<1>8. OnePlace'
  <2>1. \A m, n \in Waiting' : backlog'[m] = backlog'[n] => m = n
    <3>. TAKE m, n \in Waiting'
    <3>1. backlog'[m] = backlog'[n] => m + 1 = n + 1
      BY <1>7 DEF SocketInv, OnePlace
    <3>. QED BY <3>1, <1>7
  <2>2. \A f \in Open', n \in Waiting' : backlog'[n] # desc'[f]
    <3>. TAKE f \in Open', n \in Waiting'
    <3>1. n + 1 \in Waiting /\ f \in Open BY <1>4, <1>7
    <3>2. backlog[n + 1] # desc[f] BY <3>1 DEF SocketInv, OnePlace
    <3>. QED BY <1>2, <1>7, <3>2
  <2>3. \A n \in Waiting' : conn'[backlog'[n]] # "off"
    BY <1>3, <1>7 DEF SocketInv, OnePlace
  <2>4. \A f \in Open' : conn'[desc'[f]] # "off"
    BY <1>2, <1>3, <1>4, <1>6 DEF SocketInv, OnePlace
  <2>5. \A f, g \in Open' : desc'[f] = desc'[g] => f = g
    BY <1>2, <1>4 DEF SocketInv, OnePlace
  <2>. QED BY <2>1, <2>2, <2>3, <2>4, <2>5 DEF OnePlace
<1>9. ASSUME NEW g \in Fds, Readable(g) PROVE Readable(g)'
  <2>1. g \in Open
    BY <1>9 DEF Readable, HasData, HasError, HasEnd, Open
  <2>2. conn'[desc[g]] = conn[desc[g]] BY <1>3, <1>6, <2>1
  <2>. QED BY <1>2, <1>4, <1>9, <2>2 DEF Readable, HasData, HasError, HasEnd
<1>. QED BY <1>4, <1>5, <1>8, <1>9 DEF SocketInv, Kept

-----------------------------------------------------------------------------
(* A step of the clients.                                                  *)
LEMMA ClientKeeps ==
    ASSUME SocketInv, ClientStep
    PROVE  /\ SocketInv' /\ Open' = Open /\ Kept(Fds)
           /\ backlog # <<>> => backlog' # <<>>
<1>. USE DEF Ended
<1>1. CASE TypeLine
  BY <1>1, ConnKeeps DEF TypeLine, netVars, SocketInv, SocketTypes
<1>2. ASSUME NEW c \in Clients, Connect(c)
      PROVE  SocketInv' /\ Open' = Open /\ Kept(Fds) /\ backlog' # <<>>
  <2>1. backlog \in Seq(Clients) /\ backlog' = Append(backlog, c) /\ desc' = desc
        /\ pending' = pending /\ conn[c] = "off"
    BY <1>2 DEF Connect, SocketInv, SocketTypes
  <2>2. \A d \in Clients : conn'[d] = IF d = c THEN "on" ELSE conn[d]
    BY <1>2 DEF Connect, SocketInv, SocketTypes
  <2>3. Open' = Open BY <2>1 DEF Open
  <2>4. SocketTypes'
    BY <1>2, <2>1, AppendToBacklog DEF Connect, SocketInv, SocketTypes, States
  <2>5. \A f \in Open : desc[f] \in Clients /\ desc[f] # c
    BY <2>1 DEF SocketInv, SocketTypes, OnePlace, Open
  <2>6. \A n \in Waiting : backlog[n] \in Clients /\ backlog[n] # c
    BY <2>1 DEF SocketInv, SocketTypes, OnePlace, Waiting
  <2>7. \A n \in Waiting' : \/ n \in Waiting /\ backlog'[n] = backlog[n]
                            \/ n = Len(backlog) + 1 /\ backlog'[n] = c
    <3>1. Waiting' = 1..Len(Append(backlog, c)) BY <2>1 DEF Waiting
    <3>. QED BY <2>1, <3>1, AppendToBacklog
  <2>8. OnePlace'
    <3>1. \A m, n \in Waiting' : backlog'[m] = backlog'[n] => m = n
      BY <2>6, <2>7 DEF SocketInv, OnePlace
    <3>2. \A f \in Open', n \in Waiting' : backlog'[n] # desc'[f]
      <4>. TAKE f \in Open', n \in Waiting'
      <4>1. f \in Open /\ desc'[f] = desc[f] /\ desc[f] # c BY <2>1, <2>3, <2>5
      <4>2. n \in Waiting => backlog[n] # desc[f] BY <4>1 DEF SocketInv, OnePlace
      <4>. QED BY <2>7, <4>1, <4>2
    <3>3. \A n \in Waiting' : conn'[backlog'[n]] # "off"
      BY <2>2, <2>6, <2>7 DEF SocketInv, OnePlace
    <3>4. \A f \in Open' : conn'[desc'[f]] # "off"
      BY <2>1, <2>2, <2>3, <2>5 DEF SocketInv, OnePlace
    <3>. QED BY <2>1, <2>3, <3>1, <3>2, <3>3, <3>4 DEF SocketInv, OnePlace
  <2>9. ASSUME NEW g \in Fds, Readable(g) PROVE Readable(g)'
    <3>1. g \in Open
      BY <2>9 DEF Readable, HasData, HasError, HasEnd, Open
    <3>2. conn'[desc[g]] = conn[desc[g]] BY <2>2, <2>5, <3>1
    <3>. QED BY <2>1, <2>3, <2>9, <3>2 DEF Readable, HasData, HasError, HasEnd
  <2>. QED BY <2>1, <2>3, <2>4, <2>8, <2>9, AppendToBacklog DEF SocketInv, Kept
<1>3. ASSUME NEW c \in Clients, Send(c)
      PROVE  SocketInv' /\ Open' = Open /\ Kept(Fds) /\ UNCHANGED backlog
  <2>1. pending' \in [Clients -> Nat] /\ \A d \in Clients : pending[d] > 0 => pending'[d] > 0
    BY <1>3 DEF Send, SocketInv, SocketTypes
  <2>. QED BY <1>3, <2>1, ConnKeeps DEF Send, SocketInv, SocketTypes
<1>4. ASSUME NEW c \in Clients, Receive(c)
      PROVE  SocketInv' /\ Open' = Open /\ Kept(Fds) /\ UNCHANGED backlog
  BY <1>4, ConnKeeps DEF Receive, SocketInv, SocketTypes
<1>5. ASSUME NEW c \in Clients, Close(c)
      PROVE  SocketInv' /\ Open' = Open /\ Kept(Fds) /\ UNCHANGED backlog
  <2>1. conn' \in [Clients -> States]
    BY <1>5 DEF Close, SocketInv, SocketTypes, States
  <2>2. \A d \in Clients : /\ conn[d] \in Ended => conn'[d] \in Ended
                           /\ conn[d] # "off" => conn'[d] # "off"
    BY <1>5 DEF Close, SocketInv, SocketTypes
  <2>. QED BY <1>5, <2>1, <2>2, ConnKeeps DEF Close, SocketInv, SocketTypes
<1>. QED BY <1>1, <1>2, <1>3, <1>4, <1>5 DEF ClientStep, TypeLine, netVars

-----------------------------------------------------------------------------
(* poll/: the table holds the open sockets, and the slot that is read was  *)
(* in use when the loop came to it.                                        *)
PollInv ==
    server = "poll" =>
        /\ maxi \in Int /\ DOMAIN events = 0.._MAX_FD_NUM_-1
        /\ table \in [PollSlots -> Fds \cup {NoFd}]
        /\ TableHolds
        /\ at = "accept" /\ "IN" \in events[0] => backlog # <<>>
        /\ at = "scan" => i \in PollSlots /\ table[i] \in Fds

(* select/: likewise; what was reported is readable until it is read.      *)
SelectInv ==
    server = "select" =>
        /\ table \in [SelectSlots -> Fds \cup {NoFd, Stdin}]
        /\ TableHolds
        /\ at = "accept" => /\ Sock \in events => backlog # <<>>
                            /\ \A f \in events \cap Fds : Readable(f)
        /\ at = "scan" =>
              /\ i \in SelectSlots /\ table[i] \in Fds /\ Readable(table[i])
              /\ \A l \in SelectSlots :
                    l > i /\ table[l] \in events \cap Fds => Readable(table[l])

(* epoll/ and the echo server: the events that are left hold.              *)
EventsHold ==
    server \in {"epoll", "echo"} =>
        /\ Sock \in events => backlog # <<>>
        /\ \A f \in events \cap Fds : Readable(f) \/ (at = "echo" /\ f = i)

EpollInv == server = "epoll" => count = Cardinality(Open)

Inv == /\ SocketInv
       /\ server \in {"poll", "select", "epoll", "echo"}
       /\ PollInv /\ SelectInv /\ EventsHold /\ EpollInv

LEMMA InvImplies == Inv => NoDescriptorLost /\ NeverBlocked
BY DEF Inv, PollInv, SelectInv, EventsHold, EpollInv, NoDescriptorLost, NeverBlocked

-----------------------------------------------------------------------------
(* Each program starts in the invariant.                                   *)
LEMMA InvInit == Init => Inv
<1>. SUFFICES ASSUME Init PROVE Inv
  OBVIOUS
<1>1. SocketInit /\ server \in {"poll", "select", "epoll", "echo"}
  BY DEF Init, PollInit, SelectInit, EpollInit, EchoInit
<1>2. SocketInv /\ Open = {} BY <1>1, SocketStarts
<1>3. PollInv
  <2>. SUFFICES ASSUME server = "poll" PROVE PollInv
    BY DEF PollInv
  <2>1. /\ at = "wait" /\ table = [k \in PollSlots |-> NoFd] /\ maxi = 0
        /\ DOMAIN events = 0.._MAX_FD_NUM_-1
    BY DEF Init, PollInit
  <2>2. TableHolds BY <1>2, <2>1, FdsFinite DEF TableHolds
  <2>. QED BY <2>1, <2>2 DEF PollInv
<1>4. SelectInv
  <2>. SUFFICES ASSUME server = "select" PROVE SelectInv
    BY DEF SelectInv
  <2>1. at = "wait" /\ table = arr_fd
    BY DEF Init, SelectInit
  <2>2. /\ table \in [SelectSlots -> {NoFd, Stdin}]
        /\ DOMAIN table = SelectSlots
    BY <2>1 DEF arr_fd
  <2>3. TableHolds BY <1>2, <2>2, FdsFinite DEF TableHolds
  <2>. QED BY <2>1, <2>2, <2>3 DEF SelectInv
<1>5. EventsHold
  <2>1. server \in {"epoll", "echo"} => events = {}
    BY DEF Init, EpollInit, EchoInit
  <2>. QED BY <2>1 DEF EventsHold
<1>6. EpollInv
  <2>1. server = "epoll" => count = 0 BY DEF Init, EpollInit
  <2>. QED BY <1>2, <2>1, FS_EmptySet DEF EpollInv
<1>. QED BY <1>1, <1>2, <1>3, <1>4, <1>5, <1>6 DEF Inv

-----------------------------------------------------------------------------
(* The clients' steps.                                                     *)
LEMMA ClientsKeepInv ==
    ASSUME Inv, ClientStep, UNCHANGED <<maxi, epollVars, server>>
    PROVE  Inv'
<1>1. /\ SocketInv' /\ Open' = Open /\ Kept(Fds)
      /\ backlog # <<>> => backlog' # <<>>
  BY ClientKeeps DEF Inv
<1>2. UNCHANGED <<at, i, table, events, count, server>>
  BY DEF ClientStep, epollVars
<1>3. PollInv' BY <1>1, <1>2 DEF Inv, PollInv, TableHolds, epollVars
<1>4. SelectInv'
  <2>. SUFFICES ASSUME server = "select" PROVE SelectInv'
    BY <1>2 DEF SelectInv
  <2>. QED BY <1>1, <1>2 DEF Inv, SelectInv, TableHolds, Kept
<1>5. EventsHold' BY <1>1, <1>2 DEF Inv, EventsHold, Kept
<1>6. EpollInv' BY <1>1, <1>2 DEF Inv, EpollInv
<1>. QED BY <1>1, <1>2, <1>3, <1>4, <1>5, <1>6 DEF Inv

(* The table with one descriptor more, and with one less.                  *)
LEMMA TableGains ==
    ASSUME NEW S, NEW O, table \in [S -> O], TableHolds, NEW k \in S, table[k] \notin Fds,
           NEW f \in Fds, f \notin Open, Open' = Open \cup {f},
           table' = [table EXCEPT ![k] = f]
    PROVE  TableHolds'
<1>1. DOMAIN table = S /\ DOMAIN table' = S
      /\ \A l \in S : table'[l] = IF l = k THEN f ELSE table[l]
  OBVIOUS
<1>2. \A l \in S : table[l] \in Fds => table[l] \in Open
  BY <1>1 DEF TableHolds
<1>3. \A g \in Open : \E l \in S : table[l] = g BY <1>1 DEF TableHolds
<1>4. \A g \in Open' : \E l \in S : table'[l] = g
  <2>. TAKE g \in Open'
  <2>1. CASE g = f BY <2>1, <1>1
  <2>2. CASE g # f
    <3>1. g \in Open /\ g \in Fds BY <2>2 DEF Open
    <3>2. PICK l \in S : table[l] = g BY <1>3, <3>1
    <3>3. l # k BY <3>1, <3>2
    <3>. QED BY <1>1, <3>2, <3>3
  <2>. QED BY <2>1, <2>2
<1>5. \A l \in S : table'[l] \in Fds => table'[l] \in Open' BY <1>1, <1>2
<1>6. Open' \subseteq Fds BY DEF Open
<1>7. {table'[l] : l \in S} \cap Fds = Open' BY <1>4, <1>5, <1>6
<1>8. \A l, m \in S : table'[l] = table'[m] /\ table'[l] \in Fds => l = m
  BY <1>1, <1>2 DEF TableHolds
<1>. QED BY <1>1, <1>7, <1>8 DEF TableHolds

LEMMA TableLoses ==
    ASSUME NEW S, NEW O, table \in [S -> O], TableHolds, NEW k \in S,
           table[k] \in Open, Open' = Open \ {table[k]},
           table' = [table EXCEPT ![k] = NoFd]
    PROVE  TableHolds'
<1>1. DOMAIN table = S /\ DOMAIN table' = S
      /\ \A l \in S : table'[l] = IF l = k THEN NoFd ELSE table[l]
  OBVIOUS
<1>2. Open \subseteq Fds /\ NoFd \notin Fds BY FdsFinite DEF Open
<1>3. \A l, m \in S : table[l] = table[m] /\ table[l] \in Fds => l = m
  BY <1>1 DEF TableHolds
<1>4. \A l \in S : table[l] \in Fds <=> table[l] \in Open
  BY <1>1, <1>2 DEF TableHolds
<1>5. \A g \in Open : \E l \in S : table[l] = g BY <1>1 DEF TableHolds
<1>6. \A g \in Open' : \E l \in S : table'[l] = g
  BY <1>1, <1>5
<1>7. \A l \in S : table'[l] \in Fds => table'[l] \in Open'
  BY <1>1, <1>2, <1>3, <1>4
<1>8. {table'[l] : l \in S} \cap Fds = Open' BY <1>2, <1>6, <1>7
<1>9. \A l, m \in S : table'[l] = table'[m] /\ table'[l] \in Fds => l = m
  BY <1>1, <1>2, <1>3
<1>. QED BY <1>1, <1>8, <1>9 DEF TableHolds

-----------------------------------------------------------------------------
(* poll/: the loop stops at a slot in use, or ends.                        *)
LEMMA PollFromStops ==
    ASSUME table \in [PollSlots -> Fds \cup {NoFd}], NEW k, PollFrom(k)
    PROVE  /\ at' \in {"wait", "scan"}
           /\ at' = "scan" => i' \in PollSlots /\ i' >= k /\ table[i'] \in Fds
BY DEF PollFrom

LEMMA PollKeepsInv ==
    ASSUME Inv, server = "poll", PollStep, UNCHANGED <<epollVars, server>>
    PROVE  Inv'
<1>1. /\ SocketInv /\ TableHolds /\ table \in [PollSlots -> Fds \cup {NoFd}]
      /\ maxi \in Int /\ DOMAIN events = 0.._MAX_FD_NUM_-1
      /\ at = "accept" /\ "IN" \in events[0] => backlog # <<>>
      /\ at = "scan" => i \in PollSlots /\ table[i] \in Fds
  BY DEF Inv, PollInv
<1>2. SUFFICES SocketInv' /\ PollInv'
  BY DEF Inv, SelectInv, EventsHold, EpollInv
<1>. DEFINE Same == SocketInv' /\ Open' = Open /\ UNCHANGED <<backlog, table>> /\ TableHolds'
<1>3. ASSUME UNCHANGED netVars, UNCHANGED table PROVE Same
  BY <1>1, <1>3 DEF netVars, SocketInv, SocketTypes, OnePlace, Open, Waiting, TableHolds
<1>4. CASE Poll
  <2>1. 0 \in DOMAIN events /\ 0 <= maxi /\ PollReady(0) = IF backlog # <<>> THEN {"IN"} ELSE {}
    BY <1>1, <1>4, ServersAssumption DEF Poll, PollReady
  <2>2. /\ DOMAIN events' = DOMAIN events
        /\ "IN" \in events'[0] => backlog # <<>>
    BY <1>4, <2>1 DEF Poll
  <2>3. Same BY <1>3, <1>4 DEF Poll
  <2>. QED BY <1>1, <1>4, <2>2, <2>3 DEF Poll, PollInv
<1>5. CASE PollBeyond
  <2>1. Same BY <1>3, <1>5 DEF PollBeyond
  <2>. QED BY <1>1, <1>5, <2>1 DEF PollBeyond, PollInv
<1>6. CASE PollNoAccept
  <2>1. Same BY <1>3, <1>6 DEF PollNoAccept
  <2>. QED BY <1>1, <1>6, <2>1 DEF PollNoAccept, PollInv
<1>7. CASE PollAccept
  <2>. PICK j \in 2.._MAX_FD_NUM_ :
          /\ FirstFree(j)
          /\ maxi' = Raised(j)
          /\ IF j = _MAX_FD_NUM_
             THEN AcceptAndClose /\ at' = "wait" /\ UNCHANGED table
             ELSE /\ at' = "stdin"
                  /\ \E f \in Fds : AcceptAs(f) /\ table' = [table EXCEPT ![j] = f]
    BY <1>7 DEF PollAccept
  <2>1. backlog # <<>> /\ UNCHANGED <<pending, events, i>> BY <1>1, <1>7 DEF PollAccept
  <2>2. maxi' \in Int BY <1>1, ServersAssumption DEF Raised
  <2>3. CASE j = _MAX_FD_NUM_
    <3>1. SocketInv' /\ Open' = Open BY <1>1, <2>1, <2>3, TurnAwayKeeps
    <3>2. TableHolds' BY <1>1, <2>3, <3>1 DEF TableHolds
    <3>. QED BY <1>1, <2>1, <2>2, <2>3, <3>1, <3>2 DEF PollInv
  <2>4. CASE j # _MAX_FD_NUM_
    <3>. PICK f \in Fds : AcceptAs(f) /\ table' = [table EXCEPT ![j] = f]
      BY <2>4
    <3>1. SocketInv' /\ f \notin Open /\ Open' = Open \cup {f}
      BY <1>1, <2>1, AcceptKeeps
    <3>2. j \in PollSlots /\ table[j] = NoFd
      BY <2>4, ServersAssumption DEF PollSlots, FirstFree
    <3>3. table[j] \notin Fds BY <3>2, FdsFinite
    <3>4. TableHolds' BY <1>1, <3>1, <3>2, <3>3, TableGains
    <3>5. table' \in [PollSlots -> Fds \cup {NoFd}] BY <1>1
    <3>. QED BY <1>1, <2>1, <2>2, <2>4, <3>1, <3>4, <3>5 DEF PollInv
  <2>. QED BY <2>3, <2>4
<1>8. ASSUME SocketInv', Open' = Open, UNCHANGED <<table, events, maxi>>,
             NEW k, PollFrom(k)
      PROVE  PollInv'
  <2>1. TableHolds' BY <1>1, <1>8 DEF TableHolds
  <2>. QED BY <1>1, <1>8, <2>1, PollFromStops DEF PollInv
<1>9. CASE PollNoLine
  <2>1. Same BY <1>3, <1>9 DEF PollNoLine
  <2>. QED BY <1>8, <1>9, <2>1 DEF PollNoLine
<1>10. CASE PollLine
  <2>1. CASE DieWriting(Writable)
    <3>1. Same BY <1>3, <2>1 DEF DieWriting
    <3>. QED BY <1>1, <1>10, <2>1, <3>1 DEF PollLine, DieWriting, PollInv
  <2>2. CASE WriteLine(Writable) /\ PollFrom(2) /\ UNCHANGED <<table, events>>
    <3>1. SocketInv' /\ Open' = Open BY <1>1, <2>2, WroteKeeps DEF WriteLine
    <3>. QED BY <1>8, <1>10, <2>2, <3>1 DEF PollLine
  <2>. QED BY <1>10, <2>1, <2>2 DEF PollLine
<1>11. CASE PollData
  <2>1. table[i] \in Fds BY <1>1, <1>11 DEF PollData
  <2>2. SocketInv' /\ Open' = Open
    BY <1>1, <1>11, <2>1, ReadDataKeeps, ReadErrorKeeps DEF PollData
  <2>. QED BY <1>8, <1>11, <2>2 DEF PollData
<1>12. CASE PollEnd
  <2>1. i \in PollSlots /\ table[i] \in Fds BY <1>1, <1>12 DEF PollEnd
  <2>2. SocketInv' /\ table[i] \in Open /\ Open' = Open \ {table[i]}
    BY <1>1, <1>12, <2>1, ReadEndKeeps DEF PollEnd
  <2>3. table' = [table EXCEPT ![i] = NoFd] /\ maxi' = maxi - 1 /\ events' = events
    BY <1>12 DEF PollEnd
  <2>4. TableHolds' BY <1>1, <2>1, <2>2, <2>3, TableLoses
  <2>5. table' \in [PollSlots -> Fds \cup {NoFd}] BY <1>1, <2>3
  <2>6. /\ at' \in {"wait", "scan"}
        /\ at' = "scan" => i' \in PollSlots /\ i' >= i + 1 /\ table[i'] \in Fds
    BY <1>1, <1>12, PollFromStops DEF PollEnd
  <2>7. at' = "scan" => table'[i'] \in Fds
    BY <1>1, <2>1, <2>3, <2>6 DEF PollSlots
  <2>. QED BY <1>1, <2>2, <2>3, <2>4, <2>5, <2>6, <2>7 DEF PollInv
<1>. QED
  BY <1>4, <1>5, <1>6, <1>7, <1>9, <1>10, <1>11, <1>12 DEF PollStep

-----------------------------------------------------------------------------
(* select/: the inner loop stops at a descriptor that was reported, or     *)
(* ends.                                                                   *)
LEMMA SelectFromStops ==
    ASSUME NEW a \in [SelectSlots -> Fds \cup {NoFd, Stdin}], NEW k, SelectFrom(k, a)
    PROVE  /\ at' \in {"stdin", "scan"}
           /\ at' = "scan" => /\ i' \in SelectSlots /\ i' >= k
                              /\ a[i'] \in events \cap Fds
<1>1. \A l \in SelectSlots : a[l] > 0 => a[l] \in Fds BY DEF NoFd, Stdin
<1>. QED BY <1>1 DEF SelectFrom

LEMMA SelectKeepsInv ==
    ASSUME Inv, server = "select", SelectStep, UNCHANGED <<maxi, epollVars, server>>
    PROVE  Inv'
<1>1. /\ SocketInv /\ TableHolds /\ table \in [SelectSlots -> Fds \cup {NoFd, Stdin}]
      /\ at = "accept" => /\ Sock \in events => backlog # <<>>
                          /\ \A f \in events \cap Fds : Readable(f)
      /\ at = "scan" => /\ i \in SelectSlots /\ table[i] \in Fds
                        /\ \A l \in SelectSlots :
                              l > i /\ table[l] \in events \cap Fds => Readable(table[l])
  BY DEF Inv, SelectInv
<1>2. SUFFICES SocketInv' /\ SelectInv'
  BY DEF Inv, PollInv, EventsHold, EpollInv
<1>3. DOMAIN table = SelectSlots BY <1>1
<1>4. CASE Select
  <2>1. SocketInv' /\ TableHolds' /\ \A f \in Fds : Readable(f)' = Readable(f)
    BY <1>1, <1>4 DEF Select, netVars, SocketInv, SocketTypes, OnePlace, Open, Waiting,
                      TableHolds, Readable, HasData, HasError, HasEnd
  <2>2. \A f \in events' \cap Fds : Readable(f)'
    BY <1>4, <2>1, FdsFinite DEF Select, ReadSet
  <2>3. Sock \in events' => backlog # <<>>
    BY <1>4, FdsFinite DEF Select, ReadSet, Sock, Stdin
  <2>. QED BY <1>1, <1>4, <2>1, <2>2, <2>3 DEF Select, netVars, SelectInv
<1>5. CASE SelectAccept
  <2>1. /\ at = "accept" /\ UNCHANGED <<pending, events>> /\ SelectFrom(2, table')
    BY <1>5 DEF SelectAccept
  <2>2. /\ SocketInv' /\ TableHolds' /\ table' \in [SelectSlots -> Fds \cup {NoFd, Stdin}]
        /\ Kept(events \cap Fds)
    <3>1. CASE UNCHANGED <<table, desc, conn, backlog>>
      BY <1>1, <2>1, <3>1 DEF SocketInv, SocketTypes, OnePlace, Open, Waiting,
                      TableHolds, Kept, Readable, HasData, HasError, HasEnd
    <3>2. ASSUME Sock \in events, NEW f \in Fds, AcceptAs(f), SelectInsert(f)
          PROVE  <2>2
      <4>1. SocketInv' /\ f \notin Open /\ Open' = Open \cup {f} /\ Kept(Open)
        BY <1>1, <2>1, <3>2, AcceptKeeps
      <4>2. PICK k \in SelectSlots : table[k] = NoFd /\ table' = [table EXCEPT ![k] = f]
        BY <3>2 DEF SelectInsert
      <4>3. TableHolds' BY <1>1, <4>1, <4>2, FdsFinite, TableGains
      <4>4. \A g \in Fds : Readable(g) => g \in Open
        BY DEF Readable, HasData, HasError, HasEnd, Open
      <4>. QED BY <1>1, <4>1, <4>2, <4>3, <4>4 DEF Kept
    <3>3. CASE Sock \in events /\ AcceptAndClose /\ UNCHANGED table
      <4>1. SocketInv' /\ Open' = Open /\ Kept(Fds)
        BY <1>1, <2>1, <3>3, TurnAwayKeeps
      <4>. QED BY <1>1, <3>3, <4>1 DEF Kept, TableHolds
    <3>. QED BY <1>5, <3>1, <3>2, <3>3 DEF SelectAccept
  <2>3. \A f \in events' \cap Fds : Readable(f)' BY <1>1, <2>1, <2>2 DEF Kept
  <2>4. /\ at' \in {"stdin", "scan"}
        /\ at' = "scan" => i' \in SelectSlots /\ table'[i'] \in events \cap Fds
    BY <2>1, <2>2, SelectFromStops
  <2>. QED BY <2>1, <2>2, <2>3, <2>4 DEF SelectInv
(* A read disturbs only what it reads, and that is not read again.         *)
<1>6. ASSUME at = "scan", SocketInv', Kept(Fds \ {table[i]}), UNCHANGED events,
             TableHolds', table' \in [SelectSlots -> Fds \cup {NoFd, Stdin}],
             SelectFrom(i + 1, table),
             \A l \in SelectSlots : l # i => table'[l] = table[l]
      PROVE  SelectInv'
  <2>1. /\ at' \in {"stdin", "scan"}
        /\ at' = "scan" => i' \in SelectSlots /\ i' >= i + 1 /\ table[i'] \in events \cap Fds
    BY <1>1, <1>6, SelectFromStops
  <2>2. ASSUME NEW l \in SelectSlots, l > i, table[l] \in events \cap Fds
        PROVE  Readable(table[l])'
    <3>1. Readable(table[l]) BY <1>1, <1>6, <2>2
    <3>2. l # i BY <1>1, <1>6, <2>2 DEF SelectSlots
    <3>3. table[l] # table[i] BY <1>1, <1>3, <1>6, <2>2, <3>2 DEF TableHolds
    <3>4. \A g \in Fds \ {table[i]} : Readable(g) => Readable(g)'
      BY <1>6 DEF Kept
    <3>5. table'[l] = table[l] BY <1>6, <3>2
    <3>. QED BY <2>2, <3>1, <3>3, <3>4, <3>5 DEF Readable, HasData, HasError, HasEnd
  <2>3. at' = "scan" => /\ i' \in SelectSlots /\ i' > i
                        /\ table'[i'] = table[i'] /\ table[i'] \in events \cap Fds
    BY <1>1, <1>6, <2>1 DEF SelectSlots
  <2>4. at' = "scan" => Readable(table[i])'
    BY <2>2, <2>3
  <2>5. ASSUME at' = "scan", NEW l \in SelectSlots, l > i', table'[l] \in events' \cap Fds
        PROVE  Readable(table[l])'
    <3>1. l > i /\ l # i BY <1>1, <1>6, <2>3, <2>5 DEF SelectSlots
    <3>2. table[l] \in events \cap Fds BY <1>6, <2>5, <3>1
    <3>. QED BY <2>2, <3>1, <3>2
  <2>. QED BY <1>1, <1>6, <2>1, <2>3, <2>4, <2>5 DEF SelectInv
<1>7. CASE SelectData
  <2>1. table[i] \in Fds /\ at = "scan" BY <1>1, <1>7 DEF SelectData
  <2>2. SocketInv' /\ Open' = Open /\ Kept(Fds \ {table[i]})
    BY <1>1, <1>7, <2>1, ReadDataKeeps, ReadErrorKeeps DEF SelectData, Kept
  <2>3. TableHolds' BY <1>1, <1>7, <2>2 DEF TableHolds, SelectData
  <2>. QED BY <1>1, <1>6, <1>7, <2>1, <2>2, <2>3 DEF SelectData
<1>8. CASE SelectEnd
  <2>1. table[i] \in Fds /\ at = "scan" /\ i \in SelectSlots BY <1>1, <1>8 DEF SelectEnd
  <2>2. /\ SocketInv' /\ table[i] \in Open /\ Open' = Open \ {table[i]}
        /\ Kept(Fds \ {table[i]})
    BY <1>1, <1>8, <2>1, ReadEndKeeps DEF SelectEnd
  <2>3. table' = [table EXCEPT ![i] = NoFd] BY <1>8 DEF SelectEnd
  <2>4. TableHolds' BY <1>1, <2>1, <2>2, <2>3, TableLoses
  <2>5. /\ table' \in [SelectSlots -> Fds \cup {NoFd, Stdin}]
        /\ \A l \in SelectSlots : l # i => table'[l] = table[l]
    BY <1>1, <2>3
  <2>. QED BY <1>6, <1>8, <2>1, <2>2, <2>4, <2>5 DEF SelectEnd
<1>9. CASE SelectLine
  <2>1. CASE DieWriting(Listed)
    <3>1. SocketInv' /\ TableHolds' /\ UNCHANGED table /\ at' = "killed"
      BY <1>1, <2>1 DEF DieWriting, netVars, SocketInv, SocketTypes, OnePlace, Open, Waiting,
                        TableHolds
    <3>. QED BY <1>1, <3>1 DEF SelectInv
  <2>2. CASE WriteLine(Listed) /\ at' = "wait" /\ events' = {} /\ UNCHANGED <<i, table>>
    <3>1. SocketInv' /\ Open' = Open BY <1>1, <2>2, WroteKeeps DEF WriteLine
    <3>. QED BY <1>1, <2>2, <3>1 DEF SelectInv, TableHolds
  <2>. QED BY <1>9, <2>1, <2>2 DEF SelectLine
<1>10. CASE SelectNoLine
  <2>1. SocketInv' /\ TableHolds' /\ UNCHANGED table /\ at' = "wait"
    BY <1>1, <1>10 DEF SelectNoLine, netVars, SocketInv, SocketTypes, OnePlace, Open, Waiting,
                        TableHolds
  <2>. QED BY <1>1, <2>1 DEF SelectInv
<1>. QED BY <1>4, <1>5, <1>7, <1>8, <1>9, <1>10 DEF SelectStep

-----------------------------------------------------------------------------
(* epoll/: an event that is served is taken from the rest; what remains    *)
(* holds, whatever was done to the descriptor it was about.                *)
LEMMA EventsRemain ==
    ASSUME EventsHold, server \in {"epoll", "echo"}, NEW f, at # "echo" \/ f = i,
           events' \subseteq events \ {f}, Kept((Fds \cap events) \ {f}),
           Sock \in events' => backlog' # <<>>
    PROVE  EventsHold'
BY DEF EventsHold, Kept

LEMMA EpollKeepsInv ==
    ASSUME Inv, server = "epoll", EpollStep, UNCHANGED <<maxi, server>>
    PROVE  Inv'
<1>1. /\ SocketInv /\ EventsHold /\ count = Cardinality(Open)
      /\ Sock \in events => backlog # <<>>
  BY DEF Inv, EventsHold, EpollInv
<1>2. SUFFICES SocketInv' /\ EventsHold' /\ EpollInv'
  BY DEF Inv, PollInv, SelectInv
<1>3. CASE EpollWait
  <2>1. SocketInv' /\ Open' = Open /\ \A f \in Fds : Readable(f)' = Readable(f)
    BY <1>1, <1>3 DEF EpollWait, netVars, SocketInv, SocketTypes, OnePlace, Open, Waiting,
                      Readable, HasData, HasError, HasEnd
  <2>2. \A f \in events' \cap Fds : Readable(f)'
    BY <1>3, <2>1, FdsFinite DEF EpollWait, EpollReady
  <2>3. Sock \in events' => backlog # <<>>
    BY <1>3, FdsFinite DEF EpollWait, EpollReady, Sock, Stdin
  <2>. QED BY <1>1, <1>3, <2>1, <2>2, <2>3 DEF EpollWait, netVars, epollVars, EventsHold, EpollInv
<1>4. CASE EpollAccept
  <2>. PICK f \in Fds : AcceptAs(f)
    BY <1>4 DEF EpollAccept
  <2>1. /\ SocketInv' /\ f \notin Open /\ Open' = Open \cup {f} /\ Kept(Open)
    BY <1>1, <1>4, AcceptKeeps DEF EpollAccept
  <2>2. Cardinality(Open') = Cardinality(Open) + 1
    BY <2>1, OpenFinite, FS_AddElement
  <2>3. /\ events' = events \ {Sock} /\ at = "events"
        /\ \A g \in events \cap Fds : Readable(g) /\ g \in Open
    BY <1>1, <1>4 DEF EpollAccept, Remain, EventsHold, Readable, HasData, HasError, HasEnd, Open
  <2>4. EventsHold' BY <1>1, <2>1, <2>3, EventsRemain DEF Kept
  <2>. QED BY <1>1, <1>4, <2>1, <2>2, <2>4 DEF EpollAccept, EpollInv
<1>5. ASSUME NEW f \in Fds, EpollData(f) PROVE SocketInv' /\ EventsHold' /\ EpollInv'
  <2>1. SocketInv' /\ Open' = Open /\ UNCHANGED backlog /\ Kept(Fds \ {f})
    BY <1>1, <1>5, ReadDataKeeps DEF EpollData
  <2>2. EventsHold'
    BY <1>1, <1>5, <2>1, EventsRemain DEF EpollData, Remain, Kept
  <2>. QED BY <1>1, <1>5, <2>1, <2>2 DEF EpollData, epollVars, EpollInv
<1>6. ASSUME NEW f \in Fds, EpollError(f) PROVE SocketInv' /\ EventsHold' /\ EpollInv'
  <2>1. SocketInv' /\ Open' = Open BY <1>1, <1>6, ReadErrorKeeps DEF EpollError
  <2>2. EventsHold' BY <1>6 DEF EpollError, Remain, EventsHold
  <2>. QED BY <1>1, <1>6, <2>1, <2>2 DEF EpollError, epollVars, EpollInv
<1>7. ASSUME NEW f \in Fds, EpollEnd(f) PROVE SocketInv' /\ EventsHold' /\ EpollInv'
  <2>1. /\ SocketInv' /\ f \in Open /\ Open' = Open \ {f} /\ UNCHANGED backlog
        /\ Kept(Fds \ {f})
    BY <1>1, <1>7, ReadEndKeeps DEF EpollEnd
  <2>2. EventsHold'
    BY <1>1, <1>7, <2>1, EventsRemain DEF EpollEnd, Remain, Kept
  <2>3. Cardinality(Open') = Cardinality(Open) - 1
    BY <2>1, OpenFinite, FS_RemoveElement
  <2>. QED BY <1>1, <1>7, <2>1, <2>2, <2>3 DEF EpollEnd, EpollInv
<1>8. CASE EpollLine
  <2>1. CASE DieWriting(InArray)
    <3>1. /\ SocketInv' /\ Open' = Open /\ UNCHANGED <<events, backlog>>
          /\ \A f \in Fds : Readable(f)' = Readable(f)
      BY <1>1, <2>1 DEF DieWriting, netVars, SocketInv, SocketTypes, OnePlace, Open, Waiting,
                        Readable, HasData, HasError, HasEnd
    <3>2. \A f \in events \cap Fds : Readable(f)
      BY <1>1, <1>8 DEF EpollLine, EventsHold
    <3>. QED BY <1>1, <1>8, <3>1, <3>2 DEF EpollLine, epollVars, EventsHold, EpollInv
  <2>2. CASE WriteLine(InArray) /\ Remain(events \ {Stdin}) /\ UNCHANGED <<i, table>>
    <3>1. SocketInv' /\ Open' = Open /\ Kept(Fds) /\ UNCHANGED backlog
      BY <1>1, <2>2, WroteKeeps DEF WriteLine
    <3>2. EventsHold'
      BY <1>1, <1>8, <2>2, <3>1, EventsRemain DEF EpollLine, Remain, Kept
    <3>. QED BY <1>1, <1>8, <3>1, <3>2 DEF EpollLine, epollVars, EpollInv
  <2>. QED BY <1>8, <2>1, <2>2 DEF EpollLine
<1>. QED BY <1>3, <1>4, <1>5, <1>6, <1>7, <1>8 DEF EpollStep

-----------------------------------------------------------------------------
(* The echo server: as epoll/, and the descriptor whose echo is under way  *)
(* is the only one that may have nothing to read.                          *)
LEMMA EchoKeepsInv ==
    ASSUME Inv, server = "echo", EchoStep, UNCHANGED <<maxi, epollVars, server>>
    PROVE  Inv'
<1>1. /\ SocketInv /\ EventsHold
      /\ Sock \in events => backlog # <<>>
  BY DEF Inv, EventsHold
<1>2. SUFFICES SocketInv' /\ EventsHold'
  BY DEF Inv, PollInv, SelectInv, EpollInv
<1>3. CASE EchoWait
  <2>1. SocketInv' /\ Open' = Open /\ \A f \in Fds : Readable(f)' = Readable(f)
    BY <1>1, <1>3 DEF EchoWait, netVars, SocketInv, SocketTypes, OnePlace, Open, Waiting,
                      Readable, HasData, HasError, HasEnd
  <2>2. \A f \in events' \cap Fds : Readable(f)'
    BY <1>3, <2>1, FdsFinite DEF EchoWait, EchoReady
  <2>3. Sock \in events' => backlog # <<>>
    BY <1>3, FdsFinite DEF EchoWait, EchoReady, Sock
  <2>. QED BY <1>1, <1>3, <2>1, <2>2, <2>3 DEF EchoWait, netVars, EventsHold
<1>4. CASE EchoAccept
  <2>. PICK f \in Fds : AcceptAs(f)
    BY <1>4 DEF EchoAccept
  <2>1. /\ SocketInv' /\ f \notin Open /\ Open' = Open \cup {f} /\ Kept(Open)
    BY <1>1, <1>4, AcceptKeeps DEF EchoAccept
  <2>2. /\ events' = events \ {Sock} /\ at = "events"
        /\ \A g \in events \cap Fds : Readable(g) /\ g \in Open
    BY <1>1, <1>4 DEF EchoAccept, Others, EventsHold, Readable, HasData, HasError, HasEnd, Open
  <2>3. EventsHold' BY <1>1, <2>1, <2>2, EventsRemain DEF Kept
  <2>. QED BY <2>1, <2>3
<1>5. ASSUME NEW f \in Fds, EchoGone(f) PROVE SocketInv' /\ EventsHold'
  <2>1. SocketInv' /\ UNCHANGED backlog /\ Kept(Fds \ {f})
    BY <1>1, <1>5, ReadErrorKeeps, ReadEndKeeps DEF EchoGone, Kept
  <2>. QED BY <1>1, <1>5, <2>1, EventsRemain DEF EchoGone, Others, Kept
<1>6. ASSUME NEW f \in Fds, EchoRead(f) PROVE SocketInv' /\ EventsHold'
  <2>1. SocketInv' /\ UNCHANGED backlog /\ Kept(Fds \ {f})
    BY <1>1, <1>6, ReadDataKeeps DEF EchoRead
  <2>2. \A g \in events \cap Fds : Readable(g)
    BY <1>1, <1>6 DEF EchoRead, EventsHold
  <2>. QED BY <1>1, <1>6, <2>1, <2>2 DEF EchoRead, EventsHold, Kept
<1>7. CASE EchoWrite
  <2>1. SocketInv' /\ Kept(Fds) /\ UNCHANGED backlog
    BY <1>1, <1>7, WroteKeeps DEF EchoWrite
  <2>2. events' \subseteq events \ {i} BY <1>7 DEF EchoWrite, Others
  <2>. QED BY <1>1, <2>1, <2>2, EventsRemain DEF Kept
<1>8. CASE EchoDies
  <2>1. /\ SocketInv' /\ UNCHANGED <<events, backlog, i>>
        /\ \A f \in Fds : Readable(f)' = Readable(f)
    BY <1>1, <1>8 DEF EchoDies, netVars, SocketInv, SocketTypes, OnePlace, Open, Waiting,
                      Readable, HasData, HasError, HasEnd
  <2>2. PICK f \in Open : \/ OnceTo(i)[f] > 0 /\ conn[desc[f]] = "reset"
                          \/ OnceTo(i)[f] > 1 /\ conn[desc[f]] = "closed"
    BY <1>8 DEF EchoDies, SigPipe
  <2>3. f \in Fds /\ OnceTo(i)[f] = IF f = i THEN 1 ELSE 0 BY DEF OnceTo, Open
  <2>4. f = i /\ conn[desc[f]] = "reset" BY <2>2, <2>3
  <2>5. Readable(i) BY <2>4 DEF Readable, HasError
  <2>. QED BY <1>1, <2>1, <2>5 DEF EventsHold
<1>. QED BY <1>3, <1>4, <1>5, <1>6, <1>7, <1>8 DEF EchoStep

-----------------------------------------------------------------------------
LEMMA InvStep == Inv /\ [Next]_vars => Inv'
<1>. SUFFICES ASSUME Inv, [Next]_vars PROVE Inv'
  OBVIOUS
<1>1. CASE ServerStep
  <2>. USE <1>1
  <2>1. CASE server = "poll" BY <2>1, PollKeepsInv DEF ServerStep
  <2>2. CASE server = "select" BY <2>2, SelectKeepsInv DEF ServerStep
  <2>3. CASE server = "epoll" BY <2>3, EpollKeepsInv DEF ServerStep
  <2>4. CASE server = "echo" BY <2>4, EchoKeepsInv DEF ServerStep
  <2>5. server \in {"poll", "select", "epoll", "echo"} BY DEF Inv
  <2>. QED BY <2>1, <2>2, <2>3, <2>4, <2>5
<1>2. CASE ClientStep /\ UNCHANGED <<maxi, epollVars, server>>
  BY <1>2, ClientsKeepInv
<1>3. CASE UNCHANGED vars
  <2>1. UNCHANGED <<desc, conn, backlog, pending, at, i, table, events, maxi, count, server>>
    BY <1>3 DEF vars, socketVars, netVars, epollVars
  <2>2. Open' = Open /\ \A f \in Fds : Readable(f)' = Readable(f)
    BY <2>1 DEF Open, Readable, HasData, HasError, HasEnd
  <2>3. SocketInv' BY <2>1, <2>2 DEF Inv, SocketInv, SocketTypes, OnePlace, Waiting
  <2>4. TableHolds' = TableHolds BY <2>1, <2>2 DEF TableHolds
  <2>5. PollInv' BY <2>1, <2>4 DEF Inv, PollInv
  <2>6. SelectInv'
    <3>. SUFFICES ASSUME server = "select" PROVE SelectInv'
      BY <2>1 DEF SelectInv
    <3>1. at = "accept" => \A f \in events' \cap Fds : Readable(f)'
      BY <2>1, <2>2 DEF Inv, SelectInv
    <3>2. ASSUME at = "scan"
          PROVE  /\ Readable(table[i])'
                 /\ \A l \in SelectSlots :
                       l > i /\ table[l] \in events \cap Fds => Readable(table[l])'
      <4>1. i \in SelectSlots /\ table[i] \in Fds /\ Readable(table[i])
        BY <3>2 DEF Inv, SelectInv
      <4>2. Readable(table[i])' = Readable(table[i])
        BY <2>1 DEF Open, Readable, HasData, HasError, HasEnd
      <4>3. ASSUME NEW l \in SelectSlots, l > i, table[l] \in events \cap Fds
            PROVE  Readable(table[l])'
        <5>1. Readable(table[l]) BY <3>2, <4>3 DEF Inv, SelectInv
        <5>. QED BY <2>1, <5>1 DEF Open, Readable, HasData, HasError, HasEnd
      <4>. QED BY <4>1, <4>2, <4>3
    <3>. QED BY <2>1, <2>4, <3>1, <3>2 DEF Inv, SelectInv
  <2>7. EventsHold' BY <2>1, <2>2 DEF Inv, EventsHold
  <2>8. EpollInv' BY <2>1, <2>2 DEF Inv, EpollInv
  <2>. QED BY <2>1, <2>3, <2>5, <2>6, <2>7, <2>8 DEF Inv
<1>. QED BY <1>1, <1>2, <1>3 DEF Next

-----------------------------------------------------------------------------
(* Induction over natural numbers: a set of them has a smallest one.       *)
LEMMA Smallest ==
    ASSUME NEW T, T \subseteq Nat, NEW x \in T
    PROVE  \E y \in T : \A z \in T : y <= z
<1>. DEFINE R == {p \in Nat \X Nat : p[1] < p[2]}
<1>1. OpToRel(<, Nat) = R BY DEF OpToRel
<1>2. IsWellFoundedOn(R, Nat) BY <1>1, NatLessThanWellFounded
<1>3. PICK y \in T : \A z \in T : <<z, y>> \notin R BY <1>2, WFMin
<1>4. \A z \in T : ~(z < y) BY <1>3
<1>5. \A z \in T : y <= z BY <1>4
<1>. QED BY <1>5

(* What the array of epoll/ may hold, and one round of the removal: the    *)
(* entry k is cleared if it is f, and what follows is moved.               *)
Cells   == Fds \cup {NoFd} \cup Garbage
Arrays  == [0.._MAX_NUM_-1 -> Cells]
Clear(f, t, k) == IF t[k] = f THEN [t EXCEPT ![k] = NoFd] ELSE t
Shift(t, k)    == [m \in DOMAIN t |-> IF m \in k..count-1 THEN t[m + 1] ELSE t[m]]
Round(f, t, k) == Shift(Clear(f, t, k), k)

(* A round changes nothing from count on, and leaves in the entry before   *)
(* it what is there.                                                       *)
LEMMA RoundKeeps ==
    ASSUME NEW f, NEW t \in Arrays, NEW k \in Nat, k < count, count \in Nat,
           count < _MAX_NUM_
    PROVE  /\ Round(f, t, k) \in Arrays
           /\ \A m \in count.._MAX_NUM_-1 : Round(f, t, k)[m] = t[m]
           /\ Round(f, t, k)[count - 1] = t[count]
<1>0. _MAX_NUM_ \in Nat BY ServersAssumption
<1>. DEFINE u == Clear(f, t, k)
<1>1. k \in 0.._MAX_NUM_-1 /\ count \in 0.._MAX_NUM_-1 /\ count - 1 \in k..count-1
      /\ count - 1 \in 0.._MAX_NUM_-1
  BY <1>0
<1>2. u \in Arrays BY <1>1 DEF Clear, Arrays, Cells
<1>3. \A m \in 0.._MAX_NUM_-1 : m # k => u[m] = t[m]
  BY <1>1 DEF Clear, Arrays
<1>4. Round(f, t, k) = [m \in 0.._MAX_NUM_-1 |-> IF m \in k..count-1 THEN u[m + 1] ELSE u[m]]
  BY <1>2 DEF Round, Shift, Arrays
<1>. HIDE DEF u
<1>5. \A m \in 0.._MAX_NUM_-1 : m \in k..count-1 => m + 1 \in 0.._MAX_NUM_-1
  BY <1>0
<1>6. Round(f, t, k) \in Arrays BY <1>2, <1>4, <1>5 DEF Arrays
<1>7. ASSUME NEW m \in count.._MAX_NUM_-1 PROVE Round(f, t, k)[m] = t[m]
  <2>1. m \in 0.._MAX_NUM_-1 /\ m \notin k..count-1 /\ m # k BY <1>0
  <2>. QED BY <1>3, <1>4, <2>1
<1>8. Round(f, t, k)[count - 1] = t[count]
  <2>1. Round(f, t, k)[count - 1] = u[(count - 1) + 1] BY <1>1, <1>4
  <2>2. (count - 1) + 1 = count /\ count # k BY <1>0
  <2>. QED BY <1>1, <1>3, <2>1, <2>2
<1>. QED BY <1>6, <1>7, <1>8

(* The rounds, one after the other, are defined for each index.            *)
Rounds(f, n, g) == /\ g[0] = table
                   /\ \A k \in 1..n : g[k] = Round(f, g[k - 1], k - 1)

LEMMA RoundsExist ==
    ASSUME NEW f, count \in Nat
    PROVE  \E g : g = [k \in 0..count |-> IF k = 0 THEN table
                                          ELSE Round(f, g[k - 1], k - 1)]
<1>. DEFINE Has(n) == \E g : DOMAIN g = 0..n /\ Rounds(f, n, g)
           Bad == {n \in 0..count : ~Has(n)}
<1>1. Has(count)
  <2>1. SUFFICES ASSUME count \in Bad PROVE FALSE
    OBVIOUS
  <2>2. Bad \subseteq Nat OBVIOUS
  <2>3. PICK n \in Bad : \A z \in Bad : n <= z BY <2>1, <2>2, Smallest
  <2>4. n \in 0..count /\ ~Has(n) OBVIOUS
  <2>5. CASE n = 0
    <3>1. Rounds(f, 0, [k \in 0..0 |-> table]) BY DEF Rounds
    <3>. QED BY <2>4, <2>5, <3>1
  <2>6. CASE n # 0
    <3>1. n - 1 \in 0..count /\ n - 1 \notin Bad BY <2>3, <2>4, <2>6
    <3>2. Has(n - 1) BY <3>1
    <3>3. PICK g : DOMAIN g = 0..n-1 /\ Rounds(f, n - 1, g) BY <3>2
    <3>. DEFINE h == [k \in 0..n |-> IF k = n THEN Round(f, g[n - 1], n - 1) ELSE g[k]]
    <3>4. n \in Nat /\ n > 0 BY <2>4, <2>6
    <3>5. h[0] = table BY <3>3, <3>4 DEF Rounds
    <3>6. ASSUME NEW k \in 1..n PROVE h[k] = Round(f, h[k - 1], k - 1)
      <4>1. k \in 0..n /\ k - 1 \in 0..n /\ k - 1 # n BY <3>4
      <4>2. h[k - 1] = g[k - 1] BY <4>1
      <4>3. CASE k = n BY <4>1, <4>2, <4>3
      <4>4. CASE k # n
        <5>1. k \in 1..n-1 BY <3>4, <4>4
        <5>2. h[k] = g[k] BY <4>1, <4>4
        <5>. QED BY <3>3, <4>2, <5>1, <5>2 DEF Rounds
      <4>. QED BY <4>3, <4>4
    <3>7. Rounds(f, n, h) BY <3>5, <3>6 DEF Rounds
    <3>. QED BY <2>4, <3>7
  <2>. QED BY <2>5, <2>6
<1>2. PICK g : DOMAIN g = 0..count /\ Rounds(f, count, g) BY <1>1
<1>. DEFINE e == [k \in 0..count |-> IF k = 0 THEN table ELSE Round(f, g[k - 1], k - 1)]
<1>3. \A k \in 0..count : k = 0 \/ k \in 1..count OBVIOUS
<1>4. \A k \in 0..count : e[k] = IF k = 0 THEN table ELSE Round(f, g[k - 1], k - 1)
  OBVIOUS
<1>5. \A k \in 0..count : (IF k = 0 THEN table ELSE Round(f, g[k - 1], k - 1)) = g[k]
  BY <1>2, <1>3 DEF Rounds
<1>6. \A k \in 0..count : e[k] = g[k] BY <1>4, <1>5
<1>7. \A k \in 0..count : k # 0 => k - 1 \in 0..count OBVIOUS
<1>8. \A k \in 0..count :
         (IF k = 0 THEN table ELSE Round(f, g[k - 1], k - 1))
            = (IF k = 0 THEN table ELSE Round(f, e[k - 1], k - 1))
  BY <1>6, <1>7
<1>9. e = [k \in 0..count |-> IF k = 0 THEN table ELSE Round(f, e[k - 1], k - 1)]
  BY <1>8
<1>. QED BY <1>9

(* A client that leaves: from count on the array stays as it was, and the  *)
(* last entry in use becomes the one behind it.                            *)
LEMMA WithoutKeeps ==
    ASSUME NEW f, table \in Arrays, count \in Nat, 0 < count, count < _MAX_NUM_
    PROVE  /\ Without(f) \in Arrays
           /\ \A m \in count.._MAX_NUM_-1 : Without(f)[m] = table[m]
           /\ Without(f)[count - 1] = table[count]
<1>. DEFINE pass == CHOOSE g : g = [k \in 0..count |-> IF k = 0 THEN table
                                                      ELSE Round(f, g[k - 1], k - 1)]
<1>1. Without(f) = pass[count] BY DEF Without, Round, Shift, Clear
<1>2. pass = [k \in 0..count |-> IF k = 0 THEN table ELSE Round(f, pass[k - 1], k - 1)]
  BY RoundsExist
<1>. HIDE DEF pass
<1>3. pass[0] = table BY <1>2
<1>4. \A k \in 1..count : pass[k] = Round(f, pass[k - 1], k - 1) BY <1>2
<1>. DEFINE Good(k) == /\ pass[k] \in Arrays
                       /\ \A m \in count.._MAX_NUM_-1 : pass[k][m] = table[m]
           Bad == {k \in 0..count : ~Good(k)}
<1>5. \A k \in 0..count : Good(k)
  <2>1. SUFFICES ASSUME NEW j \in Bad PROVE FALSE
    OBVIOUS
  <2>2. Bad \subseteq Nat OBVIOUS
  <2>3. PICK k \in Bad : \A z \in Bad : k <= z BY <2>2, Smallest
  <2>4. k \in 0..count /\ ~Good(k) OBVIOUS
  <2>5. k # 0 BY <1>3, <2>4
  <2>6. k - 1 \in 0..count /\ k - 1 \notin Bad BY <2>3, <2>4, <2>5
  <2>7. Good(k - 1) BY <2>6
  <2>8. k \in 1..count /\ k - 1 \in Nat /\ k - 1 < count BY <2>4, <2>5
  <2>9. Good(k)
    <3>1. pass[k] = Round(f, pass[k - 1], k - 1) BY <1>4, <2>8
    <3>. QED BY <2>7, <2>8, <3>1, RoundKeeps
  <2>. QED BY <2>4, <2>9
<1>6. count \in 0..count /\ count \in 1..count /\ count - 1 \in 0..count
      /\ count - 1 \in Nat /\ count - 1 < count /\ count \in count.._MAX_NUM_-1
  BY ServersAssumption
<1>7. pass[count] = Round(f, pass[count - 1], count - 1) BY <1>4, <1>6
<1>8. pass[count][count - 1] = pass[count - 1][count]
  BY <1>5, <1>6, <1>7, RoundKeeps
<1>9. pass[count - 1][count] = table[count] BY <1>5, <1>6
<1>. QED BY <1>1, <1>5, <1>6, <1>8, <1>9
-----------------------------------------------------------------------------
(* epoll/: the part of the array beyond the clients is free. This holds as *)
(* long as memset has cleared more entries than there can be clients: the  *)
(* removal of a client then moves a free entry to the end of those in use. *)
ArrayInv == server = "epoll" => /\ table \in Arrays
                                /\ \A k \in count..Set-1 : table[k] = NoFd

LEMMA CountBounded ==
    ASSUME SocketInv, count = Cardinality(Open)
    PROVE  count \in Nat /\ count <= Cardinality(Clients) /\ Cardinality(Clients) < _MAX_NUM_
<1>1. Open \subseteq Fds BY DEF Open
<1>2. Cardinality(Clients) \in Nat BY SocketAssumption, FS_CardinalityType
<1>3. Cardinality(Fds) = Cardinality(Clients) BY <1>2, FS_Interval DEF Fds
<1>. QED BY <1>1, <1>2, <1>3, FdsFinite, FS_Subset, OpenFinite, ServersAssumption

LEMMA AcceptKeepsArray ==
    ASSUME table \in Arrays, count \in Nat, NEW f \in Fds, EpollInsert(f),
           \A k \in count..Set-1 : table[k] = NoFd
    PROVE  table' \in Arrays /\ \A k \in count+1..Set-1 : table'[k] = NoFd
<1>0. {_MAX_NUM_, Searched, Set} \subseteq Nat /\ Set <= _MAX_NUM_ /\ Searched <= _MAX_NUM_
  BY ServersAssumption
<1>. DEFINE free == {l \in 0..Searched-1 : table[l] = NoFd}
           first(k) == k \in free /\ \A l \in free : k <= l
<1>1. table' = [k \in 0.._MAX_NUM_-1 |-> IF first(k) THEN f ELSE table[k]]
  BY DEF EpollInsert, Arrays
<1>2. ASSUME NEW k \in count+1..Set-1 PROVE ~first(k)
  <2>1. SUFFICES ASSUME k \in free, \A l \in free : k <= l PROVE FALSE
    OBVIOUS
  <2>2. count \in count..Set-1 /\ count \in 0..Searched-1 BY <1>0, <2>1
  <2>3. count \in free BY <2>2
  <2>. QED BY <2>1, <2>3, <1>0
<1>. HIDE DEF first
<1>3. \A k \in count+1..Set-1 : k \in count..Set-1 /\ k \in 0.._MAX_NUM_-1 BY <1>0
<1>4. table' \in Arrays BY <1>1 DEF Arrays, Cells
<1>. QED BY <1>1, <1>2, <1>3, <1>4

LEMMA ArrayStep ==
    ASSUME Cardinality(Clients) < Set
    PROVE  Inv /\ ArrayInv /\ [Next]_vars => ArrayInv'
<1>. SUFFICES ASSUME Inv, ArrayInv, [Next]_vars, server = "epoll" PROVE ArrayInv'
  BY DEF ArrayInv, Next, ServerStep, vars
<1>1. /\ SocketInv /\ count = Cardinality(Open)
      /\ table \in Arrays /\ \A k \in count..Set-1 : table[k] = NoFd
  BY DEF Inv, EpollInv, ArrayInv
<1>2. /\ count \in Nat /\ count <= Cardinality(Clients)
      /\ Cardinality(Clients) < _MAX_NUM_ /\ Cardinality(Clients) \in Nat
  BY <1>1, CountBounded, SocketAssumption, FS_CardinalityType
<1>3. CASE UNCHANGED <<table, count, server>>
  BY <1>1, <1>3 DEF ArrayInv
<1>4. ASSUME NEW f \in Fds, EpollInsert(f), count' = count + 1 PROVE ArrayInv'
  BY <1>1, <1>2, <1>4, AcceptKeepsArray DEF ArrayInv
<1>5. ASSUME NEW f \in Fds, EpollEnd(f) PROVE ArrayInv'
  <2>0. Set \in Nat /\ Set <= _MAX_NUM_ /\ _MAX_NUM_ \in Nat BY ServersAssumption
  <2>1. f \in Open BY <1>5 DEF EpollEnd, ReadEnd, HasEnd
  <2>2. count > 0
    <3>1. Cardinality(Open) # 0 BY <2>1, OpenFinite, FS_EmptySet
    <3>. QED BY <1>1, <1>2, <3>1
  <2>3. table' = Without(f) /\ count' = count - 1 BY <1>5 DEF EpollEnd
  <2>4. count < _MAX_NUM_ /\ count \in count..Set-1 BY <1>2, <2>0
  <2>5. /\ Without(f) \in Arrays
        /\ \A m \in count.._MAX_NUM_-1 : Without(f)[m] = table[m]
        /\ Without(f)[count - 1] = table[count]
    BY <1>1, <1>2, <2>2, <2>4, WithoutKeeps
  <2>6. ASSUME NEW k \in count-1..Set-1 PROVE Without(f)[k] = NoFd
    <3>1. CASE k = count - 1 BY <1>1, <2>4, <2>5, <3>1
    <3>2. CASE k # count - 1
      <4>1. k \in count..Set-1 /\ k \in count.._MAX_NUM_-1 BY <1>2, <2>0, <3>2
      <4>. QED BY <1>1, <2>5, <4>1
    <3>. QED BY <3>1, <3>2
  <2>. QED BY <2>3, <2>5, <2>6 DEF ArrayInv
<1>6. CASE EpollStep /\ UNCHANGED server
  <2>1. CASE EpollAccept BY <1>4, <2>1 DEF EpollAccept
  <2>2. CASE EpollLine
    BY <1>3, <1>6, <2>2 DEF EpollLine, DieWriting, epollVars
  <2>3. CASE EpollWait BY <1>3, <1>6, <2>3 DEF EpollWait, epollVars
  <2>4. ASSUME NEW f \in Fds, EpollData(f) \/ EpollError(f) PROVE ArrayInv'
    BY <1>3, <1>6, <2>4 DEF EpollData, EpollError, epollVars
  <2>. QED BY <1>5, <1>6, <2>1, <2>2, <2>3, <2>4 DEF EpollStep
<1>7. CASE ClientStep /\ UNCHANGED <<maxi, epollVars, server>>
  BY <1>3, <1>7 DEF ClientStep, epollVars
<1>8. CASE UNCHANGED vars
  BY <1>3, <1>8 DEF vars, socketVars, epollVars
<1>. QED BY <1>6, <1>7, <1>8 DEF Next, ServerStep

LEMMA ArrayStarts == Init => ArrayInv
<1>. SUFFICES ASSUME Init, server = "epoll" PROVE ArrayInv
  BY DEF ArrayInv
<1>1. EpollInit BY DEF Init
<1>2. PICK rest \in [Set.._MAX_NUM_-1 -> Garbage] :
         table = [k \in 0.._MAX_NUM_-1 |-> IF k < Set THEN NoFd ELSE rest[k]]
  BY <1>1 DEF EpollInit
<1>3. Set \in Nat /\ _MAX_NUM_ \in Nat /\ Set <= _MAX_NUM_ BY ServersAssumption
<1>4. \A k \in 0.._MAX_NUM_-1 : ~(k < Set) => k \in Set.._MAX_NUM_-1 BY <1>3
<1>5. table \in Arrays BY <1>2, <1>4 DEF Arrays, Cells
<1>6. count = 0 BY <1>1 DEF EpollInit
<1>7. \A k \in 0..Set-1 : k \in 0.._MAX_NUM_-1 /\ k < Set BY <1>3
<1>8. \A k \in 0..Set-1 : table[k] = NoFd BY <1>2, <1>7
<1>. QED BY <1>5, <1>6, <1>8 DEF ArrayInv

-----------------------------------------------------------------------------
(* epoll/, until a client leaves others behind, and while there are no     *)
(* more than memset has cleared entries for: the first count entries of    *)
(* the array are the open sockets, each once, and the next one is free.    *)
InOrder == server = "epoll" /\ ~shifted /\ count <= Set

FirstCount ==
    /\ table \in Arrays
    /\ \A k \in count..Set-1 : table[k] = NoFd
    /\ \A k \in 0..count-1 : table[k] \in Open
    /\ \A f \in Open : \E k \in 0..count-1 : table[k] = f
    /\ \A k, l \in 0..count-1 : table[k] = table[l] => k = l

LineInv == /\ typed \in [all : Nat, left : Int]
           /\ InOrder => FirstCount

(* Nobody is connected at first.                                           *)
LEMMA LineStarts == ASSUME 1 < Set PROVE Init => LineInv
<1>. SUFFICES ASSUME Init PROVE LineInv
  OBVIOUS
<1>1. typed \in [all : Nat, left : Int]
  BY DEF Init, PollInit, SelectInit, EpollInit, EchoInit, SocketInit
<1>2. ASSUME server = "epoll" PROVE FirstCount
  <2>1. SocketInit /\ count = 0 BY <1>2 DEF Init, EpollInit
  <2>2. Open = {} BY <2>1, SocketStarts
  <2>3. ArrayInv BY ArrayStarts
  <2>. QED BY <1>2, <2>1, <2>2, <2>3 DEF ArrayInv, FirstCount
<1>. QED BY <1>1, <1>2 DEF LineInv, InOrder

(* A new client is put behind the others.                                  *)
LEMMA AcceptInOrder ==
    ASSUME SocketInv, count = Cardinality(Open), count \in Nat, count < Set,
           Set <= Searched, FirstCount, backlog # <<>>,
           NEW f \in Fds, AcceptAs(f), EpollInsert(f), UNCHANGED pending,
           count' = count + 1
    PROVE  FirstCount'
<1>0. /\ _MAX_NUM_ \in Nat /\ Searched \in Nat /\ Set \in Nat
      /\ Set <= _MAX_NUM_ /\ Searched <= _MAX_NUM_
  BY ServersAssumption
<1>1. f \notin Open /\ Open' = Open \cup {f} BY AcceptKeeps
<1>. DEFINE free == {l \in 0..Searched-1 : table[l] = NoFd}
<1>2. \A k \in 0..count-1 : k \notin free
  BY FdsFinite DEF FirstCount, Open
<1>3. count \in free
  <2>1. count \in count..Set-1 /\ count \in 0..Searched-1 BY <1>0
  <2>. QED BY <2>1 DEF FirstCount
<1>4. \A k \in 0.._MAX_NUM_-1 :
         (k \in free /\ \A l \in free : k <= l) <=> k = count
  <2>1. \A l \in free : l \in Nat /\ count <= l BY <1>0, <1>2
  <2>. QED BY <1>3, <2>1, <1>0
<1>. HIDE DEF free
<1>5. table' = [k \in 0.._MAX_NUM_-1 |-> IF k = count THEN f ELSE table[k]]
  <2>1. table' = [k \in 0.._MAX_NUM_-1 |->
                    IF k \in free /\ \A l \in free : k <= l THEN f ELSE table[k]]
    BY DEF EpollInsert, FirstCount, Arrays, free
  <2>. QED BY <1>4, <2>1
<1>6. /\ table'[count] = f
      /\ \A k \in 0.._MAX_NUM_-1 : k # count => table'[k] = table[k]
  BY <1>0, <1>5
<1>7. table' \in Arrays /\ \A k \in count+1..Set-1 : table'[k] = NoFd
  BY AcceptKeepsArray DEF FirstCount
<1>8. \A k \in 0..count : k \in 0.._MAX_NUM_-1 /\ (k = count \/ k \in 0..count-1)
  BY <1>0
<1>9. \A k \in 0..count : table'[k] \in Open'
  BY <1>1, <1>6, <1>8 DEF FirstCount
<1>10. \A g \in Open' : \E k \in 0..count : table'[k] = g
  <2>. TAKE g \in Open'
  <2>1. CASE g = f BY <1>6, <2>1
  <2>2. CASE g # f
    <3>1. PICK k \in 0..count-1 : table[k] = g BY <1>1, <2>2 DEF FirstCount
    <3>2. k \in 0..count /\ k # count OBVIOUS
    <3>. QED BY <1>6, <1>8, <3>1, <3>2
  <2>. QED BY <2>1, <2>2
<1>11. \A k, l \in 0..count : table'[k] = table'[l] => k = l
  <2>. TAKE k, l \in 0..count
  <2>1. \A m \in 0..count : m # count => table'[m] = table[m] /\ table[m] # f
    BY <1>1, <1>6, <1>8 DEF FirstCount
  <2>2. CASE k = count \/ l = count BY <1>6, <2>1, <2>2
  <2>3. CASE k # count /\ l # count
    <3>1. k \in 0..count-1 /\ l \in 0..count-1 BY <1>8, <2>3
    <3>. QED BY <2>1, <2>3, <3>1 DEF FirstCount
  <2>. QED BY <2>2, <2>3
<1>12. (0..count-1)' = 0..count BY <1>0
<1>. QED BY <1>7, <1>9, <1>10, <1>11, <1>12 DEF FirstCount

(* Lines are read where they are written.                                  *)
LEMMA LinesRead ==
    ASSUME [Next]_vars
    PROVE  \/ UNCHANGED typed \/ TypeLine
           \/ server = "poll" /\ LineRead
           \/ server = "select" /\ LineRead /\ (at' = "killed" \/ WriteLine(Listed))
           \/ server = "epoll" /\ LineRead /\ (at' = "killed" \/ WriteLine(InArray))
<1>1. CASE UNCHANGED vars BY <1>1 DEF vars, socketVars
<1>2. CASE ClientStep
  BY <1>2 DEF ClientStep, Connect, Send, Receive, Close
<1>3. CASE server = "poll" /\ PollStep
  BY <1>3 DEF PollStep, Poll, PollBeyond, PollAccept, PollNoAccept, PollLine,
    PollNoLine, PollData, PollEnd, ReadData, ReadError, ReadEnd, DieWriting,
    WriteLine
<1>4. CASE server = "select" /\ SelectStep
  BY <1>4 DEF SelectStep, Select, SelectAccept, SelectLine, SelectNoLine,
    SelectData, SelectEnd, ReadData, ReadError, ReadEnd, DieWriting, WriteLine
<1>5. CASE server = "epoll" /\ EpollStep
  BY <1>5 DEF EpollStep, EpollWait, EpollAccept, EpollLine, EpollData,
    EpollError, EpollEnd, ReadData, ReadError, ReadEnd, DieWriting, WriteLine
<1>6. CASE server = "echo" /\ EchoStep
  BY <1>6 DEF EchoStep, EchoWait, EchoAccept, EchoWrite, EchoDies, EchoGone,
    EchoRead, ReadData, ReadError, ReadEnd
<1>. QED BY <1>1, <1>2, <1>3, <1>4, <1>5, <1>6 DEF Next, ServerStep

(* Every step keeps it.  The only client leaves: the free entry behind it  *)
(* takes its place.                                                        *)
LEMMA LineStep ==
    ASSUME 1 < Set, Set <= Searched
    PROVE  Inv /\ LineInv /\ [Next]_vars => LineInv'
<1>. SUFFICES ASSUME Inv, LineInv, [Next]_vars PROVE LineInv'
  OBVIOUS
<1>1. typed' \in [all : Nat, left : Int]
  <2>1. CASE UNCHANGED typed BY <2>1 DEF LineInv
  <2>2. CASE LineRead
    BY <2>2 DEF LineRead, LineInv
  <2>3. CASE TypeLine BY <2>3 DEF TypeLine, LineInv
  <2>. QED BY <2>1, <2>2, <2>3, LinesRead
<1>2. ASSUME InOrder' PROVE FirstCount'
  <2>1. /\ server' = "epoll" /\ ~shifted' /\ count' <= Set /\ server = "epoll"
    BY <1>2 DEF InOrder, Next, ServerStep, vars
  <2>2. Inv' BY InvStep
  <2>3. /\ SocketInv /\ count = Cardinality(Open) /\ count \in Nat
        /\ count' = Cardinality(Open') /\ IsFiniteSet(Open') /\ count' \in Nat
    <3>1. SocketInv /\ count = Cardinality(Open) /\ count' = Cardinality(Open')
      BY <2>1, <2>2 DEF Inv, EpollInv
    <3>2. Open' \in SUBSET Fds BY DEF Open
    <3>3. IsFiniteSet(Open') BY <3>2, FdsFinite, FS_Subset
    <3>4. Cardinality(Open') \in Nat BY <3>3, FS_CardinalityType
    <3>. QED BY <3>1, <3>3, <3>4, CountBounded
  <2>4. ASSUME UNCHANGED <<table, epollVars>>, Open' = Open PROVE FirstCount'
    BY <1>2, <2>1, <2>4 DEF LineInv, FirstCount, InOrder, epollVars
  <2>5. CASE ClientStep /\ UNCHANGED epollVars
    BY <2>3, <2>4, <2>5, ClientKeeps DEF ClientStep
  <2>6. CASE UNCHANGED vars
    BY <2>4, <2>6 DEF vars, socketVars, netVars, epollVars, Open
  <2>7. CASE EpollWait BY <2>4, <2>7 DEF EpollWait, netVars, Open
  <2>8. CASE EpollAccept
    <3>1. PICK f \in Fds : AcceptAs(f) /\ EpollInsert(f) BY <2>8 DEF EpollAccept
    <3>2. /\ count' = count + 1 /\ UNCHANGED <<pending, shifted>>
          /\ backlog # <<>>
      BY <2>1, <2>8 DEF EpollAccept, Inv, EventsHold
    <3>3. count < Set /\ InOrder
      BY <2>1, <2>3, <3>2, ServersAssumption DEF InOrder
    <3>. QED BY <2>3, <3>1, <3>2, <3>3, AcceptInOrder DEF LineInv
  <2>9. CASE EpollLine
    <3>1. UNCHANGED <<table, epollVars, desc>>
      BY <2>9 DEF EpollLine, DieWriting, WriteLine, netVars
    <3>. QED BY <2>4, <3>1 DEF Open
  <2>10. ASSUME NEW f \in Fds, EpollData(f) \/ EpollError(f) PROVE FirstCount'
    <3>1. UNCHANGED <<table, epollVars, desc>>
      BY <2>10 DEF EpollData, EpollError, ReadData, ReadError
    <3>. QED BY <2>4, <3>1 DEF Open
  <2>11. ASSUME NEW f \in Fds, EpollEnd(f) PROVE FirstCount'
    <3>0. Set \in Nat /\ Set <= _MAX_NUM_ /\ _MAX_NUM_ \in Nat BY ServersAssumption
    <3>1. /\ table' = Without(f) /\ count' = count - 1 /\ ~shifted /\ ~(count > 1)
      BY <2>1, <2>11 DEF EpollEnd
    <3>2. count = 1 /\ count' = 0 BY <2>3, <3>1
    <3>3. FirstCount BY <2>1, <3>0, <3>1, <3>2 DEF LineInv, InOrder
    <3>4. /\ Without(f) \in Arrays
          /\ \A m \in count.._MAX_NUM_-1 : Without(f)[m] = table[m]
          /\ Without(f)[count - 1] = table[count]
      BY <2>3, <3>0, <3>2, <3>3, WithoutKeeps DEF FirstCount
    <3>5. \A k \in 1..Set-1 : k \in count..Set-1 /\ k \in count.._MAX_NUM_-1
      BY <3>0, <3>2
    <3>6. \A k \in 1..Set-1 : table'[k] = NoFd
      BY <3>1, <3>3, <3>4, <3>5 DEF FirstCount
    <3>7. table'[0] = NoFd
      <4>1. 1 \in count..Set-1 BY <3>0, <3>2
      <4>2. table[1] = NoFd BY <3>3, <4>1 DEF FirstCount
      <4>3. Without(f)[0] = table[1] BY <3>2, <3>4
      <4>. QED BY <3>1, <4>2, <4>3
    <3>8. \A k \in 0..Set-1 : k = 0 \/ k \in 1..Set-1 BY <3>0
    <3>9. Open' = {} BY <2>3, <3>2, FS_EmptySet
    <3>10. table' \in Arrays BY <3>1, <3>4
    <3>. QED BY <3>2, <3>6, <3>7, <3>8, <3>9, <3>10 DEF FirstCount
  <2>. QED BY <2>1, <2>5, <2>6, <2>7, <2>8, <2>9, <2>10, <2>11
    DEF Next, ServerStep, EpollStep
<1>. QED BY <1>1, <1>2 DEF LineInv

-----------------------------------------------------------------------------
(* Exactly one entry of an array holds f.                                  *)
LEMMA OneEntry ==
    ASSUME NEW S, NEW t, NEW f, NEW k \in S, t[k] = f,
           \A l \in S : t[l] = f => l = k
    PROVE  Cardinality({l \in S : t[l] = f}) = 1
<1>1. {l \in S : t[l] = f} = {k} OBVIOUS
<1>. QED BY <1>1, FS_Singleton

(* A line that is written once to each open socket is there for every      *)
(* connected client.                                                       *)
LEMMA WrittenOnce ==
    ASSUME SocketInv, NEW times, Wrote(times), \A f \in Open : times[f] = 1,
           NEW f \in Open, conn[desc[f]] = "on"
    PROVE  got'[desc[f]] = got[desc[f]] + 1
<1>. DEFINE Times(c) == IF \E g \in Open : desc[g] = c
                        THEN times[CHOOSE g \in Open : desc[g] = c] ELSE 0
<1>1. desc[f] \in Clients BY DEF SocketInv, SocketTypes, Open
<1>2. (CHOOSE g \in Open : desc[g] = desc[f]) = f BY DEF SocketInv, OnePlace
<1>3. Times(desc[f]) = 1 BY <1>2
<1>4. got' = [c \in Clients |-> IF conn[c] = "on" THEN got[c] + Times(c) ELSE got[c]]
  BY DEF Wrote
<1>. HIDE DEF Times
<1>. QED BY <1>1, <1>3, <1>4

(* Where all are served, the line that is read is written to each.         *)
LEMMA AllWritten ==
    ASSUME Inv, LineInv, [Next]_vars, AllServed, typed'.left < typed.left,
           at' # "killed"
    PROVE  \A f \in Open : conn[desc[f]] = "on" => got'[desc[f]] = got[desc[f]] + 1
<1>0. SocketInv BY DEF Inv
<1>1. ~UNCHANGED typed /\ ~TypeLine
  BY DEF LineInv, TypeLine
<1>2. CASE server = "select"
  <2>1. WriteLine(Listed) BY <1>1, <1>2, LinesRead
  <2>2. TableHolds /\ DOMAIN table = SelectSlots BY <1>2 DEF Inv, SelectInv
  <2>3. ASSUME NEW f \in Open PROVE Listed[f] = 1
    <3>1. f \in Fds BY DEF Open
    <3>2. PICK k \in SelectSlots : table[k] = f BY <2>2, <2>3 DEF TableHolds
    <3>3. \A l \in SelectSlots : table[l] = f => l = k
      BY <2>2, <3>1, <3>2 DEF TableHolds
    <3>4. Cardinality({l \in SelectSlots : table[l] = f}) = 1
      BY <3>2, <3>3, OneEntry
    <3>. QED BY <3>1, <3>4 DEF Listed
  <2>4. Wrote(Listed) BY <2>1 DEF WriteLine
  <2>. QED BY <1>0, <2>3, <2>4, WrittenOnce
<1>3. CASE server = "epoll"
  <2>1. WriteLine(InArray) BY <1>1, <1>3, LinesRead
  <2>2. FirstCount BY <1>3 DEF AllServed, LineInv, InOrder
  <2>3. ASSUME NEW f \in Open PROVE InArray[f] = 1
    <3>1. f \in Fds BY DEF Open
    <3>2. PICK k \in 0..count-1 : table[k] = f BY <2>2, <2>3 DEF FirstCount
    <3>3. \A l \in 0..count-1 : table[l] = f => l = k
      BY <2>2, <3>2 DEF FirstCount
    <3>4. Cardinality({l \in 0..count-1 : table[l] = f}) = 1
      BY <3>2, <3>3, OneEntry
    <3>. QED BY <3>1, <3>4 DEF InArray
  <2>4. Wrote(InArray) BY <2>1 DEF WriteLine
  <2>. QED BY <1>0, <2>3, <2>4, WrittenOnce
<1>. QED BY <1>2, <1>3 DEF AllServed

-----------------------------------------------------------------------------
(* The arrays and the count stay with the open descriptors, for any number *)
(* of clients and any sizes.                                               *)
THEOREM DescriptorsKept == Spec => []NoDescriptorLost
<1>1. Inv => NoDescriptorLost BY InvImplies
<1>. QED BY InvInit, InvStep, <1>1, PTL DEF Spec

(* No read of select/, epoll/ or the echo server waits.                    *)
THEOREM ReadsReturn == Spec => []NeverBlocked
<1>1. Inv => NeverBlocked BY InvImplies
<1>. QED BY InvInit, InvStep, <1>1, PTL DEF Spec

(* The entries of epoll/ in use are the first count, as the broadcast and  *)
(* the search for a free entry presume, for any number of clients below    *)
(* that of the entries memset has cleared. With as many the removal of a   *)
(* client would take in an entry that was never cleared.                   *)
THEOREM CountCovers ==
    ASSUME Cardinality(Clients) < Set
    PROVE  Spec => []CountCoversArray
<1>1. Inv /\ ArrayInv => CountCoversArray BY DEF ArrayInv, CountCoversArray
<1>2. Inv /\ ArrayInv /\ [Next]_vars => Inv' /\ ArrayInv'
  BY InvStep, ArrayStep
<1>3. Init => Inv /\ ArrayInv BY InvInit, ArrayStarts
<1>. QED BY <1>1, <1>2, <1>3, PTL DEF Spec

(* A typed line is written to every connected client, once: in select/     *)
(* always, in epoll/ as long as nobody has left while others were there    *)
(* and no more are connected than memset has cleared entries for, of which *)
(* the search for a free entry must see all, and at least two.             *)
THEOREM LinesToAll ==
    ASSUME 1 < Set, Set <= Searched
    PROVE  Spec => LineToAll
<1>1. Inv /\ LineInv /\ [Next]_vars =>
        [AllServed /\ typed'.left < typed.left /\ at' # "killed"
         => \A f \in Open : conn[desc[f]] = "on" => got'[desc[f]] = got[desc[f]] + 1]_vars
  BY AllWritten
<1>2. Inv /\ LineInv /\ [Next]_vars => Inv' /\ LineInv'
  BY InvStep, LineStep
<1>3. Init => Inv /\ LineInv BY InvInit, LineStarts
<1>. QED BY <1>1, <1>2, <1>3, PTL DEF Spec, LineToAll
=============================================================================
