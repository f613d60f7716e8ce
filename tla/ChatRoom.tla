------------------------------ MODULE ChatRoom ------------------------------
(***************************************************************************)
(* The chat room as a whole: one server and its clients (ChatRoom/).       *)
(***************************************************************************)
EXTENDS ChatServer, ChatClient

CONSTANT Followed       \* the clients RequestsAnswered is stated for; as all
                        \* clients are alike, one stands for the others

ASSUME RoomAssumption == Followed \subseteq Clients /\ UserNames \subseteq Names

vars == <<groupVars, linkVars, serverVars, clientVars>>

Init == ServerInit /\ ClientInit

(* connect() succeeds as soon as the kernel has queued the connection.     *)
Dial(c) == /\ Connect(c)
           /\ backlog' = Append(backlog, c)
           /\ UNCHANGED <<groupVars, livesdset, tempset, peer>>

ClientStep(c) ==
    \/ Dial(c)
    \/ /\ RequestList(c) \/ ClientRead(c) \/ UserStep(c) \/ Crash(c)
       /\ UNCHANGED <<groupVars, serverVars>>

ServerNext == ServerStep /\ UNCHANGED clientVars

Next == ServerNext \/ \E c \in Clients : ClientStep(c)

(* The server keeps running; a client sends its request and reads what has *)
(* arrived; a user does nothing in particular.                             *)
Fairness ==
    /\ WF_vars(ServerNext)
    /\ \A c \in Clients :
         /\ WF_vars(RequestList(c) /\ UNCHANGED <<groupVars, serverVars>>)
         /\ WF_vars(ClientRead(c) /\ UNCHANGED <<groupVars, serverVars>>)

Spec     == Init /\ [][Next]_vars
FairSpec == Spec /\ Fairness

-----------------------------------------------------------------------------
AllMembers == UNION {{<<g, i>> : i \in DOMAIN mems[g]} : g \in Groups}
At(m)      == mems[m[1]][m[2]]

(* A connection is in at most one group, though joingroup does not look    *)
(* (chatserver.c:378-435): clients leave before they join again.           *)
OneMembership ==
    \A m, n \in AllMembers : At(m).sock = At(n).sock => m = n

(* Every member is a connection the server watches, so that its end is     *)
(* noticed and its descriptor is not given to somebody else before it has  *)
(* left its group (chatserver.c:214-221, 285).                             *)
MembersConnected ==
    \A m \in AllMembers : /\ At(m).sock \in livesdset
                          /\ peer[At(m).sock] # NoClient

(* A client that thinks it is chatting is a member, of the group and by    *)
(* the name it asked for, until its connection ends (chatclient.c:129-134, *)
(* 173-228).                                                               *)
ChattersAreMembers ==
    \A c \in Clients :
        at[c] = "chat" =>
            \E m \in AllMembers : /\ peer[At(m).sock] = c
                                  /\ <<m[1], At(m).name>> = room[c]

(* What a client shows was said in the group it is in, however its leaving *)
(* and joining overlap with what others say (chatserver.c:496-502,         *)
(* chatclient.c:189-209).                                                  *)
TextsFromOwnGroup ==
    \A c \in Clients :
        at[c] = "chat" /\ toClient[c] # <<>> =>
            /\ Head(toClient[c]).type = "USER_TEXT"
            /\ Head(toClient[c]).groups = {room[c][1]}

(* A client that waits for a reply gets one, or learns that the server is  *)
(* gone (chatclient.c:52-60, 106-114).                                     *)
RequestsAnswered ==
    \A c \in Followed : at[c] \in {"list", "join"}
                          ~> at[c] \notin {"list", "join"}

(* The server removes clients that disconnect and goes on serving the      *)
(* others (chatserver.c:192-223).                                          *)
ServerSurvives == up
=============================================================================
