----------------------------- MODULE ChatClient -----------------------------
(***************************************************************************)
(* The clients of ChatRoom/chatclient.c: each asks for the list of groups, *)
(* asks its user for a group and a nickname, joins, chats until "/end",    *)
(* and starts again.  It takes what it reads for the reply it waits for.   *)
(***************************************************************************)
EXTENDS ChatLink

CONSTANTS
    UserGroups,     \* what users type as a group, known or not
    UserNames,      \* what users type as a nickname
    MaxJoins,       \* bound: how often a user asks to join
    MaxTexts,       \* bound: how many lines a user types
    Crashes         \* may a client be killed?

ASSUME ClientAssumption == MaxJoins \in Nat /\ MaxTexts \in Nat /\ Crashes \in BOOLEAN

VARIABLES
    at,             \* where each client is
    room,           \* the group and nickname it last asked for
    joins, texts    \* how much its user did so far

clientVars == <<at, room, joins, texts>>

ClientInit ==
    /\ at = [c \in Clients |-> "off"]
    /\ room = [c \in Clients |-> <<>>]
    /\ joins = [c \in Clients |-> 0] /\ texts = [c \in Clients |-> 0]
    /\ open = {}
    /\ toServer = [c \in Clients |-> <<>>]
    /\ toClient = [c \in Clients |-> <<>>]

Become(c, l) == at' = [at EXCEPT ![c] = l]

(* The process ends, its socket is closed.                                 *)
Exit(c, l) == Become(c, l) /\ open' = open \ {c}

(* hooktoserver                                                            *)
Connect(c) ==
    /\ at[c] = "off" /\ up
    /\ Become(c, "begin")
    /\ open' = open \cup {c}
    /\ UNCHANGED <<up, toServer, toClient, room, joins, texts>>

RequestList(c) ==
    /\ at[c] = "begin"
    /\ sendpkt(c, [type |-> "LIST_GROUPS"])
    /\ Become(c, "list")
    /\ UNCHANGED <<up, open, toClient, room, joins, texts>>

(* The client at l reads a packet; it goes on at ok if the type is one it  *)
(* expects there and gives up otherwise.                                   *)
Read(c, l, expected, ok) ==
    /\ at[c] = l
    /\ toClient[c] # <<>>
    /\ toClient' = [toClient EXCEPT ![c] = Tail(@)]
    /\ IF Head(toClient[c]).type \in expected
       THEN Become(c, ok) /\ UNCHANGED open
       ELSE Exit(c, "confused")
    /\ UNCHANGED <<up, toServer, room, joins, texts>>

ReadList(c) == Read(c, "list", {"LIST_GROUPS"}, "prompt")
ReadJoin(c) ==
    Read(c, "join", {"JOIN_ACCEPTED", "JOIN_REJECTED"},
         IF Head(toClient[c]).type = "JOIN_ACCEPTED" THEN "chat" ELSE "begin")
ReadText(c) == Read(c, "chat", {"USER_TEXT"}, "chat")

(* At the prompts the user names a group and a nickname, or quits.         *)
Join(c, g, n) ==
    /\ at[c] = "prompt" /\ joins[c] < MaxJoins
    /\ joins' = [joins EXCEPT ![c] = @ + 1]
    /\ room' = [room EXCEPT ![c] = <<g, n>>]
    /\ sendpkt(c, [type |-> "JOIN_GROUP", group |-> g, name |-> n])
    /\ Become(c, "join")
    /\ UNCHANGED <<up, open, toClient, texts>>

Quit(c) ==
    /\ at[c] = "prompt"
    /\ Exit(c, "gone")
    /\ UNCHANGED <<up, toServer, toClient, room, joins, texts>>

TypeText(c) ==
    /\ at[c] = "chat" /\ texts[c] < MaxTexts
    /\ texts' = [texts EXCEPT ![c] = @ + 1]
    /\ sendpkt(c, [type |-> "USER_TEXT"])
    /\ UNCHANGED <<up, open, toClient, at, room, joins>>

endSilently(c) ==                                                    \* a mutant
    /\ at[c] = "chat"
    /\ Become(c, "begin")
    /\ UNCHANGED <<linkVars, room, joins, texts>>
TypeEnd(c) ==
    /\ at[c] = "chat"
    /\ sendpkt(c, [type |-> "LEAVE_GROUP"])
    /\ Become(c, "begin")
    /\ UNCHANGED <<up, open, toClient, room, joins, texts>>

(* recvpkt finds the connection closed by the server's end.                *)
ServerDied(c) ==
    /\ at[c] \in {"list", "join", "chat"}
    /\ toClient[c] = <<>> /\ ~up
    /\ Exit(c, "gone")
    /\ UNCHANGED <<up, toServer, toClient, room, joins, texts>>

Crash(c) ==
    /\ Crashes
    /\ c \in open
    /\ Exit(c, "gone")
    /\ UNCHANGED <<up, toServer, toClient, room, joins, texts>>

ClientRead(c) == ReadList(c) \/ ReadJoin(c) \/ ReadText(c) \/ ServerDied(c)
UserStep(c)   == \/ \E g \in UserGroups, n \in UserNames : Join(c, g, n)
                 \/ Quit(c) \/ TypeText(c) \/ TypeEnd(c)
=============================================================================
