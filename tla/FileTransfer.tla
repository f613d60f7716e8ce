---------------------------- MODULE FileTransfer ----------------------------
(***************************************************************************)
(* file_transfer: a server that sends one file to each of its clients, in  *)
(* two programs that differ in how they copy it, and their client.         *)
(*                                                                         *)
(* The byte stream to a client is a sequence of pieces, of which a read    *)
(* takes any number that fits its buffer: the block with the file's name   *)
(* is two pieces, the end marker two, and the file is as many as it has.   *)
(***************************************************************************)
EXTENDS Integers, Sequences, SequencesExt

CONSTANTS
    Clients,
    File,               \* the pieces of the file
    SendMax,            \* how many pieces a single sendfile transfers
    Buffer,             \* how many the client's buffer holds
    MaxTyped            \* bound: lines typed

Name == <<"name1", "name2">>
End  == <<"en", "d">>

ASSUME FileAssumption == /\ File \in Seq(ToSet(File)) /\ Len(File) > 0
                         /\ ToSet(File) \cap {"name1", "name2", "flag"} = {}
                         /\ {SendMax, MaxTyped} \subseteq Nat
                         /\ Buffer \in Nat /\ Buffer >= 2

VARIABLES
    zero_copy,          \* which of the servers runs
    found,              \* is there a file of the name?
    at,                 \* where the server is
    backlog,            \* connections that wait for accept
    table,              \* the clients in the table, in order
    todo,               \* those it still has to serve
    typed,              \* lines that were typed, and those not yet read
    client,             \* where each client is
    link,               \* its connection, as the server's writes meet it
    stream,             \* what is on its way to it
    saved,              \* the pieces it has written to its file
    zeros               \* where it has written zeros with them

serverVars == <<at, table, todo>>
clientVars == <<client, saved, zeros>>
links      == <<link, stream>>
vars == <<zero_copy, found, serverVars, backlog, typed, clientVars, links>>

Init ==
    /\ zero_copy \in BOOLEAN /\ found \in BOOLEAN
    /\ at = "poll" /\ backlog = <<>> /\ table = <<>> /\ todo = <<>>
    /\ typed = [all |-> 0, left |-> 0]
    /\ client = [c \in Clients |-> "off"]
    /\ link = [c \in Clients |-> "open"]
    /\ stream = [c \in Clients |-> <<>>] /\ saved = [c \in Clients |-> <<>>]
    /\ zeros = [c \in Clients |-> "none"]

-----------------------------------------------------------------------------
(* One round up to the test of standard input.  Nobody is removed from the *)
(* table, so all in it are polled, and may be written to; standard input   *)
(* is polled when the table is not empty.  The revents of what was not     *)
(* polled are uninitialised: standard input before the first client, and   *)
(* the slot of the new one.                                                *)
Round ==
    /\ at = "poll"
    /\ backlog # <<>> \/ (table # <<>> /\ typed.left > 0)
    /\ LET new == IF backlog = <<>> THEN <<>> ELSE <<Head(backlog)>>
       IN  /\ table' = table \o new
           /\ backlog' = IF backlog = <<>> THEN <<>> ELSE Tail(backlog)
           /\ \E also \in {<<>>, new} : todo' = table \o also
    /\ at' \in IF table = <<>> THEN {"poll", "fgets"}
               ELSE IF typed.left > 0 THEN {"fgets"} ELSE {"poll"}
    /\ UNCHANGED <<zero_copy, found, typed, clientVars, links>>

(* A line is read, and then another: both wait for what is typed.          *)
ReadLine(here, there) ==
    /\ at = here
    /\ typed.left > 0
    /\ typed' = [typed EXCEPT !.left = @ - 1]
    /\ at' = there
    /\ UNCHANGED <<zero_copy, found, backlog, table, todo, clientVars, links>>

Fgets == ReadLine("fgets", "read")
Read  == ReadLine("read", IF todo = <<>> THEN "poll" ELSE "name")

(* The client that is served, and what a write to it does.  A client that  *)
(* has closed its connection answers it with a reset; if it left something *)
(* unread the reset is there already, and the write fails.  The next write *)
(* after either is SIGPIPE.                                                *)
Now == Head(todo)

Written(pieces) ==
    \/ /\ link[Now] = "open"
       /\ stream' = [stream EXCEPT ![Now] = @ \o pieces]
       /\ UNCHANGED link
    \/ /\ link[Now] = "closed"
       /\ link' = [link EXCEPT ![Now] = "broken"]
       /\ UNCHANGED stream

Failed ==
    /\ link[Now] = "error"
    /\ link' = [link EXCEPT ![Now] = "broken"]
    /\ UNCHANGED stream

(* MUTANT of NextClient: only the first client is served. *)
onlyFirst == todo' = <<>> /\ at' = "poll"

NextClient == /\ todo' = Tail(todo)
              /\ at' = IF Len(todo) = 1 THEN "poll" ELSE "name"

(* The name, or a flag if there is no such file.                           *)
SendName ==
    /\ at = "name"
    /\ \/ Written(Name) /\ found /\ at' = "body" /\ UNCHANGED todo
       \/ Written(<<"flag">>) /\ ~found /\ NextClient
       \/ Failed /\ NextClient
    /\ UNCHANGED <<zero_copy, found, backlog, table, typed, clientVars>>

(* The file: in a loop over buffers, or by a single sendfile, whose error  *)
(* ends the program.                                                       *)
Body == IF zero_copy /\ SendMax < Len(File) THEN SubSeq(File, 1, SendMax) ELSE File

SendBody ==
    /\ at = "body"
    /\ \/ Written(Body) /\ at' = "end"
       \/ Failed /\ at' = IF zero_copy THEN "exited" ELSE "end"
    /\ UNCHANGED <<zero_copy, found, backlog, table, todo, typed, clientVars>>

SendEnd ==
    /\ at = "end"
    /\ Written(End) \/ Failed
    /\ NextClient
    /\ UNCHANGED <<zero_copy, found, backlog, table, typed, clientVars>>

SigPipe ==
    /\ at \in {"name", "body", "end"}
    /\ link[Now] = "broken"
    /\ at' = "killed"
    /\ UNCHANGED <<zero_copy, found, backlog, table, todo, typed, clientVars, links>>

Down == at \in {"killed", "exited"}

-----------------------------------------------------------------------------
Connect(c) ==
    /\ client[c] = "off" /\ ~Down
    /\ client' = [client EXCEPT ![c] = "name"]
    /\ backlog' = Append(backlog, c)
    /\ UNCHANGED <<zero_copy, found, serverVars, typed, saved, zeros, links>>

(* A read takes the first n pieces of what has arrived, and the client may *)
(* end after it: the rest is dropped.                                      *)
Takes(c, n, ends) ==
    /\ n <= Len(stream[c])
    /\ stream' = [stream EXCEPT ![c] = IF ends THEN <<>> ELSE SubSeq(@, n + 1, Len(@))]
    /\ link' = [link EXCEPT ![c] = IF ~ends THEN @
                                   ELSE IF n < Len(stream[c]) THEN "error" ELSE "closed"]

(* MUTANT of NameBuffer: the name is read into the larger buffer. *)
asLarge == Buffer

(* The first read is for the name, in a buffer of the length of the block. *)
(* The program ends if the file cannot be opened.                          *)
NameBuffer == Len(Name)

ReadName(c) ==
    /\ client[c] = "name"
    /\ \E n \in 1..NameBuffer, opened \in BOOLEAN :
          /\ Takes(c, n, ~opened)
          /\ client' = [client EXCEPT ![c] = IF opened THEN "data" ELSE "gone"]
    /\ UNCHANGED <<zero_copy, found, serverVars, backlog, typed, saved, zeros>>

(* The client ends when what it has read begins with the marker.          *)
Ends(chunk) == IsPrefix(End, chunk)

(* The buffer is written whole: after what a short read has put in it come *)
(* zeros, in the file too.  They are recorded as far as the pieces of the  *)
(* file are about them: they are "last" in what is saved, or "within" a    *)
(* copy of the file, once a read has gone on in it after them.             *)
Torn(c, chunk) == /\ zeros[c] = "last"
                  /\ {Last(saved[c]), Head(chunk)} \subseteq ToSet(File)

Padded(c, chunk) == IF zeros[c] = "within" \/ Torn(c, chunk) THEN "within"
                    ELSE IF Len(chunk) < Buffer THEN "last" ELSE "none"

ReadData(c) ==
    /\ client[c] = "data"
    /\ \E n \in 1..Buffer :
          LET chunk == SubSeq(stream[c], 1, n)
          IN  /\ Takes(c, n, Ends(chunk))
              /\ saved' = [saved EXCEPT ![c] = @ \o chunk]
              /\ zeros' = [zeros EXCEPT ![c] = Padded(c, chunk)]
              /\ client' = [client EXCEPT ![c] = IF Ends(chunk) THEN "done" ELSE @]
    /\ UNCHANGED <<zero_copy, found, serverVars, backlog, typed>>

(* The server has died, and nothing is left to read: the client ends, and  *)
(* if it has opened its file it reports success.  A connection that was    *)
(* never accepted is reset, which the first read does not take for an end. *)
ReadEnd(c) ==
    /\ Down /\ stream[c] = <<>>
    /\ \/ client[c] = "data" /\ client' = [client EXCEPT ![c] = "cut"]
       \/ client[c] = "name" /\ client' = [client EXCEPT ![c] = "gone"]
       \/ /\ client[c] = "name" /\ c \in ToSet(backlog)
          /\ client' = [client EXCEPT ![c] = "data"]
    /\ UNCHANGED <<zero_copy, found, serverVars, backlog, typed, saved, zeros, links>>

(* A client is interrupted. *)
Kill(c) ==
    /\ client[c] \in {"name", "data"}
    /\ client' = [client EXCEPT ![c] = "gone"]
    /\ Takes(c, 0, TRUE)
    /\ UNCHANGED <<zero_copy, found, serverVars, backlog, typed, saved, zeros>>

TypeLine ==
    /\ typed.all < MaxTyped
    /\ typed' = [all |-> typed.all + 1, left |-> typed.left + 1]
    /\ UNCHANGED <<zero_copy, found, serverVars, backlog, clientVars, links>>

ServerStep == Round \/ Fgets \/ Read \/ SendName \/ SendBody \/ SendEnd \/ SigPipe
ClientStep(c) == ReadName(c) \/ ReadData(c) \/ ReadEnd(c)

Next == ServerStep \/ TypeLine \/ \E c \in Clients : Connect(c) \/ ClientStep(c) \/ Kill(c)

(* The server's writes never wait, as long as the clients read; a client   *)
(* does nothing but read.                                                  *)
Spec == /\ Init /\ [][Next]_vars
        /\ WF_vars(ServerStep) /\ \A c \in Clients : WF_vars(ClientStep(c))

-----------------------------------------------------------------------------
(* The pieces of a client's file that are the server's; the rest are       *)
(* pieces of the name, and marks.                                          *)
Data(c) == SelectSeq(saved[c], LAMBDA p : p \in ToSet(File))

(* The i-th piece that a client is due, however often the file is sent.    *)
Block   == Name \o File \o End
Sent(i) == Block[((i - 1) % Len(Block)) + 1]

(* A client that has taken a read for the end has saved each piece that    *)
(* was sent to it, in order, from where its first read left off in the     *)
(* name, and at least to the end of one whole file.  What it saves after   *)
(* that are more copies, or the beginning of one: an end it did not        *)
(* recognise is followed by the next copy, and so may be the marker in the *)
(* read it does recognise.  This is about the pieces that are sent: it     *)
(* does not say that there are no zeros between them (FileUnbroken)        *)
(* (src/file_transfer/zero_copy/client.c:54-103, server.c:190-252).        *)
NothingMissing ==
    \A c \in Clients : client[c] = "done" =>
        \E k \in 1..Len(Name) :
            /\ Len(saved[c]) >= Len(Name) - k + Len(File) + Len(End)
            /\ \A i \in 1..Len(saved[c]) : saved[c][i] = Sent(k + i)

(* No copy of the file that such a client has saved has zeros in the       *)
(* middle: what it reports as received is the file                         *)
(* (src/file_transfer/zero_copy/client.c:74, 107).                         *)
FileUnbroken == \A c \in Clients : client[c] = "done" => zeros[c] # "within"

(* Once a line is read for them, all clients the server found writable get *)
(* every piece of the file, whatever happens to the others, unless they    *)
(* leave or the server dies                                                *)
(* (src/file_transfer/zero_copy/server.c:174-253).                         *)
Delivered ==
    \A c \in Clients :
        at = "read" /\ typed.left > 0 /\ found /\ c \in ToSet(todo)
            ~> IsPrefix(File, Data(c)) \/ client[c] = "gone" \/ Down
=============================================================================
