------------------------- MODULE FileTransferProofs -------------------------
(***************************************************************************)
(* Proofs about FileTransfer for any clients, any file, any size of the    *)
(* buffer and any number of lines, whoever is killed and whatever fails.   *)
(*                                                                         *)
(* What a client has saved and what is on its way to it are one piece of   *)
(* the stream it is due, and the server goes on where that piece ends:     *)
(* FileInv relates the two ends of the connection, and says that a client  *)
(* the server still writes to has missed none of it, zeros aside.          *)
(***************************************************************************)
EXTENDS FileTransfer, SequenceTheorems, TLAPS

(* The assumptions of the theorem: if the server is the one that copies    *)
(* with sendfile, a single call takes the whole file; and the marker does  *)
(* not occur in it.                                                        *)
Fits   == zero_copy => Len(File) <= SendMax
NoMark == \A i \in 1..Len(File)-1 : ~(File[i] = "en" /\ File[i+1] = "d")

Piece == ToSet(Block) \cup {"flag"}

Types ==
    /\ zero_copy \in BOOLEAN /\ found \in BOOLEAN
    /\ at \in {"poll", "fgets", "read", "name", "body", "end", "killed", "exited"}
    /\ backlog \in Seq(Clients) /\ table \in Seq(Clients) /\ todo \in Seq(Clients)
    /\ client \in [Clients -> {"off", "name", "data", "cut", "done", "gone"}]
    /\ link \in [Clients -> {"open", "closed", "error", "broken"}]
    /\ stream \in [Clients -> Seq(Piece)] /\ saved \in [Clients -> Seq(Piece)]
    /\ at \in {"name", "body", "end"} => todo # <<>>

(* How far in the block the server is with a client.                       *)
Phase(c) == IF at = "body" /\ c = Now THEN Len(Name)
            ELSE IF at = "end" /\ c = Now THEN Len(Name) + Len(File)
            ELSE 0

(* A client that has dropped the first k pieces has the ones after them,   *)
(* first those it has saved and then those that are on their way, up to    *)
(* where the server is.                                                    *)
Follows(c, k) ==
    /\ \A i \in 1..Len(saved[c]) : saved[c][i] = Sent(k + i)
    /\ \A i \in 1..Len(stream[c]) : stream[c][i] = Sent(k + Len(saved[c]) + i)
    /\ ~Down => (k + Len(saved[c]) + Len(stream[c])) % Len(Block) = Phase(c)

(* A client that has not read the name, and one that has.  The latter may  *)
(* have read a reset instead, if the server is down.                       *)
Starts(c) == client[c] \in {"off", "name"} =>
    link[c] = "open" /\ saved[c] = <<>> /\ (found => Follows(c, 0))

Reads(c) == client[c] = "data" =>
    /\ link[c] = "open"
    /\ found => \/ \E k \in 1..Len(Name) : Follows(c, k)
                \/ Down /\ stream[c] = <<>>

(* Without a file the server only sends flags, and nobody ends.            *)
NoFile == ~found => /\ at \notin {"body", "end"}
                    /\ \A c \in Clients : /\ client[c] # "done"
                                          /\ \A i \in 1..Len(stream[c]) :
                                                stream[c][i] = "flag"

FileInv == /\ Types /\ NoFile /\ NothingMissing
           /\ \A c \in Clients : Starts(c) /\ Reads(c)

-----------------------------------------------------------------------------
(* Division with a remainder.                                              *)
LEMMA Division ==
    ASSUME NEW b \in Nat, b > 0, NEW m \in Nat
    PROVE  /\ m % b \in 0..b-1 /\ m % b <= m
           /\ m \div b \in Nat /\ m = b * (m \div b) + (m % b)
  OBVIOUS

LEMMA Remainder ==
    ASSUME NEW b \in Nat, b > 0, NEW q \in Nat, NEW r \in 0..b-1
    PROVE  (b * q + r) % b = r
  BY SMTT(30)

LEMMA RemainderGrows ==
    ASSUME NEW b \in Nat, b > 0, NEW m \in Nat, NEW i \in Nat, (m % b) + i < b
    PROVE  (m + i) % b = (m % b) + i
<1>. DEFINE q == m \div b
<1>1. q \in Nat /\ (m % b) + i \in 0..b-1 /\ m = b * q + (m % b) BY Division
<1>2. (b * q + ((m % b) + i)) % b = (m % b) + i BY <1>1, Remainder
<1>3. m % b \in Int /\ b * q \in Int BY <1>1, Division
<1>4. m + i = b * q + ((m % b) + i) BY <1>1, <1>3
<1>. QED BY <1>2, <1>4

LEMMA RemainderWraps ==
    ASSUME NEW b \in Nat, b > 0, NEW m \in Nat, NEW i \in Nat, (m % b) + i = b
    PROVE  (m + i) % b = 0
<1>. DEFINE q == m \div b
<1>1. q \in Nat /\ q + 1 \in Nat /\ 0 \in 0..b-1 /\ m = b * q + (m % b) BY Division
<1>2. (b * (q + 1) + 0) % b = 0 BY <1>1, Remainder
<1>3. m % b \in Int /\ b * q \in Int /\ b * (q + 1) = b * q + b BY <1>1, Division
<1>4. m + i = b * (q + 1) + 0 BY <1>1, <1>3
<1>. QED BY <1>2, <1>4

-----------------------------------------------------------------------------
(* What the block is made of.                                              *)
LEMMA FileFacts ==
    /\ Len(File) \in Nat /\ Len(File) > 0 /\ SendMax \in Nat /\ Buffer \in Nat
    /\ Len(Name) = 2 /\ Len(End) = 2
    /\ File \in Seq(ToSet(Block)) /\ Name \in Seq(ToSet(Block))
    /\ End \in Seq(ToSet(Block)) /\ Len(Block) = Len(File) + 4
    /\ Block[1] = "name1" /\ Block[2] = "name2"
    /\ \A i \in 1..Len(File) : Block[2 + i] = File[i]
    /\ Block[Len(File) + 3] = "en" /\ Block[Len(File) + 4] = "d"
<1>. DEFINE S == ToSet(File) \cup {"name1", "name2", "en", "d"}
<1>1. /\ File \in Seq(S) /\ Name \in Seq(S) /\ End \in Seq(S)
      /\ Len(Name) = 2 /\ Name[1] = "name1" /\ Name[2] = "name2"
      /\ Len(End) = 2 /\ End[1] = "en" /\ End[2] = "d"
  <2>1. File \in Seq(S) BY FileAssumption, SeqMonotonic
  <2>. QED BY <2>1 DEF Name, End
<1>2. Len(File) \in Nat /\ Len(File) > 0 /\ SendMax \in Nat /\ Buffer \in Nat
  BY <1>1, FileAssumption, LenProperties
<1>3. /\ Name \o File \in Seq(S) /\ Len(Name \o File) = 2 + Len(File)
      /\ \A i \in 1..2+Len(File) :
            (Name \o File)[i] = IF i <= 2 THEN Name[i] ELSE File[i - 2]
  <2>. HIDE DEF S
  <2>1. /\ Name \o File \in Seq(S) /\ Len(Name \o File) = Len(Name) + Len(File)
        /\ \A i \in 1..Len(Name)+Len(File) :
              (Name \o File)[i] = IF i <= Len(Name) THEN Name[i] ELSE File[i - Len(Name)]
    BY <1>1, ConcatProperties, Zenon
  <2>. QED BY <1>1, <2>1
<1>4. /\ Block \in Seq(S) /\ Len(Block) = 2 + Len(File) + 2
      /\ \A i \in 1..2+Len(File)+2 :
            Block[i] = IF i <= 2 + Len(File) THEN (Name \o File)[i]
                       ELSE End[i - (2 + Len(File))]
  BY <1>1, <1>3, ConcatProperties DEF Block
<1>. HIDE DEF S
<1>5. Block[1] = "name1" /\ Block[2] = "name2" BY <1>1, <1>2, <1>3, <1>4
<1>6. \A i \in 1..Len(File) : Block[2 + i] = File[i]
  <2>. TAKE i \in 1..Len(File)
  <2>1. /\ 2 + i \in 1..2+Len(File)+2 /\ 2 + i \in 1..2+Len(File)
        /\ ~(2 + i <= 2) /\ (2 + i) - 2 = i /\ 2 + i <= 2 + Len(File)
    BY <1>2
  <2>. QED BY <2>1, <1>3, <1>4
<1>7. Block[Len(File) + 3] = "en" /\ Block[Len(File) + 4] = "d"
  <2>1. /\ Len(File) + 3 \in 1..2+Len(File)+2 /\ Len(File) + 4 \in 1..2+Len(File)+2
        /\ ~(Len(File) + 3 <= 2 + Len(File)) /\ ~(Len(File) + 4 <= 2 + Len(File))
        /\ (Len(File) + 3) - (2 + Len(File)) = 1
        /\ (Len(File) + 4) - (2 + Len(File)) = 2
    BY <1>2
  <2>. QED BY <2>1, <1>1, <1>4
<1>8. DOMAIN Block = 1..Len(File)+4 BY <1>4, <1>2, LenProperties
<1>9. \A i \in 1..Len(File)+4 : Block[i] \in ToSet(Block)
  BY <1>8 DEF ToSet
<1>10. File \in Seq(ToSet(Block))
  <2>1. \A i \in 1..Len(File) : File[i] \in ToSet(Block)
    <3>. TAKE i \in 1..Len(File)
    <3>1. 2 + i \in 1..Len(File)+4 BY <1>2
    <3>. QED BY <3>1, <1>6, <1>9
  <2>. QED BY <2>1, <1>1, SeqDef
<1>11. {"name1", "name2", "en", "d"} \subseteq ToSet(Block)
  <2>1. /\ 1 \in 1..Len(File)+4 /\ 2 \in 1..Len(File)+4
        /\ Len(File) + 3 \in 1..Len(File)+4 /\ Len(File) + 4 \in 1..Len(File)+4
    BY <1>2
  <2>. QED BY <2>1, <1>5, <1>7, <1>9
<1>12. Name \in Seq(ToSet(Block)) /\ End \in Seq(ToSet(Block))
  BY <1>11 DEF Name, End
<1>. QED BY <1>1, <1>2, <1>4, <1>5, <1>6, <1>7, <1>10, <1>12

(* What follows a position of which the place in the block is known.       *)
LEMMA SentBlock ==
    ASSUME NEW m \in Nat, NEW j \in Nat, 0 < j, (m % Len(Block)) + j <= Len(Block)
    PROVE  Sent(m + j) = Block[(m % Len(Block)) + j]
<1>1. Len(Block) \in Nat /\ Len(Block) > 0 BY FileFacts
<1>2. m % Len(Block) \in Nat BY <1>1, Division
<1>3. j - 1 \in Nat /\ (m % Len(Block)) + (j - 1) < Len(Block) BY <1>1, <1>2
<1>4. (m + (j - 1)) % Len(Block) = (m % Len(Block)) + (j - 1)
  BY <1>1, <1>3, RemainderGrows
<1>5. (m + j) - 1 = m + (j - 1) /\ ((m % Len(Block)) + (j - 1)) + 1 = (m % Len(Block)) + j
  BY <1>2
<1>. QED BY <1>4, <1>5 DEF Sent

(* Only after a whole file does the marker follow.                         *)
LEMMA MarkAfterFile ==
    ASSUME NoMark, NEW m \in Nat, Sent(m + 1) = "en", Sent(m + 2) = "d"
    PROVE  m >= Len(Name) + Len(File)
<1>. DEFINE r == m % Len(Block)
            n == Len(File)
<1>1. /\ Len(Block) = n + 4 /\ n \in Nat /\ n > 0 /\ Len(Name) = 2
      /\ Block[1] = "name1" /\ Block[2] = "name2"
      /\ \A i \in 1..n : Block[2 + i] = File[i]
      /\ Block[n + 3] = "en" /\ Block[n + 4] = "d"
  BY FileFacts
<1>2. r \in 0..n+3 /\ r <= m
  <2>1. Len(Block) \in Nat /\ Len(Block) > 0 /\ Len(Block) - 1 = n + 3 BY <1>1
  <2>. QED BY <2>1, Division
<1>3. Block[r + 1] = "en"
  <2>1. 1 \in Nat /\ 0 < 1 /\ r + 1 <= Len(Block) BY <1>1, <1>2
  <2>. QED BY <2>1, SentBlock
<1>4. r < n + 3 => Block[r + 2] = "d"
  <2>1. r < n + 3 => 2 \in Nat /\ 0 < 2 /\ r + 2 <= Len(Block) BY <1>1, <1>2
  <2>. QED BY <2>1, SentBlock
<1>. HIDE DEF r, n
<1>5. r # 0 /\ r # 1 /\ r # n + 3
  <2>1. r = n + 3 => r + 1 = n + 4 BY <1>1, <1>2
  <2>. QED BY <1>1, <1>3, <2>1
<1>6. ASSUME r \in 2..n+1 PROVE FALSE
  <2>1. r - 1 \in 1..n /\ 2 + (r - 1) = r + 1 BY <1>1, <1>6
  <2>2. File[r - 1] = "en" BY <2>1, <1>1, <1>3
  <2>3. Block[r + 2] = "d" BY <1>1, <1>4, <1>6
  <2>4. CASE r = n + 1
    <3>1. r + 2 = n + 3 BY <1>1, <2>4
    <3>. QED BY <1>1, <2>3, <3>1
  <2>5. CASE r # n + 1
    <3>1. r \in 1..n /\ 2 + r = r + 2 /\ r - 1 \in 1..n-1 /\ (r - 1) + 1 = r
      BY <1>1, <1>6, <2>5
    <3>2. File[r] = "d" BY <3>1, <2>3, <1>1
    <3>. QED BY <2>2, <3>1, <3>2 DEF NoMark, n
  <2>. QED BY <2>4, <2>5
<1>7. r >= n + 2 BY <1>1, <1>2, <1>5, <1>6
<1>. QED BY <1>1, <1>2, <1>7 DEF n

-----------------------------------------------------------------------------
(* A client's part of the invariant does not depend on the rest.           *)
LEMMA FollowsSame ==
    ASSUME NEW c \in Clients, NEW k, Follows(c, k),
           saved'[c] = saved[c], stream'[c] = stream[c],
           Down' \/ (~Down /\ Phase(c)' = Phase(c))
    PROVE  Follows(c, k)'
  BY Zenon DEF Follows

LEMMA FlowSame ==
    ASSUME NEW c \in Clients, Starts(c), Reads(c), found' = found,
           client'[c] = client[c], link'[c] = link[c],
           saved'[c] = saved[c], stream'[c] = stream[c],
           Down' \/ (~Down /\ Phase(c)' = Phase(c)), Down => Down'
    PROVE  Starts(c)' /\ Reads(c)'
<1>1. \A k : Follows(c, k) => Follows(c, k)' BY FollowsSame
<1>2. Starts(c)' BY <1>1, Zenon DEF Starts
<1>3. Reads(c)' BY <1>1, Zenon DEF Reads
<1>. QED BY <1>2, <1>3

(* The server goes on where it is.                                         *)
LEMMA FollowsSent ==
    ASSUME NEW c \in Clients, NEW k \in Nat, NEW pieces \in Seq(Piece),
           saved[c] \in Seq(Piece), stream[c] \in Seq(Piece),
           Follows(c, k), ~Down,
           saved'[c] = saved[c], stream'[c] = stream[c] \o pieces,
           \A j \in 1..Len(pieces) : pieces[j] = Block[Phase(c) + j],
           Phase(c) + Len(pieces) <= Len(Block),
           Phase(c)' = IF Phase(c) + Len(pieces) = Len(Block) THEN 0
                       ELSE Phase(c) + Len(pieces)
    PROVE  Follows(c, k)'
<1>. DEFINE m == k + Len(saved[c]) + Len(stream[c])
            s == stream[c] \o pieces
            l == Len(pieces)
            b == Len(Block)
<1>0. b \in Nat /\ b > 0 BY FileFacts
<1>1. /\ Len(saved[c]) \in Nat /\ Len(stream[c]) \in Nat /\ l \in Nat /\ m \in Nat
      /\ m % b = Phase(c) /\ Phase(c) \in Nat
  <2>1. Len(saved[c]) \in Nat /\ Len(stream[c]) \in Nat /\ l \in Nat
    BY LenProperties
  <2>2. m \in Nat
    <3>. DEFINE x == Len(saved[c])
                y == Len(stream[c])
    <3>1. x \in Nat /\ y \in Nat BY <2>1
    <3>. HIDE DEF x, y
    <3>2. k + x + y \in Nat BY <3>1
    <3>. QED BY <3>2 DEF x, y
  <2>3. m % b = Phase(c) BY DEF Follows
  <2>. HIDE DEF m, b
  <2>5. m % b \in Nat BY <2>2, <1>0, Division
  <2>. QED BY <2>1, <2>2, <2>3, <2>5
<1>2. /\ Len(s) = Len(stream[c]) + l
      /\ \A i \in 1..Len(stream[c])+l :
            s[i] = IF i <= Len(stream[c]) THEN stream[c][i]
                   ELSE pieces[i - Len(stream[c])]
  BY ConcatProperties
<1>3. \A j \in 1..l : Sent(m + j) = pieces[j]
  <2>. TAKE j \in 1..l
  <2>1. j \in Nat /\ 0 < j /\ (m % b) + j <= b
    <3>1. Phase(c) + l <= b OBVIOUS
    <3>. HIDE DEF m, b, l
    <3>. QED BY <1>0, <1>1, <3>1
  <2>2. Sent(m + j) = Block[(m % b) + j] BY <1>1, <2>1, SentBlock
  <2>. QED BY <2>2, <1>1
<1>4. \A i \in 1..Len(s) : s[i] = Sent(k + Len(saved[c]) + i)
  <2>. TAKE i \in 1..Len(s)
  <2>1. CASE i <= Len(stream[c])
    <3>1. i \in 1..Len(stream[c]) /\ i \in 1..Len(stream[c])+l BY <1>1, <1>2, <2>1
    <3>. QED BY <3>1, <1>2, <2>1 DEF Follows
  <2>2. CASE ~(i <= Len(stream[c]))
    <3>. DEFINE j == i - Len(stream[c])
    <3>1. /\ j \in 1..l /\ i \in 1..Len(stream[c])+l
          /\ m + j = k + Len(saved[c]) + i
      <4>. DEFINE x == Len(saved[c])
                  y == Len(stream[c])
      <4>1. /\ m = k + x + y /\ j = i - y /\ i \in 1..y+l
            /\ x \in Nat /\ y \in Nat /\ l \in Nat /\ ~(i <= y)
        BY <1>1, <1>2, <2>2
      <4>. HIDE DEF m, s, l, j, x, y
      <4>2. j \in 1..l BY <4>1
      <4>3. m + j = k + x + i BY <4>1
      <4>. QED BY <4>1, <4>2, <4>3 DEF x, y
    <3>2. s[i] = pieces[j] BY <1>2, <3>1, <2>2
    <3>. QED BY <3>1, <3>2, <1>3
  <2>. QED BY <2>1, <2>2
<1>5. (k + Len(saved[c]) + Len(s)) % Len(Block) = Phase(c)'
  <2>2. k + Len(saved[c]) + Len(s) = m + l
    <3>. DEFINE x == Len(saved[c])
                y == Len(stream[c])
    <3>1. /\ m = k + x + y /\ Len(s) = y + l
          /\ x \in Nat /\ y \in Nat /\ l \in Nat
      BY <1>1, <1>2
    <3>. HIDE DEF m, s, l, x, y
    <3>2. k + x + (y + l) = m + l BY <3>1
    <3>. QED BY <3>1, <3>2 DEF x
  <2>5. /\ Phase(c) + l <= b
        /\ Phase(c)' = IF Phase(c) + l = b THEN 0 ELSE Phase(c) + l
    OBVIOUS
  <2>. HIDE DEF m, s, l, b
  <2>3. CASE Phase(c) + l = b
    <3>1. (m + l) % b = 0 BY <1>0, <2>3, <1>1, RemainderWraps
    <3>. QED BY <2>2, <2>3, <2>5, <3>1 DEF b
  <2>4. CASE Phase(c) + l # b
    <3>1. (m % b) + l < b BY <1>0, <2>4, <2>5, <1>1
    <3>2. (m + l) % b = (m % b) + l BY <1>0, <3>1, <1>1, RemainderGrows
    <3>3. m % b = Phase(c) BY <1>1 DEF b
    <3>. QED BY <2>2, <2>4, <2>5, <3>2, <3>3 DEF b
  <2>. QED BY <2>3, <2>4
<1>. HIDE DEF m, s, l, b
<1>6. \A i \in 1..Len(saved[c]) : saved[c][i] = Sent(k + i) BY DEF Follows
<1>7. stream'[c] = s /\ saved'[c] = saved[c] BY DEF s
<1>. QED BY <1>4, <1>5, <1>6, <1>7, Zenon DEF Follows

(* A client reads on where it is.                                          *)
LEMMA ReadOn ==
    ASSUME NEW c \in Clients, NEW k \in Nat, NEW n \in 0..Len(stream[c]),
           saved[c] \in Seq(Piece), stream[c] \in Seq(Piece), Follows(c, k)
    PROVE  LET all  == saved[c] \o SubSeq(stream[c], 1, n)
               rest == SubSeq(stream[c], n + 1, Len(stream[c]))
           IN  /\ Len(all) = Len(saved[c]) + n /\ Len(rest) = Len(stream[c]) - n
               /\ \A i \in 1..Len(all) : all[i] = Sent(k + i)
               /\ \A i \in 1..Len(rest) : rest[i] = Sent(k + Len(saved[c]) + n + i)
<1>. DEFINE a == saved[c]
            s == stream[c]
            chunk == SubSeq(s, 1, n)
            all  == a \o chunk
            rest == SubSeq(s, n + 1, Len(s))
<1>1. Len(a) \in Nat /\ Len(s) \in Nat BY LenProperties
<1>2. n \in 0..Len(s) /\ n \in Nat BY <1>1
<1>3. /\ chunk \in Seq(Piece) /\ Len(chunk) = n
      /\ \A i \in 1..n : chunk[i] = s[i]
  <2>1. \A i \in 1..n : s[i] \in Piece
    <3>1. \A i \in 1..n : i \in 1..Len(s) BY <1>1, <1>2
    <3>. QED BY <3>1, ElementOfSeq
  <2>2. /\ SubSeq(s, 1, n) \in Seq(Piece)
        /\ Len(SubSeq(s, 1, n)) = IF 1 <= n THEN n - 1 + 1 ELSE 0
        /\ \A i \in 1..n-1+1 : SubSeq(s, 1, n)[i] = s[1 + i - 1]
    BY <1>1, <1>2, <2>1, SubSeqProperties
  <2>. QED BY <2>2, <1>2
<1>4. /\ Len(rest) = Len(s) - n
      /\ \A i \in 1..Len(s)-n : rest[i] = s[n + i]
  <2>1. \A i \in n+1..Len(s) : s[i] \in Piece
    <3>1. \A i \in n+1..Len(s) : i \in 1..Len(s) BY <1>1, <1>2
    <3>. QED BY <3>1, ElementOfSeq
  <2>2. /\ Len(rest) = IF n + 1 <= Len(s) THEN Len(s) - (n + 1) + 1 ELSE 0
        /\ \A i \in 1..Len(s)-(n+1)+1 : rest[i] = s[n + 1 + i - 1]
    BY <1>1, <1>2, <2>1, SubSeqProperties
  <2>. QED BY <2>2, <1>1, <1>2
<1>5. /\ Len(all) = Len(a) + n
      /\ \A i \in 1..Len(a)+n : all[i] = IF i <= Len(a) THEN a[i] ELSE chunk[i - Len(a)]
  <2>1. a \in Seq(Piece) OBVIOUS
  <2>. HIDE DEF chunk, a
  <2>. QED BY <1>3, <2>1, ConcatProperties
<1>. HIDE DEF chunk, all, rest
<1>6. \A i \in 1..Len(s) : s[i] = Sent(k + Len(a) + i) BY DEF Follows
<1>7. \A i \in 1..Len(a) : a[i] = Sent(k + i) BY DEF Follows
<1>. HIDE DEF a, s
<1>8. \A i \in 1..Len(all) : all[i] = Sent(k + i)
  <2>. TAKE i \in 1..Len(all)
  <2>1. i \in 1..Len(a)+n BY <1>5
  <2>2. CASE i <= Len(a)
    <3>1. i \in 1..Len(a) BY <2>1, <2>2, <1>1
    <3>. QED BY <2>1, <2>2, <3>1, <1>5, <1>7
  <2>3. CASE ~(i <= Len(a))
    <3>. DEFINE j == i - Len(a)
    <3>1. j \in 1..n /\ j \in 1..Len(s) /\ k + Len(a) + j = k + i
      BY <2>1, <2>3, <1>1, <1>2
    <3>. QED BY <2>1, <2>3, <3>1, <1>3, <1>5, <1>6
  <2>. QED BY <2>2, <2>3
<1>9. \A i \in 1..Len(rest) : rest[i] = Sent(k + Len(a) + n + i)
  <2>. TAKE i \in 1..Len(rest)
  <2>1. /\ i \in 1..Len(s)-n /\ n + i \in 1..Len(s)
        /\ k + Len(a) + (n + i) = k + Len(a) + n + i
    BY <1>1, <1>2, <1>4
  <2>. QED BY <2>1, <1>4, <1>6
<1>. QED BY <1>4, <1>5, <1>8, <1>9 DEF all, rest, chunk, a, s

(* A write keeps every client's part, if it sends what is due.             *)
LEMMA Sends ==
    ASSUME FileInv, at \in {"name", "body", "end"},
           UNCHANGED <<found, client, saved>>,
           NEW pieces \in Seq(Piece), Written(pieces) \/ Failed,
           \A c \in Clients : found /\ c = Now /\ link[c] = "open" =>
               /\ \A j \in 1..Len(pieces) : pieces[j] = Block[Phase(c) + j]
               /\ Phase(c) + Len(pieces) <= Len(Block)
               /\ Phase(c)' = IF Phase(c) + Len(pieces) = Len(Block) THEN 0
                              ELSE Phase(c) + Len(pieces),
           \A c \in Clients : found /\ c # Now => Down' \/ Phase(c)' = 0
    PROVE  \A c \in Clients : Starts(c)' /\ Reads(c)'
<1>. TAKE c \in Clients
<1>1. /\ Starts(c) /\ Reads(c) /\ ~Down /\ Now \in Clients
      /\ saved[c] \in Seq(Piece) /\ stream[c] \in Seq(Piece)
      /\ link \in [Clients -> {"open", "closed", "error", "broken"}]
      /\ stream \in [Clients -> Seq(Piece)]
  BY DEF FileInv, Types, Down, Now
<1>2. CASE c # Now
  <2>1. link'[c] = link[c] /\ stream'[c] = stream[c]
    BY <1>1, <1>2 DEF Written, Failed
  <2>2. Phase(c) = 0 BY <1>2 DEF Phase
  <2>3. ASSUME NEW k, found, Follows(c, k) PROVE Follows(c, k)'
    <3>1. Down' \/ Phase(c)' = Phase(c) BY <1>2, <2>2, <2>3
    <3>. QED BY <1>1, <2>1, <2>3, <3>1, FollowsSame
  <2>4. Starts(c)' BY <1>1, <2>1, <2>3, Zenon DEF Starts
  <2>5. Reads(c)' BY <1>1, <2>1, <2>3, Zenon DEF Reads
  <2>. QED BY <2>4, <2>5
<1>3. CASE c = Now /\ link[Now] = "open"
  <2>1. link'[c] = link[c] /\ stream'[c] = stream[c] \o pieces
    BY <1>1, <1>3 DEF Written, Failed
  <2>2. ASSUME NEW k \in Nat, found, Follows(c, k) PROVE Follows(c, k)'
    <3>1. /\ \A j \in 1..Len(pieces) : pieces[j] = Block[Phase(c) + j]
          /\ Phase(c) + Len(pieces) <= Len(Block)
          /\ Phase(c)' = IF Phase(c) + Len(pieces) = Len(Block) THEN 0
                         ELSE Phase(c) + Len(pieces)
      BY <1>3, <2>2, Zenon
    <3>2. saved'[c] = saved[c] OBVIOUS
    <3>. QED BY <1>1, <2>1, <2>2, <3>1, <3>2, FollowsSent
  <2>3. Starts(c)' BY <1>1, <2>1, <2>2, Zenon DEF Starts
  <2>4. Reads(c)'
    <3>1. Len(Name) \in Nat /\ 1..Len(Name) \subseteq Nat BY DEF Name
    <3>2. \A k \in 1..Len(Name) : k \in Nat BY <3>1
    <3>. QED BY <1>1, <2>1, <2>2, <3>2, Zenon DEF Reads
  <2>. QED BY <2>3, <2>4
<1>4. CASE c = Now /\ link[Now] # "open"
  <2>1. client[c] \notin {"off", "name", "data"} BY <1>1, <1>4 DEF Starts, Reads
  <2>. QED BY <2>1 DEF Starts, Reads
<1>. QED BY <1>2, <1>3, <1>4

-----------------------------------------------------------------------------
(* A step that no client's connection sees.                                *)
LEMMA ClientsSame ==
    ASSUME FileInv, UNCHANGED <<found, clientVars, links>>,
           ~found => at' \notin {"body", "end"}, Down => Down',
           \A c \in Clients : Down' \/ Phase(c)' = Phase(c)
    PROVE  NoFile' /\ NothingMissing' /\ \A c \in Clients : Starts(c)' /\ Reads(c)'
<1>1. NoFile' BY DEF FileInv, NoFile, clientVars, links
<1>2. NothingMissing' BY DEF FileInv, NothingMissing, clientVars
<1>3. \A c \in Clients : Starts(c)' /\ Reads(c)'
  <2>. TAKE c \in Clients
  <2>1. /\ Starts(c) /\ Reads(c)
        /\ Down' \/ (~Down /\ Phase(c)' = Phase(c))
        /\ client'[c] = client[c] /\ link'[c] = link[c]
        /\ saved'[c] = saved[c] /\ stream'[c] = stream[c]
    BY DEF FileInv, clientVars, links
  <2>. QED BY <2>1, FlowSame
<1>. QED BY <1>1, <1>2, <1>3

LEMMA RoundStep == ASSUME FileInv, Round PROVE FileInv'
<1>1. Types'
  <2>. DEFINE new == IF backlog = <<>> THEN <<>> ELSE <<Head(backlog)>>
  <2>1. /\ backlog \in Seq(Clients) /\ table \in Seq(Clients) /\ Types
    BY DEF FileInv, Types
  <2>2. /\ new \in Seq(Clients) /\ <<>> \in Seq(Clients)
        /\ (IF backlog = <<>> THEN <<>> ELSE Tail(backlog)) \in Seq(Clients)
    BY <2>1
  <2>3. /\ table' = table \o new
        /\ backlog' = IF backlog = <<>> THEN <<>> ELSE Tail(backlog)
        /\ \E also \in {<<>>, new} : todo' = table \o also
        /\ at' \in {"poll", "fgets"}
        /\ UNCHANGED <<zero_copy, found, typed, clientVars, links>>
    BY DEF Round
  <2>. HIDE DEF new
  <2>4. table' \in Seq(Clients) /\ todo' \in Seq(Clients)
    <3>1. \A also \in {<<>>, new} : also \in Seq(Clients) BY <2>2
    <3>2. \A also \in Seq(Clients) : table \o also \in Seq(Clients)
      BY <2>1, ConcatProperties
    <3>. QED BY <2>2, <2>3, <3>1, <3>2
  <2>. QED BY <2>1, <2>2, <2>3, <2>4 DEF Types, clientVars, links
<1>2. \A c \in Clients : Phase(c)' = Phase(c) BY DEF Round, Phase
<1>3. ~Down /\ at' \notin {"body", "end"} BY DEF Round, Down
<1>. QED BY <1>1, <1>2, <1>3, ClientsSame DEF FileInv, Round

LEMMA LineStep == ASSUME FileInv, Fgets \/ Read PROVE FileInv'
<1>1. /\ at \in {"fgets", "read"} /\ at' \in {"read", "poll", "name"}
      /\ at' = "name" => todo # <<>>
      /\ UNCHANGED <<zero_copy, found, backlog, table, todo, clientVars, links>>
  BY DEF Fgets, Read, ReadLine
<1>2. Types' BY <1>1 DEF FileInv, Types, clientVars, links
<1>3. \A c \in Clients : Phase(c)' = Phase(c) BY <1>1 DEF Phase
<1>. QED BY <1>1, <1>2, <1>3, ClientsSame DEF FileInv, Down

LEMMA SigPipeStep == ASSUME FileInv, SigPipe PROVE FileInv'
<1>1. Types' BY DEF FileInv, Types, SigPipe, clientVars, links
<1>2. Down' BY DEF SigPipe, Down
<1>. QED BY <1>1, <1>2, ClientsSame DEF FileInv, SigPipe

LEMMA SameStep ==
    ASSUME FileInv, TypeLine \/ UNCHANGED vars PROVE FileInv'
<1>1. UNCHANGED <<zero_copy, found, serverVars, backlog, clientVars, links>>
  BY DEF TypeLine, vars
<1>2. Types' BY <1>1 DEF FileInv, Types, serverVars, clientVars, links
<1>3. /\ \A c \in Clients : Phase(c)' = Phase(c)
      /\ Down => Down'
      /\ ~found => at' \notin {"body", "end"}
  BY <1>1 DEF FileInv, NoFile, Phase, Down, Now, serverVars
<1>. QED BY <1>1, <1>2, <1>3, ClientsSame DEF FileInv

-----------------------------------------------------------------------------
(* The server's writes.                                                    *)
LEMMA WriteTypes ==
    ASSUME Types, at \in {"name", "body", "end"}, NEW pieces \in Seq(Piece),
           Written(pieces) \/ Failed
    PROVE  /\ link' \in [Clients -> {"open", "closed", "error", "broken"}]
           /\ stream' \in [Clients -> Seq(Piece)]
<1>1. Now \in Clients BY DEF Types, Now
<1>2. stream[Now] \o pieces \in Seq(Piece)
  <2>1. stream[Now] \in Seq(Piece) BY <1>1 DEF Types
  <2>. QED BY <2>1, ConcatProperties
<1>. QED BY <1>1, <1>2 DEF Types, Written, Failed

LEMMA NextTypes ==
    ASSUME todo \in Seq(Clients), todo # <<>>, NextClient
    PROVE  /\ todo' \in Seq(Clients) /\ at' \in {"poll", "name"}
           /\ at' = "name" => todo' # <<>>
<1>1. Tail(todo) \in Seq(Clients) /\ Len(Tail(todo)) = Len(todo) - 1 /\ Len(todo) \in Nat
  BY HeadTailProperties, LenProperties
<1>2. Len(todo) # 1 => Tail(todo) # <<>>
  <2>1. Len(todo) # 0 BY EmptySeq
  <2>2. Len(todo) # 1 => Len(Tail(todo)) # 0 BY <1>1
  <2>. QED BY <2>2, EmptySeq
<1>. QED BY <1>1, <1>2 DEF NextClient

LEMMA SendNameStep == ASSUME FileInv, SendName PROVE FileInv'
<1>1. /\ Types /\ at = "name" /\ todo \in Seq(Clients) /\ todo # <<>> /\ Now \in Clients
      /\ UNCHANGED <<zero_copy, found, backlog, table, typed, clientVars>>
      /\ NothingMissing /\ NoFile
  BY DEF SendName, FileInv, Types, Now
<1>2. \A c \in Clients : Phase(c) = 0 BY <1>1 DEF Phase
<1>3. /\ Name \in Seq(Piece) /\ <<"flag">> \in Seq(Piece) /\ Len(Name) = 2
      /\ \A j \in 1..2 : Name[j] = Block[0 + j]
      /\ Len(Block) = Len(File) + 4 /\ Len(File) \in Nat
  <2>1. /\ Name \in Seq(ToSet(Block)) /\ Block[1] = "name1" /\ Block[2] = "name2"
        /\ Len(Name) = 2 /\ Len(Block) = Len(File) + 4 /\ Len(File) \in Nat
    BY FileFacts
  <2>2. \A j \in 1..2 : Name[j] = Block[0 + j] BY <2>1 DEF Name
  <2>3. Name \in Seq(Piece) BY <2>1, SeqMonotonic DEF Piece
  <2>4. <<"flag">> \in Seq(Piece) BY DEF Piece
  <2>. QED BY <2>1, <2>2, <2>3, <2>4
<1>4. NothingMissing' BY <1>1 DEF NothingMissing, clientVars
<1>5. CASE Written(Name) /\ found /\ at' = "body" /\ UNCHANGED todo
  <2>1. Types' BY <1>1, <1>3, <1>5, WriteTypes DEF Types, clientVars
  <2>2. NoFile' BY <1>1, <1>5 DEF NoFile
  <2>3. \A c \in Clients : Phase(c)' = IF c = Now THEN 2 ELSE 0
    BY <1>1, <1>3, <1>5 DEF Phase, Now
  <2>4. \A c \in Clients : c = Now =>
            /\ \A j \in 1..Len(Name) : Name[j] = Block[Phase(c) + j]
            /\ Phase(c) + Len(Name) <= Len(Block)
            /\ Phase(c)' = IF Phase(c) + Len(Name) = Len(Block) THEN 0
                           ELSE Phase(c) + Len(Name)
    BY <1>2, <1>3, <2>3
  <2>5. \A c \in Clients : Starts(c)' /\ Reads(c)'
    BY <1>1, <1>3, <1>5, <2>3, <2>4, Sends DEF clientVars
  <2>. QED BY <2>1, <2>2, <2>5, <1>4 DEF FileInv
<1>6. CASE Written(<<"flag">>) /\ ~found /\ NextClient
  <2>1. Types' BY <1>1, <1>3, <1>6, WriteTypes, NextTypes DEF Types, clientVars
  <2>2. NoFile'
    <3>1. ASSUME NEW c \in Clients, NEW i \in 1..Len(stream'[c])
          PROVE  stream'[c][i] = "flag"
      <4>1. stream[c] \in Seq(Piece) /\ \A j \in 1..Len(stream[c]) : stream[c][j] = "flag"
        BY <1>1, <1>6 DEF Types, NoFile
      <4>2. CASE stream'[c] = stream[c] BY <4>1, <4>2, <3>1
      <4>3. CASE stream'[c] = stream[c] \o <<"flag">>
        <5>. DEFINE flag == <<"flag">>
                    old  == stream[c]
        <5>1. /\ flag \in Seq(Piece) /\ Len(flag) = 1 /\ flag[1] = "flag"
              /\ old \in Seq(Piece) /\ Len(old) \in Nat
              /\ \A j \in 1..Len(old) : old[j] = "flag"
          BY <1>3, <4>1, LenProperties
        <5>2. stream'[c] = old \o flag /\ i \in 1..Len(stream'[c]) BY <4>3
        <5>. HIDE DEF flag, old
        <5>3. /\ Len(old \o flag) = Len(old) + Len(flag)
              /\ \A j \in 1..Len(old)+Len(flag) :
                    (old \o flag)[j] = IF j <= Len(old) THEN old[j] ELSE flag[j - Len(old)]
          BY <5>1, ConcatProperties, Zenon
        <5>. QED BY <5>1, <5>2, <5>3
      <4>. QED BY <1>1, <1>6, <4>2, <4>3 DEF Written, Types
    <3>2. at' \in {"poll", "name"} BY <1>6 DEF NextClient
    <3>. QED BY <1>1, <3>1, <3>2 DEF NoFile, clientVars
  <2>3. \A c \in Clients : Starts(c)' /\ Reads(c)'
    BY <1>1, <1>3, <1>6, Sends DEF clientVars
  <2>. QED BY <2>1, <2>2, <2>3, <1>4 DEF FileInv
<1>7. CASE Failed /\ NextClient
  <2>1. Types' BY <1>1, <1>3, <1>7, WriteTypes, NextTypes DEF Types, clientVars
  <2>2. at' \in {"poll", "name"} BY <1>7 DEF NextClient
  <2>3. NoFile' BY <1>1, <1>7, <2>2 DEF NoFile, Failed, clientVars
  <2>4. \A c \in Clients : Phase(c)' = 0 BY <2>2 DEF Phase
  <2>5. \A c \in Clients : ~(c = Now /\ link[c] = "open") BY <1>7 DEF Failed
  <2>6. \A c \in Clients : Starts(c)' /\ Reads(c)'
    BY <1>1, <1>3, <1>7, <2>4, <2>5, Sends DEF clientVars
  <2>. QED BY <2>1, <2>3, <2>6, <1>4 DEF FileInv
<1>. QED BY <1>5, <1>6, <1>7 DEF SendName

LEMMA SendBodyStep == ASSUME FileInv, Fits, SendBody PROVE FileInv'
<1>1. /\ Types /\ at = "body" /\ todo \in Seq(Clients) /\ todo # <<>> /\ Now \in Clients
      /\ UNCHANGED <<zero_copy, found, backlog, table, todo, typed, clientVars>>
      /\ NothingMissing /\ found
  BY DEF SendBody, FileInv, Types, Now, NoFile
<1>2. \A c \in Clients : Phase(c) = IF c = Now THEN 2 ELSE 0
  BY <1>1, FileFacts DEF Phase
<1>3. /\ Body = File /\ File \in Seq(Piece) /\ Len(File) \in Nat /\ Len(File) > 0
      /\ \A j \in 1..Len(File) : File[j] = Block[2 + j]
      /\ Len(Block) = Len(File) + 4
  <2>1. /\ File \in Seq(ToSet(Block)) /\ Len(File) \in Nat /\ Len(File) > 0
        /\ \A j \in 1..Len(File) : File[j] = Block[2 + j]
        /\ Len(Block) = Len(File) + 4 /\ SendMax \in Nat
    BY FileFacts
  <2>2. Body = File BY <2>1 DEF Body, Fits
  <2>3. File \in Seq(Piece) BY <2>1, SeqMonotonic DEF Piece
  <2>. QED BY <2>1, <2>2, <2>3
<1>4. NothingMissing' BY <1>1 DEF NothingMissing, clientVars
<1>5. CASE Written(Body) /\ at' = "end"
  <2>1. Types' BY <1>1, <1>3, <1>5, WriteTypes DEF Types, clientVars
  <2>2. NoFile' BY <1>1 DEF NoFile
  <2>3. \A c \in Clients : Phase(c)' = IF c = Now THEN 2 + Len(File) ELSE 0
    BY <1>1, <1>5, FileFacts DEF Phase, Now
  <2>4. \A c \in Clients : c = Now =>
            /\ \A j \in 1..Len(File) : File[j] = Block[Phase(c) + j]
            /\ Phase(c) + Len(File) <= Len(Block)
            /\ Phase(c)' = IF Phase(c) + Len(File) = Len(Block) THEN 0
                           ELSE Phase(c) + Len(File)
    BY <1>2, <1>3, <2>3
  <2>5. \A c \in Clients : Starts(c)' /\ Reads(c)'
    BY <1>1, <1>3, <1>5, <2>3, <2>4, Sends DEF clientVars
  <2>. QED BY <2>1, <2>2, <2>5, <1>4 DEF FileInv
<1>6. CASE Failed /\ at' = IF zero_copy THEN "exited" ELSE "end"
  <2>1. Types' BY <1>1, <1>3, <1>6, WriteTypes DEF Types, clientVars
  <2>2. NoFile' BY <1>1 DEF NoFile
  <2>3. \A c \in Clients : c # Now => Phase(c)' = 0 BY <1>1 DEF Phase, Now
  <2>5. \A c \in Clients : ~(c = Now /\ link[c] = "open") BY <1>6 DEF Failed
  <2>6. \A c \in Clients : Starts(c)' /\ Reads(c)'
    BY <1>1, <1>3, <1>6, <2>3, <2>5, Sends DEF clientVars
  <2>. QED BY <2>1, <2>2, <2>6, <1>4 DEF FileInv
<1>. QED BY <1>5, <1>6 DEF SendBody

LEMMA SendEndStep == ASSUME FileInv, SendEnd PROVE FileInv'
<1>1. /\ Types /\ at = "end" /\ todo \in Seq(Clients) /\ todo # <<>>
      /\ UNCHANGED <<zero_copy, found, backlog, table, typed, clientVars>>
      /\ NothingMissing /\ found /\ NextClient
      /\ Written(End) \/ Failed
  BY DEF SendEnd, FileInv, Types, NoFile
<1>2. \A c \in Clients : c = Now => Phase(c) = 2 + Len(File)
  BY <1>1, FileFacts DEF Phase
<1>3. /\ End \in Seq(Piece) /\ Len(End) = 2 /\ Len(File) \in Nat
      /\ \A j \in 1..2 : End[j] = Block[2 + Len(File) + j]
      /\ Len(Block) = Len(File) + 4
  <2>1. /\ End \in Seq(ToSet(Block)) /\ Len(File) \in Nat /\ Len(End) = 2
        /\ Block[Len(File) + 3] = "en" /\ Block[Len(File) + 4] = "d"
        /\ Len(Block) = Len(File) + 4
    BY FileFacts
  <2>2. 2 + Len(File) + 1 = Len(File) + 3 /\ 2 + Len(File) + 2 = Len(File) + 4
    BY <2>1
  <2>3. End[1] = "en" /\ End[2] = "d" BY DEF End
  <2>4. \A j \in 1..2 : End[j] = Block[2 + Len(File) + j]
    <3>1. \A j \in 1..2 : j = 1 \/ j = 2 OBVIOUS
    <3>. QED BY <2>1, <2>2, <2>3, <3>1, Zenon
  <2>5. End \in Seq(Piece) BY <2>1, SeqMonotonic DEF Piece
  <2>. QED BY <2>1, <2>4, <2>5
<1>4. NothingMissing' BY <1>1 DEF NothingMissing, clientVars
<1>5. Types' BY <1>1, <1>3, WriteTypes, NextTypes DEF Types, clientVars
<1>6. \A c \in Clients : Phase(c)' = 0 BY <1>1 DEF Phase, NextClient
<1>7. NoFile' BY <1>1 DEF NoFile
<1>8. \A c \in Clients : c = Now =>
          /\ \A j \in 1..Len(End) : End[j] = Block[Phase(c) + j]
          /\ Phase(c) + Len(End) <= Len(Block)
          /\ Phase(c)' = IF Phase(c) + Len(End) = Len(Block) THEN 0
                         ELSE Phase(c) + Len(End)
  BY <1>2, <1>3, <1>6
<1>9. \A c \in Clients : Starts(c)' /\ Reads(c)'
  BY <1>1, <1>3, <1>6, <1>8, Sends DEF clientVars
<1>. QED BY <1>4, <1>5, <1>7, <1>9 DEF FileInv

-----------------------------------------------------------------------------
(* A client's own steps: those of the others are not affected.             *)
LEMMA OthersSame ==
    ASSUME FileInv, NEW c \in Clients, UNCHANGED <<found, at, todo>>,
           \A d \in Clients \ {c} : /\ client'[d] = client[d] /\ link'[d] = link[d]
                                    /\ saved'[d] = saved[d] /\ stream'[d] = stream[d]
    PROVE  \A d \in Clients \ {c} : Starts(d)' /\ Reads(d)'
<1>. TAKE d \in Clients \ {c}
<1>1. /\ Starts(d) /\ Reads(d) /\ d \in Clients
      /\ Down' = Down /\ Phase(d)' = Phase(d)
  BY DEF FileInv, Down, Phase, Now
<1>. QED BY <1>1, FlowSame

LEMMA ConnectStep ==
    ASSUME FileInv, NEW c \in Clients, Connect(c) PROVE FileInv'
<1>1. /\ Types /\ NoFile /\ NothingMissing /\ Starts(c) /\ Reads(c) /\ client[c] = "off"
      /\ client' = [client EXCEPT ![c] = "name"] /\ backlog' = Append(backlog, c)
      /\ UNCHANGED <<zero_copy, found, at, table, todo, typed, saved, link, stream>>
  BY DEF FileInv, Connect, serverVars, links
<1>2. client \in [Clients -> {"off", "name", "data", "cut", "done", "gone"}]
  BY <1>1 DEF Types
<1>3. Types'
  <2>1. backlog' \in Seq(Clients)
    <3>1. backlog \in Seq(Clients) BY <1>1 DEF Types
    <3>. QED BY <1>1, <3>1, AppendProperties
  <2>. QED BY <1>1, <2>1 DEF Types
<1>4. NoFile' /\ NothingMissing' BY <1>1, <1>2 DEF NoFile, NothingMissing
<1>5. Down' = Down /\ Phase(c)' = Phase(c) BY <1>1 DEF Down, Phase, Now
<1>6. \A k : Follows(c, k) => Follows(c, k)' BY <1>1, <1>5, FollowsSame
<1>7. Starts(c)' BY <1>1, <1>6 DEF Starts
<1>8. Reads(c)' BY <1>1, <1>2 DEF Reads
<1>9. \A d \in Clients \ {c} : Starts(d)' /\ Reads(d)' BY <1>1, <1>2, OthersSame
<1>. QED BY <1>3, <1>4, <1>7, <1>8, <1>9 DEF FileInv

(* What is left of what was on its way, all of it or the end.              *)
LEMMA TakesTypes ==
    ASSUME Types, NEW c \in Clients, NEW n \in Nat, NEW ends \in BOOLEAN,
           Takes(c, n, ends)
    PROVE  /\ stream' \in [Clients -> Seq(Piece)]
           /\ link' \in [Clients -> {"open", "closed", "error", "broken"}]
           /\ stream'[c] = IF ends THEN <<>>
                           ELSE SubSeq(stream[c], n + 1, Len(stream[c]))
           /\ ~ends => link'[c] = link[c]
           /\ \A d \in Clients \ {c} : link'[d] = link[d] /\ stream'[d] = stream[d]
           /\ \A d \in Clients : \A i \in 1..Len(stream'[d]) :
                 \E j \in 1..Len(stream[d]) : stream'[d][i] = stream[d][j]
<1>. DEFINE old  == stream[c]
            rest == SubSeq(old, n + 1, Len(old))
<1>1. old \in Seq(Piece) /\ Len(old) \in Nat /\ n <= Len(old)
  BY LenProperties DEF Types, Takes
<1>2. /\ rest \in Seq(Piece) /\ Len(rest) = Len(old) - n
      /\ \A i \in 1..Len(old)-n : rest[i] = old[n + i]
  <2>. HIDE DEF old
  <2>1. \A i \in n+1..Len(old) : old[i] \in Piece
    <3>1. \A i \in n+1..Len(old) : i \in 1..Len(old) BY <1>1
    <3>. QED BY <1>1, <3>1, ElementOfSeq
  <2>2. /\ rest \in Seq(Piece)
        /\ Len(rest) = IF n + 1 <= Len(old) THEN Len(old) - (n + 1) + 1 ELSE 0
        /\ \A i \in 1..Len(old)-(n+1)+1 : rest[i] = old[n + 1 + i - 1]
    BY <1>1, <2>1, SubSeqProperties
  <2>. QED BY <2>2, <1>1
<1>3. /\ stream' = [stream EXCEPT ![c] = IF ends THEN <<>> ELSE rest]
      /\ link' = [link EXCEPT ![c] = IF ~ends THEN @
                                     ELSE IF n < Len(stream[c]) THEN "error" ELSE "closed"]
      /\ stream \in [Clients -> Seq(Piece)]
      /\ link \in [Clients -> {"open", "closed", "error", "broken"}]
  BY DEF Takes, Types
<1>. HIDE DEF rest
<1>4. stream' \in [Clients -> Seq(Piece)] BY <1>2, <1>3
<1>5. link' \in [Clients -> {"open", "closed", "error", "broken"}] BY <1>3
<1>6. stream'[c] = IF ends THEN <<>> ELSE rest BY <1>3
<1>7. /\ ~ends => link'[c] = link[c]
      /\ \A d \in Clients \ {c} : link'[d] = link[d] /\ stream'[d] = stream[d]
  BY <1>3
<1>8. \A d \in Clients : \A i \in 1..Len(stream'[d]) :
          \E j \in 1..Len(stream[d]) : stream'[d][i] = stream[d][j]
  <2>. TAKE d \in Clients
  <2>. TAKE i \in 1..Len(stream'[d])
  <2>1. CASE d # c BY <1>7, <2>1
  <2>2. CASE d = c /\ ends
    <3>1. Len(stream'[d]) = 0 BY <1>6, <2>2
    <3>. QED BY <3>1
  <2>3. CASE d = c /\ ~ends
    <3>1. i \in 1..Len(rest) /\ stream'[d][i] = rest[i] BY <1>6, <2>3
    <3>2. n + i \in 1..Len(old) /\ rest[i] = old[n + i] BY <1>1, <1>2, <3>1
    <3>. QED BY <2>3, <3>1, <3>2
  <2>. QED BY <2>1, <2>2, <2>3
<1>. QED BY <1>4, <1>5, <1>6, <1>7, <1>8 DEF rest

LEMMA FlagsLeft ==
    ASSUME NoFile, found' = found, at' = at,
           ~found => \A d \in Clients : client'[d] = "done" => client[d] = "done",
           \A d \in Clients : \A i \in 1..Len(stream'[d]) :
               \E j \in 1..Len(stream[d]) : stream'[d][i] = stream[d][j]
    PROVE  NoFile'
<1>. SUFFICES ASSUME ~found
              PROVE  /\ at' \notin {"body", "end"}
                     /\ \A d \in Clients : /\ client'[d] # "done"
                                           /\ \A i \in 1..Len(stream'[d]) :
                                                 stream'[d][i] = "flag"
  BY Zenon DEF NoFile
<1>1. at' \notin {"body", "end"} BY DEF NoFile
<1>2. ASSUME NEW d \in Clients PROVE client'[d] # "done" BY Zenon DEF NoFile
<1>3. ASSUME NEW d \in Clients, NEW i \in 1..Len(stream'[d])
      PROVE  stream'[d][i] = "flag"
  <2>1. PICK j \in 1..Len(stream[d]) : stream'[d][i] = stream[d][j] OBVIOUS
  <2>. QED BY <2>1 DEF NoFile
<1>. QED BY <1>1, <1>2, <1>3

LEMMA ReadNameStep ==
    ASSUME FileInv, NEW c \in Clients, ReadName(c) PROVE FileInv'
<1>1. PICK n \in 1..NameBuffer, opened \in BOOLEAN :
          /\ Takes(c, n, ~opened)
          /\ client' = [client EXCEPT ![c] = IF opened THEN "data" ELSE "gone"]
  BY DEF ReadName
<1>2. /\ Types /\ NoFile /\ NothingMissing /\ Starts(c) /\ client[c] = "name"
      /\ UNCHANGED <<zero_copy, found, at, table, todo, backlog, typed, saved>>
      /\ n \in Nat /\ n \in 1..Len(Name) /\ n \in 0..Len(stream[c])
      /\ client \in [Clients -> {"off", "name", "data", "cut", "done", "gone"}]
      /\ stream[c] \in Seq(Piece) /\ saved[c] \in Seq(Piece) /\ Len(stream[c]) \in Nat
  <2>1. NameBuffer = 2 /\ Len(Name) = 2 BY DEF NameBuffer, Name
  <2>2. Types BY DEF FileInv
  <2>3. stream[c] \in Seq(Piece) /\ Len(stream[c]) \in Nat /\ n <= Len(stream[c])
    BY <1>1, <2>2, LenProperties DEF Types, Takes
  <2>. QED BY <2>1, <2>2, <2>3 DEF FileInv, ReadName, serverVars, Types
<1>3. /\ stream' \in [Clients -> Seq(Piece)]
      /\ link' \in [Clients -> {"open", "closed", "error", "broken"}]
      /\ stream'[c] = IF ~opened THEN <<>>
                      ELSE SubSeq(stream[c], n + 1, Len(stream[c]))
      /\ opened => link'[c] = link[c]
      /\ \A d \in Clients \ {c} : link'[d] = link[d] /\ stream'[d] = stream[d]
      /\ \A d \in Clients : \A i \in 1..Len(stream'[d]) :
            \E j \in 1..Len(stream[d]) : stream'[d][i] = stream[d][j]
  BY <1>1, <1>2, TakesTypes
<1>4. Types' BY <1>1, <1>2, <1>3 DEF Types
<1>5. NoFile'
  <2>1. \A d \in Clients : client'[d] = "done" => client[d] = "done" BY <1>1, <1>2
  <2>. QED BY <1>2, <1>3, <2>1, FlagsLeft
<1>6. NothingMissing' BY <1>1, <1>2 DEF NothingMissing
<1>7. \A d \in Clients \ {c} : Starts(d)' /\ Reads(d)'
  <2>1. \A d \in Clients \ {c} : client'[d] = client[d] /\ saved'[d] = saved[d]
    BY <1>1, <1>2
  <2>. QED BY <1>2, <1>3, <2>1, OthersSame
<1>8. Starts(c)' BY <1>1, <1>2 DEF Starts
<1>9. Reads(c)'
  <2>1. CASE ~opened BY <1>1, <1>2, <2>1 DEF Reads
  <2>2. ASSUME opened, found PROVE Follows(c, n)'
    <3>. DEFINE rest == SubSeq(stream[c], n + 1, Len(stream[c]))
    <3>1. saved[c] = <<>> /\ Follows(c, 0) /\ 0 \in Nat BY <1>2, <2>2 DEF Starts
    <3>2. /\ Len(rest) = Len(stream[c]) - n
          /\ \A i \in 1..Len(rest) : rest[i] = Sent(0 + Len(saved[c]) + n + i)
      BY <1>2, <3>1, ReadOn
    <3>3. stream'[c] = rest /\ saved'[c] = saved[c] /\ Len(saved[c]) = 0
      BY <1>2, <1>3, <2>2, <3>1
    <3>. HIDE DEF rest
    <3>4. Len(rest) \in Nat BY <1>2, <3>2
    <3>5. \A i \in 1..Len(rest) : rest[i] = Sent(n + Len(saved[c]) + i)
      <4>1. \A i \in 1..Len(rest) : 0 + Len(saved[c]) + n + i = n + Len(saved[c]) + i
        BY <1>2, <3>3, <3>4
      <4>. QED BY <3>2, <4>1
    <3>6. Down' = Down /\ Phase(c)' = Phase(c) BY <1>2 DEF Down, Phase, Now
    <3>7. ~Down => (n + Len(saved[c]) + Len(rest)) % Len(Block) = Phase(c)
      <4>1. n + Len(saved[c]) + Len(rest) = 0 + Len(saved[c]) + Len(stream[c])
        BY <1>2, <3>2, <3>3
      <4>. QED BY <3>1, <4>1 DEF Follows
    <3>8. \A i \in 1..Len(saved[c]) : saved[c][i] = Sent(n + i) BY <3>3
    <3>. QED BY <3>3, <3>5, <3>6, <3>7, <3>8, Zenon DEF Follows
  <2>3. CASE opened
    <3>1. link'[c] = "open" /\ found' = found BY <1>2, <1>3, <2>3 DEF Starts
    <3>. QED BY <1>2, <2>2, <2>3, <3>1 DEF Reads
  <2>. QED BY <2>1, <2>3
<1>. QED BY <1>4, <1>5, <1>6, <1>7, <1>8, <1>9 DEF FileInv

(* A read that ends begins with the marker.                                *)
LEMMA Ended ==
    ASSUME NEW s \in Seq(Piece), NEW n \in 1..Len(s), Ends(SubSeq(s, 1, n))
    PROVE  n >= 2 /\ s[1] = "en" /\ s[2] = "d"
<1>. DEFINE chunk == SubSeq(s, 1, n)
<1>1. Len(s) \in Nat /\ n \in 1..Len(s) /\ n \in Nat BY LenProperties
<1>2. chunk \in Seq(Piece) /\ Len(chunk) = n /\ \A i \in 1..n : chunk[i] = s[i]
  <2>1. \A i \in 1..n : s[i] \in Piece
    <3>1. \A i \in 1..n : i \in 1..Len(s) BY <1>1
    <3>. QED BY <3>1, ElementOfSeq
  <2>2. /\ chunk \in Seq(Piece) /\ Len(chunk) = IF 1 <= n THEN n - 1 + 1 ELSE 0
        /\ \A i \in 1..n-1+1 : chunk[i] = s[1 + i - 1]
    BY <1>1, <2>1, SubSeqProperties
  <2>. QED BY <2>2, <1>1
<1>. HIDE DEF chunk
<1>3. Len(End) = 2 /\ End[1] = "en" /\ End[2] = "d" /\ End \in Seq({"en", "d"})
  BY DEF End
<1>4. /\ Len(End) <= Len(chunk)
      /\ SubSeq(End, 1, Len(End)) = SubSeq(chunk, 1, Len(End))
  BY DEF Ends, IsPrefix, chunk
<1>5. n >= 2 BY <1>1, <1>2, <1>3, <1>4
<1>6. /\ SubSeq(chunk, 1, 2)[1] = chunk[1] /\ SubSeq(chunk, 1, 2)[2] = chunk[2]
      /\ SubSeq(End, 1, 2)[1] = End[1] /\ SubSeq(End, 1, 2)[2] = End[2]
  BY <1>2, <1>3, <1>5
<1>. QED BY <1>1, <1>2, <1>3, <1>4, <1>5, <1>6

LEMMA ReadDataStep ==
    ASSUME FileInv, NoMark, NEW c \in Clients, ReadData(c) PROVE FileInv'
<1>1. PICK n \in 1..Buffer :
          LET chunk == SubSeq(stream[c], 1, n)
          IN  /\ Takes(c, n, Ends(chunk))
              /\ saved' = [saved EXCEPT ![c] = @ \o chunk]
              /\ client' = [client EXCEPT ![c] = IF Ends(chunk) THEN "done" ELSE @]
  BY DEF ReadData
<1>. DEFINE chunk == SubSeq(stream[c], 1, n)
            ends  == Ends(chunk)
            all   == saved[c] \o chunk
            rest  == SubSeq(stream[c], n + 1, Len(stream[c]))
<1>2. /\ Types /\ NoFile /\ NothingMissing /\ Reads(c) /\ client[c] = "data"
      /\ UNCHANGED <<zero_copy, found, at, table, todo, backlog, typed>>
      /\ client \in [Clients -> {"off", "name", "data", "cut", "done", "gone"}]
      /\ saved \in [Clients -> Seq(Piece)]
      /\ stream[c] \in Seq(Piece) /\ saved[c] \in Seq(Piece)
  BY DEF FileInv, ReadData, serverVars, Types
<1>3. /\ n \in Nat /\ n \in 1..Len(stream[c]) /\ n \in 0..Len(stream[c])
      /\ Len(stream[c]) \in Nat /\ Len(saved[c]) \in Nat
  <2>1. Len(stream[c]) \in Nat /\ Len(saved[c]) \in Nat BY <1>2, LenProperties
  <2>2. n \in Nat /\ n >= 1 BY FileFacts
  <2>3. n <= Len(stream[c]) BY <1>1 DEF Takes
  <2>. QED BY <2>1, <2>2, <2>3
<1>4. chunk \in Seq(Piece) /\ all \in Seq(Piece)
  <2>1. \A i \in 1..n : stream[c][i] \in Piece
    <3>1. \A i \in 1..n : i \in 1..Len(stream[c]) BY <1>3
    <3>. QED BY <1>2, <3>1, ElementOfSeq
  <2>2. chunk \in Seq(Piece) BY <1>2, <1>3, <2>1, SubSeqProperties
  <2>. HIDE DEF chunk
  <2>. QED BY <1>2, <2>2, ConcatProperties
<1>5. /\ Takes(c, n, ends) /\ ends \in BOOLEAN
      /\ saved' = [saved EXCEPT ![c] = all]
      /\ client' = [client EXCEPT ![c] = IF ends THEN "done" ELSE @]
  BY <1>1 DEF Ends, IsPrefix
<1>. HIDE DEF ends
<1>6. /\ stream' \in [Clients -> Seq(Piece)]
      /\ link' \in [Clients -> {"open", "closed", "error", "broken"}]
      /\ stream'[c] = IF ends THEN <<>> ELSE rest
      /\ ~ends => link'[c] = link[c]
      /\ \A d \in Clients \ {c} : link'[d] = link[d] /\ stream'[d] = stream[d]
      /\ \A d \in Clients : \A i \in 1..Len(stream'[d]) :
            \E j \in 1..Len(stream[d]) : stream'[d][i] = stream[d][j]
  BY <1>2, <1>3, <1>5, TakesTypes
<1>7. /\ saved'[c] = all /\ client'[c] = IF ends THEN "done" ELSE "data"
      /\ \A d \in Clients \ {c} : client'[d] = client[d] /\ saved'[d] = saved[d]
  BY <1>2, <1>5
<1>8. Types'
  <2>. HIDE DEF all
  <2>. QED BY <1>2, <1>4, <1>5, <1>6 DEF Types
<1>9. \A d \in Clients \ {c} : Starts(d)' /\ Reads(d)'
  BY <1>2, <1>6, <1>7, OthersSame
<1>10. Starts(c)' BY <1>7 DEF Starts
<1>11. ASSUME found
       PROVE  \E k \in 1..Len(Name) : Follows(c, k)
  BY <1>2, <1>3, <1>11, EmptySeq DEF Reads
<1>12. ASSUME NEW k \in 1..Len(Name), Follows(c, k)
       PROVE  /\ k \in Nat
              /\ Len(all) = Len(saved[c]) + n /\ Len(rest) = Len(stream[c]) - n
              /\ \A i \in 1..Len(all) : all[i] = Sent(k + i)
              /\ \A i \in 1..Len(rest) : rest[i] = Sent(k + Len(saved[c]) + n + i)
  <2>1. Len(Name) = 2 /\ k \in Nat BY <1>12 DEF Name
  <2>. QED BY <1>2, <1>3, <1>12, <2>1, ReadOn
<1>. HIDE DEF all, rest
<1>13. CASE ~ends
  <2>1. link'[c] = "open" /\ client'[c] = "data" /\ stream'[c] = rest
    BY <1>2, <1>6, <1>7, <1>13 DEF Reads
  <2>2. ASSUME NEW k \in 1..Len(Name), Follows(c, k) PROVE Follows(c, k)'
    <3>1. Down' = Down /\ Phase(c)' = Phase(c) BY <1>2 DEF Down, Phase, Now
    <3>2. /\ k \in Nat /\ Len(all) = Len(saved[c]) + n /\ Len(rest) = Len(stream[c]) - n
          /\ \A i \in 1..Len(all) : all[i] = Sent(k + i)
          /\ \A i \in 1..Len(rest) : rest[i] = Sent(k + Len(saved[c]) + n + i)
      BY <1>12, <2>2
    <3>. DEFINE x == Len(saved[c])
                y == Len(stream[c])
    <3>3. /\ x \in Nat /\ y \in Nat /\ n \in Nat /\ k \in Nat
          /\ Len(all) = x + n /\ Len(rest) = y - n
      BY <1>3, <3>2
    <3>. HIDE DEF x, y
    <3>4. k + Len(all) + Len(rest) = k + x + y BY <3>3
    <3>5. k + Len(all) = k + x + n BY <3>3
    <3>6. \A i \in 1..Len(rest) : rest[i] = Sent(k + Len(all) + i)
      BY <3>2, <3>5 DEF x
    <3>7. ~Down => (k + Len(all) + Len(rest)) % Len(Block) = Phase(c)
      BY <2>2, <3>4 DEF Follows, x, y
    <3>. QED BY <1>7, <2>1, <3>1, <3>2, <3>6, <3>7, Zenon DEF Follows
  <2>3. Reads(c)' BY <1>2, <1>11, <2>1, <2>2 DEF Reads
  <2>4. NoFile'
    <3>1. \A d \in Clients : client'[d] = "done" => client[d] = "done"
      BY <1>7, <2>1
    <3>. QED BY <1>2, <1>6, <3>1, FlagsLeft
  <2>5. NothingMissing'
    <3>1. ASSUME NEW d \in Clients, client'[d] = "done"
          PROVE  \E j \in 1..Len(Name) :
                     /\ Len(saved'[d]) >= Len(Name) - j + Len(File) + Len(End)
                     /\ \A i \in 1..Len(saved'[d]) : saved'[d][i] = Sent(j + i)
      <4>1. client[d] = "done" /\ saved'[d] = saved[d] BY <1>7, <2>1, <3>1
      <4>. QED BY <1>2, <4>1 DEF NothingMissing
    <3>. QED BY <3>1, Zenon DEF NothingMissing
  <2>. QED BY <1>8, <1>9, <1>10, <2>3, <2>4, <2>5 DEF FileInv
<1>14. CASE ends
  <2>1. n >= 2 /\ stream[c][1] = "en" /\ stream[c][2] = "d"
    BY <1>2, <1>3, <1>14, Ended DEF ends
  <2>2. 1 \in 1..Len(stream[c]) /\ 2 \in 1..Len(stream[c]) BY <1>3, <2>1
  <2>3. found BY <1>2, <2>1, <2>2 DEF NoFile
  <2>4. PICK k \in 1..Len(Name) : Follows(c, k) BY <1>11, <2>3
  <2>. DEFINE m == k + Len(saved[c])
  <2>5. /\ k \in Nat /\ m \in Nat /\ Len(all) = Len(saved[c]) + n
        /\ \A i \in 1..Len(all) : all[i] = Sent(k + i)
    <3>1. /\ k \in Nat /\ Len(all) = Len(saved[c]) + n
          /\ \A i \in 1..Len(all) : all[i] = Sent(k + i)
      BY <1>12, <2>4
    <3>. QED BY <1>3, <3>1
  <2>6. Sent(m + 1) = "en" /\ Sent(m + 2) = "d"
    BY <2>1, <2>2, <2>4, Zenon DEF Follows
  <2>7. m >= Len(Name) + Len(File)
    <3>. HIDE DEF m
    <3>. QED BY <2>5, <2>6, MarkAfterFile
  <2>8. Len(all) >= Len(Name) - k + Len(File) + Len(End)
    <3>1. Len(Name) = 2 /\ Len(End) = 2 /\ Len(File) \in Nat BY FileFacts
    <3>. QED BY <1>3, <2>1, <2>5, <2>7, <3>1
  <2>9. NothingMissing'
    <3>1. \A d \in Clients \ {c} : client'[d] = client[d] /\ saved'[d] = saved[d]
      BY <1>7
    <3>2. ASSUME NEW d \in Clients, client'[d] = "done"
          PROVE  \E j \in 1..Len(Name) :
                     /\ Len(saved'[d]) >= Len(Name) - j + Len(File) + Len(End)
                     /\ \A i \in 1..Len(saved'[d]) : saved'[d][i] = Sent(j + i)
      <4>1. CASE d = c BY <1>7, <2>5, <2>8, <4>1
      <4>2. CASE d # c
        <5>1. client[d] = "done" /\ saved'[d] = saved[d] BY <3>1, <3>2, <4>2
        <5>. QED BY <1>2, <5>1 DEF NothingMissing
      <4>. QED BY <4>1, <4>2
    <3>. QED BY <3>2, Zenon DEF NothingMissing
  <2>10. NoFile' BY <1>2, <2>3 DEF NoFile
  <2>11. Reads(c)' BY <1>7, <1>14 DEF Reads
  <2>. QED BY <1>8, <1>9, <1>10, <2>9, <2>10, <2>11 DEF FileInv
<1>. QED BY <1>13, <1>14

LEMMA ReadEndStep ==
    ASSUME FileInv, NEW c \in Clients, ReadEnd(c) PROVE FileInv'
<1>1. /\ Types /\ NoFile /\ NothingMissing /\ Starts(c) /\ Down /\ stream[c] = <<>>
      /\ UNCHANGED <<zero_copy, found, at, table, todo, backlog, typed, saved, link, stream>>
      /\ client \in [Clients -> {"off", "name", "data", "cut", "done", "gone"}]
  BY DEF FileInv, ReadEnd, serverVars, links, Types
<1>2. PICK end \in {"cut", "gone", "data"} :
          /\ client' = [client EXCEPT ![c] = end]
          /\ end = "data" => client[c] = "name"
  BY DEF ReadEnd
<1>3. Types' BY <1>1, <1>2 DEF Types
<1>4. \A d \in Clients : client'[d] = "done" => client[d] = "done" BY <1>1, <1>2
<1>5. NoFile' BY <1>1, <1>4 DEF NoFile
<1>6. NothingMissing' BY <1>1, <1>4 DEF NothingMissing
<1>7. \A d \in Clients \ {c} : Starts(d)' /\ Reads(d)' BY <1>1, <1>2, OthersSame
<1>8. Starts(c)' BY <1>1, <1>2 DEF Starts
<1>9. Reads(c)'
  <2>1. Down' BY <1>1 DEF Down
  <2>. QED BY <1>1, <1>2, <2>1 DEF Reads, Starts
<1>. QED BY <1>3, <1>5, <1>6, <1>7, <1>8, <1>9 DEF FileInv

LEMMA KillStep ==
    ASSUME FileInv, NEW c \in Clients, Kill(c) PROVE FileInv'
<1>1. /\ Types /\ NoFile /\ NothingMissing
      /\ client' = [client EXCEPT ![c] = "gone"] /\ Takes(c, 0, TRUE)
      /\ UNCHANGED <<zero_copy, found, at, table, todo, backlog, typed, saved>>
      /\ client \in [Clients -> {"off", "name", "data", "cut", "done", "gone"}]
  BY DEF FileInv, Kill, serverVars, Types
<1>2. /\ stream' \in [Clients -> Seq(Piece)]
      /\ link' \in [Clients -> {"open", "closed", "error", "broken"}]
      /\ \A d \in Clients \ {c} : link'[d] = link[d] /\ stream'[d] = stream[d]
      /\ \A d \in Clients : \A i \in 1..Len(stream'[d]) :
            \E j \in 1..Len(stream[d]) : stream'[d][i] = stream[d][j]
  BY <1>1, TakesTypes
<1>3. Types' BY <1>1, <1>2 DEF Types
<1>4. \A d \in Clients : client'[d] = "done" => client[d] = "done" BY <1>1
<1>5. NoFile' BY <1>1, <1>2, <1>4, FlagsLeft
<1>6. NothingMissing' BY <1>1, <1>4 DEF NothingMissing
<1>7. \A d \in Clients \ {c} : Starts(d)' /\ Reads(d)' BY <1>1, <1>2, OthersSame
<1>8. Starts(c)' /\ Reads(c)' BY <1>1 DEF Starts, Reads
<1>. QED BY <1>3, <1>5, <1>6, <1>7, <1>8 DEF FileInv

-----------------------------------------------------------------------------
LEMMA FileInit == ASSUME Init PROVE FileInv
<1>1. Types BY DEF Init, Types
<1>2. NoFile /\ NothingMissing BY DEF Init, NoFile, NothingMissing
<1>3. ASSUME NEW c \in Clients PROVE Follows(c, 0)
  <2>1. /\ saved[c] = <<>> /\ stream[c] = <<>> /\ Phase(c) = 0 BY DEF Init, Phase
  <2>2. Len(Block) \in Nat /\ Len(Block) > 0 BY FileFacts
  <2>3. 0 % Len(Block) = 0 BY <2>2, Division
  <2>4. 0 + Len(saved[c]) + Len(stream[c]) = 0 BY <2>1
  <2>. QED BY <2>1, <2>3, <2>4 DEF Follows
<1>4. \A c \in Clients : Starts(c) /\ Reads(c) BY <1>3 DEF Init, Starts, Reads
<1>. QED BY <1>1, <1>2, <1>4 DEF FileInv

LEMMA FileNext ==
    ASSUME FileInv, Fits, NoMark, [Next]_vars PROVE FileInv'
<1>1. CASE ServerStep
  BY <1>1, RoundStep, LineStep, SendNameStep, SendBodyStep, SendEndStep, SigPipeStep
  DEF ServerStep
<1>2. CASE TypeLine \/ UNCHANGED vars BY <1>2, SameStep
<1>3. ASSUME NEW c \in Clients, Connect(c) \/ ClientStep(c) \/ Kill(c) PROVE FileInv'
  BY <1>3, ConnectStep, ReadNameStep, ReadDataStep, ReadEndStep, KillStep
  DEF ClientStep
<1>. QED BY <1>1, <1>2, <1>3 DEF Next

LEMMA FitsNext == ASSUME Fits, [Next]_vars PROVE Fits'
<1>1. zero_copy' = zero_copy
  BY Zenon DEF Next, vars, ServerStep, ClientStep, Round, Fgets, Read, ReadLine, SendName,
               SendBody, SendEnd, SigPipe, TypeLine, Connect, ReadName, ReadData,
               ReadEnd, Kill
<1>. QED BY <1>1 DEF Fits

(* If a file that is copied with sendfile fits in one call, and the marker *)
(* does not occur in the file, a client that takes a read for the end has  *)
(* saved every piece it was sent, in order, and a whole file among them,   *)
(* in every run: whatever the pieces in which it reads, whoever else       *)
(* leaves and however often the file was sent to it before it recognised   *)
(* the end.  What it saved between them is another matter: zeros may be    *)
(* there (FileUnbroken)                                                    *)
(* (src/file_transfer/zero_copy/client.c:54-103, server.c:190-252).        *)
THEOREM NobodyMissesAnything ==
    ASSUME NoMark PROVE Fits /\ Spec => []NothingMissing
<1>1. Init => FileInv BY FileInit
<1>2. FileInv /\ Fits /\ [Next]_vars => FileInv' /\ Fits' BY FileNext, FitsNext
<1>3. FileInv => NothingMissing BY DEF FileInv
<1>. QED BY <1>1, <1>2, <1>3, PTL DEF Spec
=============================================================================
