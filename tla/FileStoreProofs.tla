---------------------------- MODULE FileStoreProofs ----------------------------
(***************************************************************************)
(* Theorems about FileStore, for any rooms and any length of stream: the   *)
(* types, and that the files hold the live data at rest; when nothing is   *)
(* stored while a commit runs, that the files are backed up before they    *)
(* change; and, if the process does not die inside deleteAllData, that no  *)
(* event is lost and neither messages nor state of a room that was left    *)
(* come back, whenever else it dies.                                       *)
(*                                                                         *)
(* While a commit runs the live data stand still, so that what is listed,  *)
(* queued or being written is what the live data say; what is not, is on   *)
(* the disk.  The backups bear the token of the old files, and fit it.     *)
(* The outgoing messages are the exception: one commit can move them away  *)
(* with the folder of their room and write them again.                     *)
(***************************************************************************)
EXTENDS FileStore, TLAPS

(***************************************************************************)
(* Files, tokens and types.                                                *)
(***************************************************************************)
LEMMA FilesFacts ==
  /\ MetaFile \in Files
  /\ \A r \in Rooms : MessagesFile(r) \in Files /\ StateFile(r) \in Files /\ OutgoingFile(r) \in Files
  /\ \A r \in Rooms : MessagesFile(r) # MetaFile /\ StateFile(r) # MetaFile /\ OutgoingFile(r) # MetaFile
  /\ \A r \in Rooms : /\ MessagesFile(r)[1] = "messages" /\ StateFile(r)[1] = "state"
                       /\ OutgoingFile(r)[1] = "outgoingMessages"
  /\ \A r, s \in Rooms : /\ MessagesFile(r) # StateFile(s)
                         /\ MessagesFile(r) = MessagesFile(s) => r = s
                         /\ StateFile(r) = StateFile(s) => r = s
                         /\ OutgoingFile(r) = OutgoingFile(s) => r = s
  /\ \A f \in Files : f # MetaFile =>
       \E r \in Rooms : f = MessagesFile(r) \/ f = StateFile(r) \/ f = OutgoingFile(r)
BY DEF Files, RoomFolder, RoomFiles, MessagesFile, StateFile, OutgoingFile, MetaFile

LEMMA RoomFilesFacts ==
  ASSUME NEW r \in Rooms
  PROVE  /\ RoomFiles(r) = {MessagesFile(r), StateFile(r)}
         /\ \A f \in RoomFiles(r) : f \in Files /\ f # MetaFile
         /\ \A s \in Rooms : \A f \in RoomFiles(s) : f \in RoomFiles(r) => s = r
         /\ RoomFiles(r) \subseteq RoomFolder(r)
         /\ RoomFolder(r) = RoomFiles(r) \cup {OutgoingFile(r)}
         /\ OutgoingFile(r) \notin RoomFiles(r) /\ OutgoingFile(r) \in Files /\ OutgoingFile(r) # MetaFile
         /\ \A f \in RoomFolder(r) : f \in Files /\ f # MetaFile
         /\ \A s \in Rooms : \A f \in RoomFolder(s) : f \in RoomFolder(r) => s = r
<1>1. \A s \in Rooms : RoomFiles(s) = {MessagesFile(s), StateFile(s)}
  BY DEF RoomFiles
<1>2. \A s \in Rooms : \A f \in RoomFolder(s) : f = MessagesFile(s) \/ f = StateFile(s) \/ f = OutgoingFile(s)
  BY <1>1 DEF RoomFolder
<1>3. RoomFolder(r) = RoomFiles(r) \cup {OutgoingFile(r)}
  BY DEF RoomFolder
<1>4. \A s \in Rooms : /\ MessagesFile(s) # OutgoingFile(r) /\ OutgoingFile(s) # MessagesFile(r)
                      /\ StateFile(s) # OutgoingFile(r) /\ OutgoingFile(s) # StateFile(r)
                      /\ MessagesFile(s) # StateFile(r) /\ StateFile(s) # MessagesFile(r)
  BY FilesFacts
<1>5. \A s \in Rooms : \A f \in RoomFolder(s) : f \in RoomFolder(r) => s = r
  BY <1>2, <1>4, FilesFacts
<1>6. \A f \in RoomFolder(r) : f \in Files /\ f # MetaFile
  BY <1>2, FilesFacts
<1>7. OutgoingFile(r) \notin RoomFiles(r)
  BY <1>1, <1>4
<1>8. \A s \in Rooms : \A f \in RoomFiles(s) : f \in RoomFolder(s)
  BY DEF RoomFolder
<1>9. /\ \A f \in RoomFiles(r) : f \in Files /\ f # MetaFile
      /\ \A s \in Rooms : \A f \in RoomFiles(s) : f \in RoomFiles(r) => s = r
  BY <1>5, <1>6, <1>8
<1>. QED
  BY <1>1, <1>3, <1>5, <1>6, <1>7, <1>8, <1>9, FilesFacts

\* The files that deleteRoom leaves in memory.
Outgoing == {OutgoingFile(r) : r \in Rooms}

LEMMA OutgoingFacts ==
  /\ MetaFile \notin Outgoing
  /\ \A r \in Rooms : OutgoingFile(r) \in Outgoing /\ MessagesFile(r) \notin Outgoing /\ StateFile(r) \notin Outgoing
  /\ \A r \in Rooms : \A f \in RoomFiles(r) : f \notin Outgoing
  /\ \A r \in Rooms : \A f \in RoomFolder(r) : f \notin Outgoing => f \in RoomFiles(r)
  /\ \A f \in Outgoing : f \in Files /\ f[1] = "outgoingMessages" /\ f # MetaFile
<1>1. \A r \in Rooms : RoomFiles(r) = {MessagesFile(r), StateFile(r)} /\ RoomFolder(r) = RoomFiles(r) \cup {OutgoingFile(r)}
  BY RoomFilesFacts
<1>2. \A f \in Outgoing : f \in Files /\ f[1] = "outgoingMessages" /\ f # MetaFile
  BY FilesFacts DEF Outgoing
<1>3. \A r \in Rooms : OutgoingFile(r) \in Outgoing
  BY DEF Outgoing
<1>4. \A r \in Rooms : MessagesFile(r) \notin Outgoing /\ StateFile(r) \notin Outgoing
  BY <1>2, FilesFacts
<1>. QED
  BY <1>1, <1>2, <1>3, <1>4

LEMMA TokenFacts ==
  /\ NilToken \in Token /\ \A n \in 0..MaxPos : 1..n \in Token
  /\ Absent \notin Token
  /\ \A t \in Token : t \subseteq Pos /\ Stored(t) = t
  /\ Stored(Absent) = NilToken
  /\ \A c \in Content : Stored(c) \subseteq Pos
  /\ Absent \in Content /\ \A S \in SUBSET Pos : S \in Content /\ S # Absent /\ Stored(S) = S
<1>1. NilToken \in Token /\ \A n \in 0..MaxPos : 1..n \in Token
  <2>1. 1..0 = {}
    OBVIOUS
  <2>. QED
    BY <2>1, MaxPosAssumption DEF Token, NilToken
<1>2. \A t \in Token : t \in SUBSET Pos
  BY MaxPosAssumption DEF Token, Pos
<1>3. \A S \in SUBSET Pos : S # Absent
  BY AbsentAssumption DEF Pos
<1>. QED
  BY <1>1, <1>2, <1>3 DEF Stored, Content, NilToken

\* What holds a token in the file of the metadata.
TokenIn(c) == c \in Token \cup {Absent}
Store(x) == x \in Folder /\ TokenIn(x[MetaFile])

Typed ==
  /\ pos \in 0..MaxPos
  /\ timeline \in [Rooms -> SUBSET Pos]
  /\ left \in [Rooms -> 0..MaxPos]
  /\ phase \in {"down", "opening", "repaired", "wiping", "up", "closing"}
  /\ Store(live)
  /\ response \in Response
  /\ dirty \subseteq Files
  /\ Store(stateToCommit)
  /\ toDelete \subseteq Rooms
  /\ queue \in Seq(Block)
  /\ \A i \in DOMAIN queue : Store(queue[i].snapshot)
  /\ cursor \in Cursor /\ (cursor.file = MetaFile => TokenIn(cursor.content))
  /\ backupToken \in Token
  /\ Store(disk)
  /\ backup \in [Token -> Folder] /\ \A t \in Token : Store(backup[t])

\* A commit that has finished is pending, and there is an end block for each other.
Ending(i) == i \in DOMAIN queue /\ queue[i].op = "commitEnd"
Counted ==
  /\ pendingCommits \in 0..2 /\ finished \in 0..pendingCommits
  /\ \A i \in DOMAIN queue : Ending(i) => finished + 1 <= pendingCommits
  /\ \A i, j \in DOMAIN queue : i < j /\ Ending(i) /\ Ending(j) => finished + 2 <= pendingCommits
  /\ \A i, j, k \in DOMAIN queue : i < j /\ j < k => ~(Ending(i) /\ Ending(j) /\ Ending(k))

Types == Typed /\ Counted

(***************************************************************************)
(* Queues of blocks.                                                       *)
(***************************************************************************)
Ends == {"commitEnd", "closeEnd"}
Before(a, b) ==
  \/ a = "delete" /\ b \in {"messages", "state", "metaData"}
  \/ a = "messages" /\ b \in {"state", "metaData"}
  \/ a = "state" /\ b = "metaData"
InOrder(q) == \A i, j \in DOMAIN q : i < j => q[j].op \in Ends \/ Before(q[i].op, q[j].op)
Has(q, f) == \E i \in DOMAIN q : f \in q[i].todo

LEMMA Joined ==
  ASSUME NEW p \in Seq(Block), NEW q \in Seq(Block)
  PROVE  /\ p \o q \in Seq(Block) /\ Len(p \o q) = Len(p) + Len(q)
         /\ \A i \in DOMAIN p : i \in DOMAIN (p \o q) /\ (p \o q)[i] = p[i]
         /\ \A i \in DOMAIN q : Len(p) + i \in DOMAIN (p \o q) /\ (p \o q)[Len(p) + i] = q[i]
         /\ \A i \in DOMAIN (p \o q) : \/ i \in DOMAIN p
                                       \/ i \notin DOMAIN p /\ i - Len(p) \in DOMAIN q
                                          /\ (p \o q)[i] = q[i - Len(p)]
OBVIOUS

LEMMA JoinedInOrder ==
  ASSUME NEW p \in Seq(Block), NEW q \in Seq(Block), InOrder(p), InOrder(q),
         \A i \in DOMAIN p : \A j \in DOMAIN q : q[j].op \in Ends \/ Before(p[i].op, q[j].op)
  PROVE  InOrder(p \o q)
<1> SUFFICES ASSUME NEW i \in DOMAIN (p \o q), NEW j \in DOMAIN (p \o q), i < j
             PROVE  (p \o q)[j].op \in Ends \/ Before((p \o q)[i].op, (p \o q)[j].op)
  BY DEF InOrder
<1>. DEFINE r == p \o q
<1>1. /\ i \in Nat /\ j \in Nat /\ Len(p) \in Nat /\ Len(q) \in Nat
      /\ DOMAIN p = 1..Len(p) /\ DOMAIN q = 1..Len(q)
      /\ i \in DOMAIN p => r[i] = p[i]
      /\ j \in DOMAIN p => r[j] = p[j]
      /\ i \in DOMAIN p \/ (i \notin DOMAIN p /\ i - Len(p) \in DOMAIN q /\ r[i] = q[i - Len(p)])
      /\ j \in DOMAIN p \/ (j \notin DOMAIN p /\ j - Len(p) \in DOMAIN q /\ r[j] = q[j - Len(p)])
  BY Joined
<1>. HIDE DEF r
<1>2. CASE i \in DOMAIN p /\ j \in DOMAIN p
  BY <1>1, <1>2 DEF InOrder, r
<1>3. CASE i \in DOMAIN p /\ j \notin DOMAIN p
  BY <1>1, <1>3 DEF r
<1>4. CASE i \notin DOMAIN p /\ j \notin DOMAIN p
  <2>1. i - Len(p) < j - Len(p)
    BY <1>1
  <2>2. r[i] = q[i - Len(p)] /\ r[j] = q[j - Len(p)] /\ i - Len(p) \in DOMAIN q /\ j - Len(p) \in DOMAIN q
    BY <1>1, <1>4
  <2>. QED
    BY <2>1, <2>2 DEF InOrder, r
<1>5. ~(i \notin DOMAIN p /\ j \in DOMAIN p)
  BY <1>1
<1>. QED
  BY <1>2, <1>3, <1>4, <1>5

LEMMA JoinedHas ==
  ASSUME NEW p \in Seq(Block), NEW q \in Seq(Block), NEW f
  PROVE  Has(p \o q, f) <=> Has(p, f) \/ Has(q, f)
<1>1. ASSUME NEW i \in DOMAIN (p \o q), f \in (p \o q)[i].todo
      PROVE  Has(p, f) \/ Has(q, f)
  BY <1>1, Joined DEF Has
<1>2. ASSUME NEW i \in DOMAIN p, f \in p[i].todo
      PROVE  Has(p \o q, f)
  BY <1>2, Joined DEF Has
<1>3. ASSUME NEW i \in DOMAIN q, f \in q[i].todo
      PROVE  Has(p \o q, f)
  <2>1. Len(p) + i \in DOMAIN (p \o q) /\ (p \o q)[Len(p) + i] = q[i]
    BY Joined
  <2>. QED
    BY <1>3, <2>1 DEF Has
<1>. QED
  BY <1>1, <1>2, <1>3 DEF Has

\* A block per list that is not empty.
LEMMA BlockIfFacts ==
  ASSUME NEW op \in {"delete", "messages", "state", "metaData"},
         NEW todo \in SUBSET Files, NEW snapshot \in Folder,
         NEW q, q = BlockIf(op, todo, snapshot)
  PROVE  /\ q \in Seq(Block) /\ Len(q) <= 1
         /\ \A i \in DOMAIN q : i = 1 /\ q[i].op = op /\ q[i].todo = todo /\ q[i].snapshot = snapshot
         /\ InOrder(q)
         /\ \A f : Has(q, f) <=> f \in todo
<1>1. CASE todo = {}
  BY <1>1 DEF BlockIf, InOrder, Has
<1>2. CASE todo # {}
  <2>. DEFINE b == [op |-> op, todo |-> todo, snapshot |-> snapshot]
  <2>1. b \in Block /\ q = <<b>> /\ b.op = op /\ b.todo = todo /\ b.snapshot = snapshot
    BY <1>2 DEF BlockIf, Block
  <2>. HIDE DEF b
  <2>. QED
    BY <2>1 DEF InOrder, Has
<1>. QED
  BY <1>1, <1>2

\* The queue with the files of F done in its first block: the block is the same, or gone.
Dealt(q, p, F, c) ==
  /\ q \in Seq(Block) /\ c \in {0, 1} /\ Len(q) = Len(p) - c /\ (c = 1 <=> p[1].todo \subseteq F)
  /\ \A i \in DOMAIN q :
       /\ i + c \in DOMAIN p
       /\ q[i].op = p[i + c].op /\ q[i].snapshot = p[i + c].snapshot
       /\ q[i].todo = IF i + c = 1 THEN p[i + c].todo \ F ELSE p[i + c].todo

LEMMA WithoutFacts ==
  ASSUME queue \in Seq(Block), queue # <<>>, NEW F
  PROVE  \E c \in {0, 1} : Dealt(Without(F), queue, F, c)
<1>0. Len(queue) \in Nat /\ Len(queue) > 0 /\ DOMAIN queue = 1..Len(queue) /\ 1 \in DOMAIN queue
  OBVIOUS
<1>1. CASE queue[1].todo \subseteq F
  <2>1. Without(F) = Tail(queue)
    BY <1>1 DEF Without, Head1
  <2>2. /\ Tail(queue) \in Seq(Block) /\ Len(Tail(queue)) = Len(queue) - 1
        /\ \A i \in DOMAIN Tail(queue) : i + 1 \in DOMAIN queue /\ Tail(queue)[i] = queue[i + 1] /\ i + 1 # 1
    BY <1>0
  <2>. QED
    BY <1>1, <2>1, <2>2 DEF Dealt
<1>2. CASE ~(queue[1].todo \subseteq F)
  <2>. DEFINE b == [queue[1] EXCEPT !.todo = @ \ F]
  <2>1. queue[1] \in Block
    BY <1>0
  <2>2. b \in Block /\ b.op = queue[1].op /\ b.snapshot = queue[1].snapshot /\ b.todo = queue[1].todo \ F
    BY <2>1 DEF Block
  <2>3. Without(F) = [queue EXCEPT ![1] = b]
    BY <1>0, <1>2 DEF Without, Head1
  <2>. HIDE DEF b
  <2>4. /\ [queue EXCEPT ![1] = b] \in Seq(Block) /\ Len([queue EXCEPT ![1] = b]) = Len(queue)
        /\ \A i \in DOMAIN queue : [queue EXCEPT ![1] = b][i] = IF i = 1 THEN b ELSE queue[i]
    BY <1>0, <2>2
  <2>5. \A i \in DOMAIN queue : i + 0 = i
    BY <1>0
  <2>. DEFINE w == [queue EXCEPT ![1] = b]
  <2>6. DOMAIN w = DOMAIN queue /\ Len(w) = Len(queue) - 0
    BY <1>0, <2>4
  <2>7. \A i \in DOMAIN w :
          /\ i + 0 \in DOMAIN queue /\ w[i].op = queue[i + 0].op /\ w[i].snapshot = queue[i + 0].snapshot
          /\ w[i].todo = IF i + 0 = 1 THEN queue[i + 0].todo \ F ELSE queue[i + 0].todo
    BY <2>2, <2>4, <2>5, <2>6
  <2>8. w \in Seq(Block)
    BY <2>4
  <2>. HIDE DEF w
  <2>a. 0 \in {0, 1} /\ (0 = 1 <=> queue[1].todo \subseteq F)
    BY <1>2
  <2>9. Dealt(w, queue, F, 0)
    BY ONLY <2>a, <2>6, <2>7, <2>8, Zenon DEF Dealt
  <2>. QED
    BY <2>3, <2>9 DEF w
<1>. QED
  BY <1>1, <1>2

(***************************************************************************)
(* What saveDataToFiles queues.                                            *)
(***************************************************************************)
ListedIn(f) == \E r \in toDelete : f \in RoomFolder(r)
Listed(f) == f \in dirty \/ stateToCommit[f] # Absent \/ ListedIn(f)
ToDeleteFiles == UNION {RoomFolder(r) : r \in toDelete}
StateFiles == {f \in Files : stateToCommit[f] # Absent}
DirtyMessages == dirty \ {MetaFile}
DirtyMetaData == dirty \cap {MetaFile}

\* A block made of one of the lists.
FromList(b) ==
  \/ b.op = "delete" /\ b.todo = ToDeleteFiles /\ b.snapshot = EmptyFolder /\ toDelete # {}
  \/ b.op = "messages" /\ b.todo = DirtyMessages /\ b.snapshot = EmptyFolder
  \/ b.op = "state" /\ b.todo = StateFiles /\ b.snapshot = stateToCommit
  \/ b.op = "metaData" /\ b.todo = DirtyMetaData /\ b.snapshot = EmptyFolder

LEMMA EmptyFolderFacts ==
  /\ EmptyFolder \in Folder /\ Store(EmptyFolder) /\ \A f \in Files : EmptyFolder[f] = Absent
BY FilesFacts, TokenFacts DEF EmptyFolder, Folder, Store, TokenIn

LEMMA SaveBlocksFacts ==
  ASSUME Typed
  PROVE  /\ SaveBlocks \in Seq(Block) /\ InOrder(SaveBlocks)
         /\ \A i \in DOMAIN SaveBlocks : FromList(SaveBlocks[i])
         /\ \A f \in Files : Has(SaveBlocks, f) <=> Listed(f)
<1>. DEFINE a == BlockIf("delete", ToDeleteFiles, EmptyFolder)
            b == BlockIf("messages", DirtyMessages, EmptyFolder)
            c == BlockIf("state", StateFiles, stateToCommit)
            d == BlockIf("metaData", DirtyMetaData, EmptyFolder)
<1>1. SaveBlocks = a \o b \o c \o d
  BY DEF SaveBlocks, ToDeleteFiles, StateFiles, DirtyMessages, DirtyMetaData
<1>2. /\ ToDeleteFiles \in SUBSET Files /\ DirtyMessages \in SUBSET Files
      /\ StateFiles \in SUBSET Files /\ DirtyMetaData \in SUBSET Files
      /\ EmptyFolder \in Folder /\ stateToCommit \in Folder
      /\ ToDeleteFiles # {} => toDelete # {}
  <2>1. \A r \in toDelete : RoomFolder(r) \subseteq Files
    BY RoomFilesFacts DEF Typed
  <2>. QED
    BY <2>1, EmptyFolderFacts, FilesFacts DEF Typed, Store, ToDeleteFiles, StateFiles, DirtyMessages, DirtyMetaData
<1>3. /\ a \in Seq(Block) /\ InOrder(a)
      /\ \A i \in DOMAIN a : i = 1 /\ a[i].op = "delete" /\ a[i].todo = ToDeleteFiles /\ a[i].snapshot = EmptyFolder
      /\ \A f : Has(a, f) <=> f \in ToDeleteFiles
  <2>1. PICK op \in {"delete", "messages", "state", "metaData"} : op = "delete"
    OBVIOUS
  <2>2. a = BlockIf(op, ToDeleteFiles, EmptyFolder)
    BY <2>1
  <2>. HIDE DEF a, b, c, d
  <2>. QED
    BY <1>2, <2>1, <2>2, BlockIfFacts
<1>4. /\ b \in Seq(Block) /\ InOrder(b)
      /\ \A i \in DOMAIN b : i = 1 /\ b[i].op = "messages" /\ b[i].todo = DirtyMessages /\ b[i].snapshot = EmptyFolder
      /\ \A f : Has(b, f) <=> f \in DirtyMessages
  <2>1. PICK op \in {"delete", "messages", "state", "metaData"} : op = "messages"
    OBVIOUS
  <2>2. b = BlockIf(op, DirtyMessages, EmptyFolder)
    BY <2>1
  <2>. HIDE DEF a, b, c, d
  <2>. QED
    BY <1>2, <2>1, <2>2, BlockIfFacts
<1>5. /\ c \in Seq(Block) /\ InOrder(c)
      /\ \A i \in DOMAIN c : i = 1 /\ c[i].op = "state" /\ c[i].todo = StateFiles /\ c[i].snapshot = stateToCommit
      /\ \A f : Has(c, f) <=> f \in StateFiles
  <2>1. PICK op \in {"delete", "messages", "state", "metaData"} : op = "state"
    OBVIOUS
  <2>2. c = BlockIf(op, StateFiles, stateToCommit)
    BY <2>1
  <2>. HIDE DEF a, b, c, d
  <2>. QED
    BY <1>2, <2>1, <2>2, BlockIfFacts
<1>6. /\ d \in Seq(Block) /\ InOrder(d)
      /\ \A i \in DOMAIN d : i = 1 /\ d[i].op = "metaData" /\ d[i].todo = DirtyMetaData /\ d[i].snapshot = EmptyFolder
      /\ \A f : Has(d, f) <=> f \in DirtyMetaData
  <2>1. PICK op \in {"delete", "messages", "state", "metaData"} : op = "metaData"
    OBVIOUS
  <2>2. d = BlockIf(op, DirtyMetaData, EmptyFolder)
    BY <2>1
  <2>. HIDE DEF a, b, c, d
  <2>. QED
    BY <1>2, <2>1, <2>2, BlockIfFacts
<1>7. \A i \in DOMAIN a : FromList(a[i])
  <2> SUFFICES ASSUME NEW i \in DOMAIN a PROVE FromList(a[i])
    OBVIOUS
  <2>1. ToDeleteFiles # {}
    BY DEF BlockIf
  <2>. QED
    BY <1>2, <1>3, <2>1 DEF FromList
<1>8. /\ \A i \in DOMAIN b : FromList(b[i])
      /\ \A i \in DOMAIN c : FromList(c[i])
      /\ \A i \in DOMAIN d : FromList(d[i])
  BY <1>4, <1>5, <1>6 DEF FromList
<1>. HIDE DEF a, b, c, d
<1>9. /\ a \o b \in Seq(Block) /\ InOrder(a \o b)
      /\ \A i \in DOMAIN (a \o b) : FromList((a \o b)[i]) /\ (a \o b)[i].op \in {"delete", "messages"}
      /\ \A f : Has(a \o b, f) <=> Has(a, f) \/ Has(b, f)
  <2>1. \A i \in DOMAIN a : \A j \in DOMAIN b : b[j].op \in Ends \/ Before(a[i].op, b[j].op)
    BY <1>3, <1>4 DEF Before
  <2>2. a \o b \in Seq(Block) /\ InOrder(a \o b)
    BY <1>3, <1>4, <2>1, Joined, JoinedInOrder
  <2>3. \A f : Has(a \o b, f) <=> Has(a, f) \/ Has(b, f)
    BY <1>3, <1>4, JoinedHas
  <2>4. \A i \in DOMAIN (a \o b) : \/ i \in DOMAIN a /\ (a \o b)[i] = a[i]
                                   \/ i - Len(a) \in DOMAIN b /\ (a \o b)[i] = b[i - Len(a)]
    BY <1>3, <1>4, Joined
  <2>. QED
    BY <1>3, <1>4, <1>7, <1>8, <2>2, <2>3, <2>4
<1>. DEFINE e == a \o b
<1>. HIDE DEF e
<1>10. /\ e \o c \in Seq(Block) /\ InOrder(e \o c)
       /\ \A i \in DOMAIN (e \o c) : FromList((e \o c)[i]) /\ (e \o c)[i].op \in {"delete", "messages", "state"}
       /\ \A f : Has(e \o c, f) <=> Has(e, f) \/ Has(c, f)
  <2>0. e \in Seq(Block) /\ InOrder(e) /\ \A i \in DOMAIN e : FromList(e[i]) /\ e[i].op \in {"delete", "messages"}
    BY <1>9 DEF e
  <2>1. \A i \in DOMAIN e : \A j \in DOMAIN c : c[j].op \in Ends \/ Before(e[i].op, c[j].op)
    BY <1>5, <2>0 DEF Before
  <2>2. e \o c \in Seq(Block) /\ InOrder(e \o c)
    BY <1>5, <2>0, <2>1, Joined, JoinedInOrder
  <2>3. \A f : Has(e \o c, f) <=> Has(e, f) \/ Has(c, f)
    BY <1>5, <2>0, JoinedHas
  <2>4. \A i \in DOMAIN (e \o c) : \/ i \in DOMAIN e /\ (e \o c)[i] = e[i]
                                   \/ i - Len(e) \in DOMAIN c /\ (e \o c)[i] = c[i - Len(e)]
    BY <1>5, <2>0, Joined
  <2>. QED
    BY <1>5, <1>8, <2>0, <2>2, <2>3, <2>4
<1>. DEFINE g == e \o c
<1>. HIDE DEF g
<1>11. /\ g \o d \in Seq(Block) /\ InOrder(g \o d)
       /\ \A i \in DOMAIN (g \o d) : FromList((g \o d)[i])
       /\ \A f : Has(g \o d, f) <=> Has(g, f) \/ Has(d, f)
  <2>0. g \in Seq(Block) /\ InOrder(g) /\ \A i \in DOMAIN g : FromList(g[i]) /\ g[i].op \in {"delete", "messages", "state"}
    BY <1>10 DEF g
  <2>1. \A i \in DOMAIN g : \A j \in DOMAIN d : d[j].op \in Ends \/ Before(g[i].op, d[j].op)
    BY <1>6, <2>0 DEF Before
  <2>2. g \o d \in Seq(Block) /\ InOrder(g \o d)
    BY <1>6, <2>0, <2>1, Joined, JoinedInOrder
  <2>3. \A f : Has(g \o d, f) <=> Has(g, f) \/ Has(d, f)
    BY <1>6, <2>0, JoinedHas
  <2>4. \A i \in DOMAIN (g \o d) : \/ i \in DOMAIN g /\ (g \o d)[i] = g[i]
                                   \/ i - Len(g) \in DOMAIN d /\ (g \o d)[i] = d[i - Len(g)]
    BY <1>6, <2>0, Joined
  <2>. QED
    BY <1>6, <1>8, <2>0, <2>2, <2>3, <2>4
<1>12. SaveBlocks = g \o d
  BY <1>1 DEF e, g
<1>13. \A f \in Files : Has(SaveBlocks, f) <=> Listed(f)
  BY <1>3, <1>4, <1>5, <1>6, <1>9, <1>10, <1>11, <1>12, FilesFacts
     DEF Listed, ListedIn, ToDeleteFiles, StateFiles, DirtyMessages, DirtyMetaData, e, g
<1>. QED
  BY <1>11, <1>12, <1>13

\* The blocks of a commit come after what is queued, its end block last.
LEMMA SavedQueue ==
  ASSUME Typed, NEW end \in Ends, SaveDataToFiles(end)
  PROVE  /\ queue' \in Seq(Block) /\ Len(queue') > Len(queue)
         /\ \A i \in DOMAIN queue : i \in DOMAIN queue' /\ queue'[i] = queue[i]
         /\ \A i \in DOMAIN queue' :
              \/ i \in DOMAIN queue
              \/ i \notin DOMAIN queue /\ i < Len(queue') /\ FromList(queue'[i])
              \/ i \notin DOMAIN queue /\ i = Len(queue') /\ queue'[i].op = end /\ queue'[i].todo = {}
                 /\ queue'[i].snapshot = EmptyFolder
         /\ queue'[Len(queue')].op = end
         /\ \A f \in Files : Has(queue', f) <=> Has(queue, f) \/ Listed(f)
         /\ \A f \in Files : Listed(f) =>
              \E i \in DOMAIN queue' : i \notin DOMAIN queue /\ f \in queue'[i].todo
         /\ InOrder(queue) /\ (queue = <<>> \/ \A f \in Files : ~Listed(f)) => InOrder(queue')
<1>. DEFINE s == SaveBlocks
            b == [op |-> end, todo |-> {}, snapshot |-> EmptyFolder]
<1>1. /\ s \in Seq(Block) /\ InOrder(s) /\ \A i \in DOMAIN s : FromList(s[i])
      /\ \A f \in Files : Has(s, f) <=> Listed(f)
  BY SaveBlocksFacts
<1>2. queue \in Seq(Block) /\ queue' = (queue \o s) \o <<b>>
  BY DEF Typed, SaveDataToFiles, EndBlock
<1>3. b \in Block /\ b.op = end /\ b.todo = {} /\ b.snapshot = EmptyFolder
  BY EmptyFolderFacts DEF Block, Ends
<1>. HIDE DEF s, b
<1>4. /\ <<b>> \in Seq(Block) /\ Len(<<b>>) = 1 /\ DOMAIN <<b>> = {1} /\ <<b>>[1] = b
      /\ InOrder(<<b>>) /\ \A f : ~Has(<<b>>, f)
  BY <1>3 DEF InOrder, Has
<1>. DEFINE p == queue \o s
<1>5. /\ p \in Seq(Block) /\ Len(p) = Len(queue) + Len(s)
      /\ \A i \in DOMAIN queue : i \in DOMAIN p /\ p[i] = queue[i]
      /\ \A i \in DOMAIN p : \/ i \in DOMAIN queue
                             \/ i \notin DOMAIN queue /\ i - Len(queue) \in DOMAIN s /\ p[i] = s[i - Len(queue)]
      /\ \A f : Has(p, f) <=> Has(queue, f) \/ Has(s, f)
  <2>1. \A f : Has(p, f) <=> Has(queue, f) \/ Has(s, f)
    BY <1>1, <1>2, JoinedHas
  <2>. QED
    BY <1>1, <1>2, <2>1, Joined
<1>6. InOrder(queue) /\ (queue = <<>> \/ \A f \in Files : ~Listed(f)) => InOrder(p)
  <2>1. CASE queue = <<>>
    BY <1>1, <2>1
  <2>2. CASE \A f \in Files : ~Listed(f)
    <3>1. s = <<>>
      <4>1. \A f \in Files : f \notin dirty /\ stateToCommit[f] = Absent /\ ~ListedIn(f)
        BY <2>2 DEF Listed
      <4>2. ToDeleteFiles = {} /\ DirtyMessages = {} /\ StateFiles = {} /\ DirtyMetaData = {}
        <5>1. \A r \in toDelete : RoomFolder(r) \subseteq Files
          BY RoomFilesFacts DEF Typed
        <5>. QED
          BY <4>1, <5>1 DEF Typed, ToDeleteFiles, StateFiles, DirtyMessages, DirtyMetaData, ListedIn
      <4>. QED
        BY <4>2 DEF s, SaveBlocks, BlockIf, ToDeleteFiles, StateFiles, DirtyMessages, DirtyMetaData
    <3>. QED
      BY <1>2, <3>1
  <2>. QED
    BY <2>1, <2>2
<1>. HIDE DEF p
<1>7. /\ queue' \in Seq(Block) /\ Len(queue') = Len(p) + 1
      /\ \A i \in DOMAIN p : i \in DOMAIN queue' /\ queue'[i] = p[i]
      /\ Len(p) + 1 \in DOMAIN queue' /\ queue'[Len(p) + 1] = b
      /\ \A i \in DOMAIN queue' : i \in DOMAIN p \/ i = Len(p) + 1
      /\ \A f : Has(queue', f) <=> Has(p, f)
  <2>1. queue' = p \o <<b>>
    BY <1>2 DEF p
  <2>2. \A f : Has(queue', f) <=> Has(p, f) \/ Has(<<b>>, f)
    BY <1>4, <1>5, <2>1, JoinedHas
  <2>3. /\ p \o <<b>> \in Seq(Block) /\ Len(p \o <<b>>) = Len(p) + 1
        /\ \A i \in DOMAIN p : i \in DOMAIN (p \o <<b>>) /\ (p \o <<b>>)[i] = p[i]
        /\ Len(p) + 1 \in DOMAIN (p \o <<b>>) /\ (p \o <<b>>)[Len(p) + 1] = b
        /\ \A i \in DOMAIN (p \o <<b>>) : i \in DOMAIN p \/ i = Len(p) + 1
    BY <1>3, <1>5
  <2>. QED
    BY <1>4, <2>1, <2>2, <2>3
<1>8. InOrder(p) => InOrder(queue')
  <2>1. \A i \in DOMAIN p : \A j \in DOMAIN <<b>> : <<b>>[j].op \in Ends \/ Before(p[i].op, <<b>>[j].op)
    BY <1>3, <1>4
  <2>2. queue' = p \o <<b>>
    BY <1>2 DEF p
  <2>. QED
    BY <1>4, <1>5, <2>1, <2>2, JoinedInOrder
<1>9. Len(queue') > Len(queue) /\ \A i \in DOMAIN p : i < Len(queue')
  BY <1>1, <1>2, <1>5, <1>7
<1>10. \A i \in DOMAIN queue : i \in DOMAIN queue' /\ queue'[i] = queue[i]
  BY <1>5, <1>7
<1>11. ASSUME NEW i \in DOMAIN queue', i \notin DOMAIN queue
       PROVE  \/ i < Len(queue') /\ FromList(queue'[i])
              \/ i = Len(queue') /\ queue'[i].op = end /\ queue'[i].todo = {} /\ queue'[i].snapshot = EmptyFolder
  <2>1. CASE i \in DOMAIN p
    BY <1>1, <1>5, <1>7, <1>9, <1>11, <2>1
  <2>2. CASE i = Len(p) + 1
    BY <1>3, <1>7, <2>2
  <2>. QED
    BY <1>7, <2>1, <2>2
<1>12. ASSUME NEW f \in Files, Listed(f)
       PROVE  \E i \in DOMAIN queue' : i \notin DOMAIN queue /\ f \in queue'[i].todo
  <2>1. PICK k \in DOMAIN s : f \in s[k].todo
    BY <1>1, <1>12 DEF Has
  <2>2. Len(queue) + k \in DOMAIN p /\ p[Len(queue) + k] = s[k] /\ Len(queue) + k \notin DOMAIN queue
    <3>1. k \in Nat /\ k >= 1 /\ DOMAIN queue = 1..Len(queue) /\ Len(queue) \in Nat
      BY <1>1, <1>2
    <3>. QED
      BY <1>1, <1>2, <3>1, Joined DEF p
  <2>. QED
    BY <1>7, <2>1, <2>2
<1>. QED
  BY <1>1, <1>3, <1>5, <1>6, <1>7, <1>8, <1>9, <1>10, <1>11, <1>12

(***************************************************************************)
(* Types.                                                                  *)
(***************************************************************************)
LEMMA IdleFacts ==
  /\ Idle \in Response /\ NoCursor \in Cursor /\ TokenIn(NoCursor.content)
  /\ Idle.joined = {} /\ Idle.left = {} /\ Idle.to = NilToken /\ Idle.commit = FALSE
BY FilesFacts, TokenFacts DEF Idle, Response, NoCursor, Cursor, TokenIn

LEMMA LiveTokenFacts ==
  ASSUME NEW x, Store(x)
  PROVE  /\ \A f \in Files : x[f] \in Content
         /\ x[MetaFile] # Absent => x[MetaFile] \in Token /\ Stored(x[MetaFile]) = x[MetaFile]
         /\ Stored(x[MetaFile]) \in Token
BY FilesFacts, TokenFacts DEF Store, TokenIn, Folder, Stored

LEMMA LiveTokenTyped ==
  ASSUME Typed
  PROVE  LiveToken \in Token /\ LiveToken = Stored(live[MetaFile])
BY LiveTokenFacts, TokenFacts DEF LiveToken, Typed, Stored

LEMMA BackupExcept ==
  ASSUME Typed, NEW t \in Token, NEW f \in Files, backup' = [backup EXCEPT ![t][f] = Absent]
  PROVE  /\ backup' \in [Token -> Folder] /\ \A u \in Token : Store(backup'[u])
         /\ \A u \in Token, g \in Files :
              backup'[u][g] = IF u = t /\ g = f THEN Absent ELSE backup[u][g]
<1>1. backup \in [Token -> Folder] /\ Store(backup[t]) /\ Absent \in Content /\ TokenIn(Absent)
  BY TokenFacts DEF Typed, TokenIn
<1>2. PICK a, b : a = backup[t] /\ b = [a EXCEPT ![f] = Absent]
  OBVIOUS
<1>3. Store(b) /\ \A g \in Files : b[g] = IF g = f THEN Absent ELSE a[g]
  <2>1. Absent \in Content /\ (f = MetaFile => TokenIn(Absent)) /\ Store(a) /\ b = [a EXCEPT ![f] = Absent]
    BY <1>1, <1>2
  <2>. QED
    BY <2>1, FilesFacts DEF Store, Folder
<1>4. backup' = [backup EXCEPT ![t] = b]
  BY <1>2
<1>5. \A u \in Token : backup'[u] = IF u = t THEN b ELSE backup[u]
  BY <1>1, <1>4
<1>6. backup' \in [Token -> Folder]
  BY <1>1, <1>3, <1>4 DEF Store
<1>7. \A u \in Token : Store(backup'[u])
  BY <1>3, <1>5 DEF Typed
<1>8. ASSUME NEW u \in Token, NEW g \in Files
      PROVE  backup'[u][g] = IF u = t /\ g = f THEN Absent ELSE backup[u][g]
  <2>1. CASE u = t
    BY <1>2, <1>3, <1>5, <2>1
  <2>2. CASE u # t
    BY <1>5, <2>2
  <2>. QED
    BY <2>1, <2>2
<1>. QED
  BY <1>6, <1>7, <1>8

\* What a move to the backup does, file by file.
Moves(F) == backupToken # NilToken /\ \A f \in F : backup[backupToken][f] = Absent

LEMMA Moving ==
  ASSUME Typed, NEW F, F \subseteq Files, MoveToBackup(F)
  PROVE  /\ Store(disk') /\ backup' \in [Token -> Folder] /\ \A t \in Token : Store(backup'[t])
         /\ \A f \in Files : disk'[f] = IF Moves(F) /\ f \in F THEN Absent ELSE disk[f]
         /\ \A t \in Token, f \in Files :
              backup'[t][f] = IF Moves(F) /\ t = backupToken /\ f \in F THEN disk[f] ELSE backup[t][f]
<1>0. /\ disk \in Folder /\ TokenIn(disk[MetaFile]) /\ backup \in [Token -> Folder] /\ backupToken \in Token
      /\ \A t \in Token : Store(backup[t])
      /\ MetaFile \in Files /\ Absent \in Content /\ TokenIn(Absent)
  BY FilesFacts, TokenFacts DEF Typed, Store, TokenIn
<1>1. CASE ~Moves(F)
  <2>1. disk' = disk /\ backup' = backup
    BY <1>1 DEF Moves, MoveToBackup, files
  <2>. QED
    BY <1>0, <1>1, <2>1 DEF Store
<1>2. CASE Moves(F)
  <2>1. PICK b : b = [f \in Files |-> IF f \in F THEN disk[f] ELSE backup[backupToken][f]]
    OBVIOUS
  <2>2. disk' = [f \in Files |-> IF f \in F THEN Absent ELSE disk[f]] /\ backup' = [backup EXCEPT ![backupToken] = b]
    BY <1>0, <1>2, <2>1 DEF Moves, MoveToBackup
  <2>3. Store(b)
    BY <1>0, <2>1 DEF Store, Folder
  <2>4. Store(disk')
    BY <1>0, <2>2 DEF Store, Folder
  <2>5. \A t \in Token : backup'[t] = IF t = backupToken THEN b ELSE backup[t]
    BY <1>0, <2>2
  <2>6. backup' \in [Token -> Folder]
    BY <1>0, <2>2, <2>3 DEF Store
  <2>7. \A t \in Token : Store(backup'[t])
    BY <1>0, <2>3, <2>5
  <2>8. \A t \in Token, f \in Files : backup'[t][f] = IF t = backupToken /\ f \in F THEN disk[f] ELSE backup[t][f]
    BY <2>1, <2>5
  <2>9. \A f \in Files : disk'[f] = IF f \in F THEN Absent ELSE disk[f]
    BY <2>2
  <2>. QED
    BY <1>2, <2>4, <2>6, <2>7, <2>8, <2>9
<1>. QED
  BY <1>1, <1>2

LEMMA CountedFrame ==
  ASSUME Counted, queue' = queue, pendingCommits' = pendingCommits, finished' = finished
  PROVE  Counted'
BY DEF Counted, Ending

\* The first block goes, or stays with less to do.
LEMMA DealtTyped ==
  ASSUME Typed, Counted, queue # <<>>, NEW F, NEW c, Dealt(queue', queue, F, c),
         pendingCommits' = pendingCommits,
         finished' = IF c = 1 /\ Ending(1) THEN finished + 1 ELSE finished
  PROVE  /\ queue' \in Seq(Block) /\ \A i \in DOMAIN queue' : Store(queue'[i].snapshot)
         /\ Counted'
<1>1. /\ queue' \in Seq(Block) /\ c \in {0, 1} /\ queue \in Seq(Block) /\ 1 \in DOMAIN queue
      /\ \A i \in DOMAIN queue' : /\ i + c \in DOMAIN queue /\ queue'[i].op = queue[i + c].op
                                  /\ queue'[i].snapshot = queue[i + c].snapshot
  <2>1. queue \in Seq(Block) /\ 1 \in DOMAIN queue
    BY DEF Typed
  <2>. QED
    BY <2>1 DEF Dealt
<1>2. \A i \in DOMAIN queue' : Store(queue'[i].snapshot)
  BY <1>1 DEF Typed
<1>3. /\ \A i \in DOMAIN queue' : i \in Nat /\ i >= 1 /\ i + c \in Nat /\ (c = 1 => i + c > 1)
      /\ pendingCommits \in 0..2 /\ finished \in 0..pendingCommits
      /\ \A i \in DOMAIN queue' : Ending(i)' <=> Ending(i + c)
  BY <1>1 DEF Counted, Ending
<1>4. finished' \in 0..pendingCommits'
  BY <1>1, <1>3 DEF Counted, Ending
<1>5. ASSUME NEW i \in DOMAIN queue', Ending(i)'
      PROVE  finished' + 1 <= pendingCommits'
  <2>1. i + c \in DOMAIN queue /\ Ending(i + c) /\ (c = 1 => 1 < i + c)
    BY <1>1, <1>3, <1>5
  <2>2. finished + 1 <= pendingCommits /\ (c = 1 /\ Ending(1) => finished + 2 <= pendingCommits)
    BY <1>1, <2>1 DEF Counted
  <2>. QED
    BY <1>3, <2>2
<1>6. ASSUME NEW i \in DOMAIN queue', NEW j \in DOMAIN queue', i < j, Ending(i)', Ending(j)'
      PROVE  finished' + 2 <= pendingCommits'
  <2>1. /\ i + c \in DOMAIN queue /\ Ending(i + c) /\ (c = 1 => 1 < i + c)
        /\ j + c \in DOMAIN queue /\ Ending(j + c) /\ i + c < j + c
    <3>1. Ending(i + c) /\ Ending(j + c)
      BY <1>3, <1>6
    <3>2. i \in Nat /\ j \in Nat /\ c \in Nat
      BY <1>1, <1>3
    <3>3. i + c < j + c
      BY <1>6, <3>2
    <3>. QED
      BY <1>1, <1>3, <3>1, <3>3
  <2>2. finished + 2 <= pendingCommits /\ ~(c = 1 /\ Ending(1))
    BY <1>1, <2>1 DEF Counted
  <2>. QED
    BY <1>3, <2>2
<1>7. ASSUME NEW i \in DOMAIN queue', NEW j \in DOMAIN queue', NEW k \in DOMAIN queue',
             i < j, j < k, Ending(i)', Ending(j)', Ending(k)'
      PROVE  FALSE
  <2>1. /\ i + c \in DOMAIN queue /\ Ending(i + c) /\ j + c \in DOMAIN queue /\ Ending(j + c)
        /\ k + c \in DOMAIN queue /\ Ending(k + c)
    <3>1. i + c \in DOMAIN queue /\ j + c \in DOMAIN queue /\ k + c \in DOMAIN queue
      BY <1>1
    <3>2. Ending(i + c) /\ Ending(j + c) /\ Ending(k + c)
      BY <1>3, <1>7
    <3>. QED
      BY <3>1, <3>2
  <2>2. i + c < j + c /\ j + c < k + c
    <3>1. i \in Nat /\ j \in Nat /\ k \in Nat /\ c \in Nat
      BY <1>1, <1>3
    <3>. QED
      BY <1>7, <3>1
  <2>. QED
    BY <2>1, <2>2 DEF Counted
<1>. QED
  BY <1>1, <1>2, <1>3, <1>4, <1>5, <1>6, <1>7 DEF Counted

LEMMA InitTyped == Init => Types
<1> SUFFICES ASSUME Init PROVE Types
  OBVIOUS
<1>1. backup \in [Token -> Folder] /\ \A t \in Token : Store(backup[t])
  BY EmptyFolderFacts DEF Init
<1>2. pos \in 0..MaxPos /\ timeline \in [Rooms -> SUBSET Pos] /\ left \in [Rooms -> 0..MaxPos]
  BY MaxPosAssumption DEF Init
<1>3. /\ Store(live) /\ Store(stateToCommit) /\ Store(disk) /\ backupToken \in Token
      /\ response \in Response /\ cursor \in Cursor /\ TokenIn(cursor.content)
  BY EmptyFolderFacts, IdleFacts, TokenFacts DEF Init
<1>4. queue \in Seq(Block) /\ DOMAIN queue = {}
  BY DEF Init
<1>5. Typed
  BY <1>1, <1>2, <1>3, <1>4 DEF Init, Typed
<1>6. Counted
  BY DEF Init, Counted, Ending
<1>. QED
  BY <1>5, <1>6 DEF Types

\* The steps of the homeserver, and of the phases.
LEMMA ServerTyped ==
  ASSUME Types, NEW r \in Rooms, ServerEvent(r) \/ ServerLeave(r)
  PROVE  Types'
<1>1. pos \in 0..MaxPos /\ pos < MaxPos /\ pos' = pos + 1 /\ pos + 1 \in Pos /\ pos' \in 0..MaxPos
  <2>1. pos \in 0..MaxPos /\ pos < MaxPos /\ pos' = pos + 1 /\ MaxPos \in Nat
    BY MaxPosAssumption DEF Types, Typed, ServerEvent, ServerLeave
  <2>. QED
    BY <2>1 DEF Pos
<1>2. timeline' \in [Rooms -> SUBSET Pos]
  <2>1. timeline \in [Rooms -> SUBSET Pos]
    BY DEF Types, Typed
  <2>2. timeline' = timeline \/ timeline' = [timeline EXCEPT ![r] = @ \cup {pos + 1}]
    BY DEF ServerEvent, ServerLeave
  <2>. QED
    BY <1>1, <2>1, <2>2
<1>3. left' \in [Rooms -> 0..MaxPos]
  BY <1>1 DEF Types, Typed, ServerEvent, ServerLeave
<1>4. /\ phase' = phase /\ memory' = memory /\ commits' = commits /\ queue' = queue /\ cursor' = cursor
      /\ backupToken' = backupToken /\ files' = files
  BY DEF ServerEvent, ServerLeave
<1>5. Typed'
  BY <1>1, <1>2, <1>3, <1>4 DEF Types, Typed, memory, files
<1>. QED
  BY <1>4, <1>5, CountedFrame DEF Types, commits

LEMMA ForgetTyped ==
  ASSUME Types, ForgetMemory, UNCHANGED <<server, files>>,
         phase' \in {"down", "opening", "repaired", "wiping", "up", "closing"}
  PROVE  Types'
<1>1. Typed'
  BY EmptyFolderFacts, IdleFacts, TokenFacts DEF Types, Typed, ForgetMemory, server, files
<1>2. Counted'
  BY DEF ForgetMemory, Counted, Ending
<1>. QED
  BY <1>1, <1>2 DEF Types

LEMMA OpeningTyped ==
  ASSUME Types, Open \/ Opening
  PROVE  Types'
<1>1. CASE Open \/ StartWipe
  <2>1. phase' \in {"opening", "wiping"} /\ UNCHANGED <<server, memory, commits, queue, cursor, backupToken, files>>
    BY <1>1 DEF Open, StartWipe
  <2>2. Typed'
    BY <2>1 DEF Types, Typed, server, memory, files
  <2>. QED
    BY <2>1, <2>2, CountedFrame DEF Types, commits
<1>2. ASSUME NEW f \in Files, RestoreFile(f)
      PROVE  Types'
  <2>1. PICK t \in Token : disk' = [disk EXCEPT ![f] = backup[t][f]]
    BY <1>2 DEF RestoreFile
  <2>2. UNCHANGED <<server, phase, memory, commits, queue, cursor, backupToken, backup>>
    BY <1>2 DEF RestoreFile
  <2>3. Store(disk) /\ Store(backup[t])
    BY DEF Types, Typed
  <2>4. PICK c : c = backup[t][f]
    OBVIOUS
  <2>5. c \in Content /\ (f = MetaFile => TokenIn(c))
    BY <2>3, <2>4, LiveTokenFacts DEF Store
  <2>6. Store(disk')
    BY <2>1, <2>3, <2>4, <2>5, FilesFacts DEF Store, Folder
  <2>7. Typed'
    BY <2>2, <2>6 DEF Types, Typed, server, memory
  <2>. QED
    BY <2>2, <2>7, CountedFrame DEF Types, commits
<1>3. CASE LoadAfterRestore \/ LoadIntact
  <2>1. /\ live' = disk /\ backupToken' = disk[MetaFile] /\ Stored(disk[MetaFile]) # NilToken
        /\ phase' \in {"repaired", "up"}
        /\ UNCHANGED <<server, response, dirty, stateToCommit, toDelete, commits, queue, cursor, files>>
    BY <1>3 DEF LoadAfterRestore, LoadIntact, LoadMetaData
  <2>2. Store(disk) /\ disk[MetaFile] \in Token
    BY <2>1, TokenFacts DEF Types, Typed, Store, TokenIn
  <2>3. Typed'
    BY <2>1, <2>2 DEF Types, Typed, server, files
  <2>. QED
    BY <2>1, <2>3, CountedFrame DEF Types, commits
<1>4. CASE RemoveRestoredBackup
  <2>1. /\ UNCHANGED <<server, memory, commits, queue, cursor, backupToken, disk>>
        /\ \/ phase' = "up" /\ backup' = backup
           \/ /\ phase' = phase
              /\ \E t \in Token, f \in Files : backup' = [backup EXCEPT ![t][f] = Absent]
    BY <1>4 DEF RemoveRestoredBackup, BackupTokens
  <2>2. backup' \in [Token -> Folder] /\ \A u \in Token : Store(backup'[u])
    <3>1. CASE backup' = backup
      BY <3>1 DEF Types, Typed
    <3>2. ASSUME NEW t \in Token, NEW f \in Files, backup' = [backup EXCEPT ![t][f] = Absent]
          PROVE  backup' \in [Token -> Folder] /\ \A u \in Token : Store(backup'[u])
      BY <3>2, BackupExcept DEF Types
    <3>. QED
      BY <2>1, <3>1, <3>2
  <2>3. Typed'
    BY <2>1, <2>2 DEF Types, Typed, server, memory
  <2>. QED
    BY <2>1, <2>3, CountedFrame DEF Types, commits
<1>5. CASE Wipe
  <2>1. UNCHANGED <<server, response, dirty, stateToCommit, toDelete, commits, cursor>> /\ phase = "wiping"
    BY <1>5 DEF Wipe
  <2>2. ASSUME NEW f \in Files, disk' = [disk EXCEPT ![f] = Absent],
               UNCHANGED <<backup, phase, live, queue, backupToken>>
        PROVE  Types'
    <3>1. Store(disk')
      BY <2>2, FilesFacts, TokenFacts DEF Types, Typed, Store, Folder, TokenIn
    <3>2. Typed'
      BY <2>1, <2>2, <3>1 DEF Types, Typed, server
    <3>. QED
      BY <2>1, <2>2, <3>2, CountedFrame DEF Types, commits
  <2>3. ASSUME NEW t \in BackupTokens, NEW f \in Files, backup' = [backup EXCEPT ![t][f] = Absent],
               UNCHANGED <<disk, phase, live, queue, backupToken>>
        PROVE  Types'
    <3>1. t \in Token
      BY DEF BackupTokens
    <3>2. backup' \in [Token -> Folder] /\ \A u \in Token : Store(backup'[u])
      BY <2>3, <3>1, BackupExcept DEF Types
    <3>3. Typed'
      BY <2>1, <2>3, <3>2 DEF Types, Typed, server
    <3>. QED
      BY <2>1, <2>3, <3>3, CountedFrame DEF Types, commits
  <2>4. ASSUME live' = [EmptyFolder EXCEPT ![MetaFile] = NilToken],
               queue' = <<[op |-> "metaData", todo |-> {MetaFile}, snapshot |-> EmptyFolder]>>,
               backupToken' = NilToken, phase' = "up", UNCHANGED files
        PROVE  Types'
    <3>1. Store(live')
      BY <2>4, EmptyFolderFacts, FilesFacts, TokenFacts DEF Store, Folder, TokenIn
    <3>2. PICK b : b = [op |-> "metaData", todo |-> {MetaFile}, snapshot |-> EmptyFolder]
      OBVIOUS
    <3>3. b \in Block /\ b.snapshot = EmptyFolder /\ b.op = "metaData" /\ queue' = <<b>>
      BY <2>4, <3>2, EmptyFolderFacts, FilesFacts DEF Block
    <3>4. queue' \in Seq(Block) /\ DOMAIN queue' = {1} /\ queue'[1] = b
      BY <3>3
    <3>5. Typed'
      BY <2>1, <2>4, <3>1, <3>3, <3>4, EmptyFolderFacts, TokenFacts DEF Types, Typed, server, files
    <3>6. Counted'
      BY <2>1, <3>3, <3>4 DEF Types, Counted, Ending, commits
    <3>. QED
      BY <3>5, <3>6 DEF Types
  <2>. QED
    BY <1>5, <2>2, <2>3, <2>4 DEF Wipe
<1>. QED
  BY <1>1, <1>2, <1>3, <1>4, <1>5 DEF Opening

\* What storing a room does to the files.
New(r, f) == Stored(live[f]) \cup (Unread(r) \cap response.to)

LEMMA StoringRoom ==
  ASSUME Typed, NEW r \in Rooms, StoreRoom(r)
  PROVE  /\ Store(live') /\ Store(stateToCommit')
         /\ \A f \in Files : live'[f] = IF f \in RoomFiles(r) THEN New(r, f) ELSE live[f]
         /\ \A f \in Files : stateToCommit'[f] = IF f = StateFile(r) THEN New(r, f) ELSE stateToCommit[f]
         /\ \A f \in RoomFiles(r) : New(r, f) \in Content /\ New(r, f) # Absent
                                    /\ Stored(New(r, f)) = New(r, f)
<1>1. /\ live \in Folder /\ stateToCommit \in Folder /\ TokenIn(live[MetaFile]) /\ TokenIn(stateToCommit[MetaFile])
      /\ response.to \in Token /\ timeline[r] \subseteq Pos
  BY DEF Typed, Store, Response
<1>2. \A f \in Files : New(r, f) \in SUBSET Pos
  <2>1. ASSUME NEW f \in Files PROVE Stored(live[f]) \subseteq Pos
    BY <1>1, TokenFacts DEF Folder
  <2>2. Unread(r) \subseteq Pos
    BY <1>1 DEF Unread
  <2>. QED
    BY <2>1, <2>2 DEF New
<1>3. PICK m, s : m = New(r, MessagesFile(r)) /\ s = New(r, StateFile(r))
  OBVIOUS
<1>4. m \in Content /\ s \in Content /\ MessagesFile(r) \in Files /\ StateFile(r) \in Files
      /\ MessagesFile(r) # MetaFile /\ StateFile(r) # MetaFile /\ MetaFile \in Files
      /\ MessagesFile(r) # StateFile(r)
  BY <1>2, <1>3, FilesFacts, TokenFacts
<1>5. /\ live' = [live EXCEPT ![MessagesFile(r)] = m, ![StateFile(r)] = s]
      /\ stateToCommit' = [stateToCommit EXCEPT ![StateFile(r)] = s]
  BY <1>3 DEF StoreRoom, New
<1>6. /\ live' \in Folder /\ stateToCommit' \in Folder
      /\ \A f \in Files : live'[f] = IF f = StateFile(r) THEN s ELSE IF f = MessagesFile(r) THEN m ELSE live[f]
      /\ \A f \in Files : stateToCommit'[f] = IF f = StateFile(r) THEN s ELSE stateToCommit[f]
  BY <1>1, <1>4, <1>5 DEF Folder
<1>7. Store(live') /\ Store(stateToCommit')
  BY <1>1, <1>4, <1>6 DEF Store
<1>8. \A f \in Files : live'[f] = IF f \in RoomFiles(r) THEN New(r, f) ELSE live[f]
  BY <1>3, <1>4, <1>6, RoomFilesFacts
<1>9. \A f \in Files : stateToCommit'[f] = IF f = StateFile(r) THEN New(r, f) ELSE stateToCommit[f]
  BY <1>3, <1>6
<1>. QED
  BY <1>2, <1>7, <1>8, <1>9, RoomFilesFacts, TokenFacts

LEMMA DeletingRoom ==
  ASSUME Typed, NEW r \in Rooms, DeleteRoom(r)
  PROVE  /\ Store(live') /\ Store(stateToCommit')
         /\ \A f \in Files : live'[f] = IF f \in RoomFiles(r) THEN Absent ELSE live[f]
         /\ \A f \in Files : stateToCommit'[f] = IF f = StateFile(r) THEN Absent ELSE stateToCommit[f]
<1>1. /\ live \in Folder /\ stateToCommit \in Folder /\ TokenIn(live[MetaFile]) /\ TokenIn(stateToCommit[MetaFile])
      /\ StateFile(r) \in Files /\ StateFile(r) # MetaFile /\ MetaFile \in Files /\ MetaFile \notin RoomFiles(r)
      /\ Absent \in Content
  BY FilesFacts, RoomFilesFacts, TokenFacts DEF Typed, Store
<1>2. /\ live' = [f \in Files |-> IF f \in RoomFiles(r) THEN Absent ELSE live[f]]
      /\ stateToCommit' = [stateToCommit EXCEPT ![StateFile(r)] = Absent]
  BY DEF DeleteRoom
<1>3. live' \in Folder /\ live'[MetaFile] = live[MetaFile]
  BY <1>1, <1>2 DEF Folder
<1>4. stateToCommit' \in Folder /\ stateToCommit'[MetaFile] = stateToCommit[MetaFile]
  BY <1>1, <1>2 DEF Folder
<1>. QED
  BY <1>1, <1>2, <1>3, <1>4 DEF Store, Folder

\* The outgoing messages of a room.
LEMMA StoringOutgoing ==
  ASSUME Typed, NEW r \in Rooms, StoreOutgoing(r)
  PROVE  /\ Store(live') /\ OutgoingFile(r) \in Files
         /\ \A f \in Files : f # OutgoingFile(r) => live'[f] = live[f]
         /\ live'[OutgoingFile(r)] # Absent
<1>1. live \in Folder /\ TokenIn(live[MetaFile]) /\ OutgoingFile(r) \in Files /\ OutgoingFile(r) # MetaFile /\ MetaFile \in Files
  BY FilesFacts DEF Typed, Store
<1>2. PICK waiting \in Outboxes : live' = [live EXCEPT ![OutgoingFile(r)] = waiting]
  BY DEF StoreOutgoing
<1>3. waiting \in Content /\ waiting # Absent
  BY OutboxesAssumption, TokenFacts DEF Pos
<1>. QED
  BY <1>1, <1>2, <1>3 DEF Folder, Store

\* The token of a response, once its rooms have been stored.
LEMMA SettingToken ==
  ASSUME Typed, SetEventStreamToken
  PROVE  /\ Store(live') /\ \A f \in Files : f # MetaFile => live'[f] = live[f]
         /\ live[MetaFile] # Absent => live'[MetaFile] = response.to /\ LiveToken' = response.to
         /\ live[MetaFile] = Absent => live'[MetaFile] = Absent
         /\ response'.to = NilToken /\ response'.commit /\ response'.joined = {} /\ response'.left = {}
         /\ response' \in Response
<1>1. response.to \in Token /\ live \in Folder /\ MetaFile \in Files /\ response.to \in Content
  BY FilesFacts, TokenFacts DEF Typed, Store, Response
<1>2. live' = [live EXCEPT ![MetaFile] = IF live[MetaFile] = Absent THEN Absent ELSE response.to]
  BY DEF SetEventStreamToken
<1>3. live' \in Folder /\ live'[MetaFile] = IF live[MetaFile] = Absent THEN Absent ELSE response.to
  BY <1>1, <1>2, TokenFacts DEF Folder
<1>4. Store(live') /\ \A f \in Files : f # MetaFile => live'[f] = live[f]
  BY <1>1, <1>2, <1>3 DEF Store, TokenIn, Folder
<1>5. response' = [Idle EXCEPT !.commit = TRUE]
  BY DEF SetEventStreamToken
<1>6. live[MetaFile] # Absent => LiveToken' = response.to
  BY <1>1, <1>3, TokenFacts DEF LiveToken
<1>. QED
  BY <1>3, <1>4, <1>5, <1>6, TokenFacts DEF Idle, Response

LEMMA HandlingTyped ==
  ASSUME Types, ReceiveResponse \/ Handling
  PROVE  Types'
<1>1. CASE ReceiveResponse
  <2>1. response' \in Response
    BY <1>1, TokenFacts DEF ReceiveResponse, Types, Typed, Response
  <2>2. Typed'
    BY <1>1, <2>1 DEF ReceiveResponse, Types, Typed, server, files
  <2>. QED
    BY <1>1, <2>2, CountedFrame DEF Types, ReceiveResponse, commits
<1>2. ASSUME NEW r \in Rooms, StoreRoom(r)
      PROVE  Types'
  <2>1. response' \in Response
    BY <1>2 DEF StoreRoom, Types, Typed, Response
  <2>2. dirty' \subseteq Files
    BY <1>2, FilesFacts DEF StoreRoom, Types, Typed
  <2>3. Store(live') /\ Store(stateToCommit')
    BY <1>2, StoringRoom DEF Types
  <2>4. UNCHANGED <<server, phase, toDelete, commits, queue, cursor, backupToken, files>>
    BY <1>2 DEF StoreRoom
  <2>5. Typed'
    BY <2>1, <2>2, <2>3, <2>4 DEF Types, Typed, server, files
  <2>. QED
    BY <2>4, <2>5, CountedFrame DEF Types, commits
<1>3. ASSUME NEW r \in Rooms, DeleteRoom(r)
      PROVE  Types'
  <2>1. response' \in Response
    BY <1>3 DEF DeleteRoom, Types, Typed, Response
  <2>2. dirty' \subseteq Files /\ toDelete' \subseteq Rooms
    BY <1>3, FilesFacts DEF DeleteRoom, Types, Typed
  <2>3. Store(live') /\ Store(stateToCommit')
    BY <1>3, DeletingRoom DEF Types
  <2>4. UNCHANGED <<server, phase, commits, queue, cursor, backupToken, files>>
    BY <1>3 DEF DeleteRoom
  <2>5. Typed'
    BY <2>1, <2>2, <2>3, <2>4 DEF Types, Typed, server, files
  <2>. QED
    BY <2>4, <2>5, CountedFrame DEF Types, commits
<1>4. CASE SetEventStreamToken
  <2>1. Store(live') /\ response' \in Response
    BY <1>4, SettingToken DEF Types
  <2>2. dirty' \subseteq Files
    BY <1>4, FilesFacts DEF SetEventStreamToken, Types, Typed
  <2>3. UNCHANGED <<server, phase, stateToCommit, toDelete, commits, queue, cursor, backupToken, files>>
    BY <1>4 DEF SetEventStreamToken
  <2>4. Typed'
    BY <2>1, <2>2, <2>3 DEF Types, Typed, server, files
  <2>. QED
    BY <2>3, <2>4, CountedFrame DEF Types, commits
<1>5. ASSUME NEW r \in Rooms, StoreOutgoing(r)
      PROVE  Types'
  <2>1. Store(live') /\ dirty' \subseteq Files
    BY <1>5, StoringOutgoing DEF StoreOutgoing, Types, Typed
  <2>2. UNCHANGED <<server, phase, response, stateToCommit, toDelete, commits, queue, cursor, backupToken, files>>
    BY <1>5 DEF StoreOutgoing
  <2>3. Typed'
    BY <2>1, <2>2 DEF Types, Typed, server, files
  <2>. QED
    BY <2>2, <2>3, CountedFrame DEF Types, commits
<1>. QED
  BY <1>1, <1>2, <1>3, <1>4, <1>5 DEF Handling

LEMMA SavedTyped ==
  ASSUME Types, NEW end \in Ends, SaveDataToFiles(end), finished' = finished,
         IF end = "commitEnd" THEN pendingCommits < 2 /\ pendingCommits' = pendingCommits + 1
         ELSE pendingCommits' = pendingCommits
  PROVE  /\ queue' \in Seq(Block) /\ (\A i \in DOMAIN queue' : Store(queue'[i].snapshot))
         /\ dirty' \subseteq Files /\ Store(stateToCommit') /\ toDelete' \subseteq Rooms
         /\ Counted'
<1>1. /\ queue' \in Seq(Block)
      /\ \A i \in DOMAIN queue : i \in DOMAIN queue' /\ queue'[i] = queue[i]
      /\ \A i \in DOMAIN queue' :
              \/ i \in DOMAIN queue
              \/ i \notin DOMAIN queue /\ i < Len(queue') /\ FromList(queue'[i])
              \/ i \notin DOMAIN queue /\ i = Len(queue') /\ queue'[i].op = end
                 /\ queue'[i].snapshot = EmptyFolder
      /\ queue \in Seq(Block)
  BY SavedQueue DEF Types, Typed
<1>2. dirty' \subseteq Files /\ Store(stateToCommit') /\ toDelete' \subseteq Rooms
  BY EmptyFolderFacts DEF SaveDataToFiles
<1>3. \A i \in DOMAIN queue' : Store(queue'[i].snapshot)
  BY <1>1, EmptyFolderFacts DEF FromList, Types, Typed
<1>4. \A i \in DOMAIN queue' : Ending(i)' =>
        Ending(i) \/ (i = Len(queue') /\ end = "commitEnd" /\ i \notin DOMAIN queue)
  BY <1>1 DEF Ending, FromList
<1>5. /\ \A i \in DOMAIN queue' : i \in Nat /\ i >= 1 /\ i <= Len(queue')
      /\ \A i, j \in DOMAIN queue' : i < j /\ j \in DOMAIN queue => i \in DOMAIN queue
      /\ DOMAIN queue = 1..Len(queue) /\ Len(queue) \in Nat
  BY <1>1
<1>6. pendingCommits \in 0..2 /\ finished \in 0..pendingCommits /\ pendingCommits' \in 0..2
      /\ finished' \in 0..pendingCommits' /\ pendingCommits' >= pendingCommits
      /\ (end = "commitEnd" => pendingCommits' = pendingCommits + 1)
  BY DEF Types, Counted
<1>7. ASSUME NEW i \in DOMAIN queue', Ending(i)'
      PROVE  finished' + 1 <= pendingCommits'
  <2>1. CASE Ending(i)
    BY <1>6, <2>1 DEF Types, Counted, Ending
  <2>2. CASE ~Ending(i)
    BY <1>4, <1>6, <1>7, <2>2
  <2>. QED
    BY <2>1, <2>2
<1>8. ASSUME NEW i \in DOMAIN queue', NEW j \in DOMAIN queue', i < j, Ending(i)', Ending(j)'
      PROVE  finished' + 2 <= pendingCommits' /\ Ending(i)
  <2>0. Ending(i)
    BY <1>1, <1>4, <1>5, <1>8
  <2>1. CASE Ending(j)
    BY <1>6, <1>8, <2>0, <2>1 DEF Types, Counted, Ending
  <2>2. CASE ~Ending(j)
    <3>1. end = "commitEnd" /\ finished + 1 <= pendingCommits
      BY <1>4, <1>8, <2>0, <2>2 DEF Types, Counted, Ending
    <3>. QED
      BY <1>6, <2>0, <3>1
  <2>. QED
    BY <2>1, <2>2
<1>9. ASSUME NEW i \in DOMAIN queue', NEW j \in DOMAIN queue', NEW k \in DOMAIN queue',
             i < j, j < k, Ending(i)', Ending(j)', Ending(k)'
      PROVE  FALSE
  <2>1. Ending(i) /\ Ending(j)
    BY <1>8, <1>9
  <2>2. finished + 2 <= pendingCommits
    BY <1>9, <2>1 DEF Types, Counted, Ending
  <2>3. CASE Ending(k)
    BY <1>9, <2>1, <2>3 DEF Types, Counted, Ending
  <2>4. CASE ~Ending(k)
    <3>1. end = "commitEnd"
      BY <1>4, <1>9, <2>4
    <3>. QED
      BY <1>6, <2>2, <3>1
  <2>. QED
    BY <2>3, <2>4
<1>10. Counted'
  BY <1>6, <1>7, <1>8, <1>9 DEF Counted
<1>. QED
  BY <1>1, <1>2, <1>3, <1>10

LEMMA CommitTyped ==
  ASSUME Types, Commit \/ CommitIgnored \/ CommitDone \/ Close \/ Closed \/ Crash
  PROVE  Types'
<1>1. CASE Commit
  <2>1. /\ pendingCommits < 2 /\ pendingCommits' = pendingCommits + 1 /\ SaveDataToFiles("commitEnd")
        /\ response' = [response EXCEPT !.commit = FALSE]
        /\ UNCHANGED <<server, phase, live, finished, cursor, backupToken, files>>
    BY <1>1 DEF Commit
  <2>2. /\ queue' \in Seq(Block) /\ (\A i \in DOMAIN queue' : Store(queue'[i].snapshot))
        /\ dirty' \subseteq Files /\ Store(stateToCommit') /\ toDelete' \subseteq Rooms
        /\ Counted'
    <3>1. PICK end \in Ends : end = "commitEnd"
      BY DEF Ends
    <3>. QED
      BY <2>1, <3>1, SavedTyped
  <2>3. response' \in Response
    BY <2>1 DEF Types, Typed, Response
  <2>4. Typed'
    BY <2>1, <2>2, <2>3 DEF Types, Typed, server, files
  <2>. QED
    BY <2>2, <2>4 DEF Types
<1>2. CASE CommitIgnored
  <2>1. response' \in Response
    BY <1>2 DEF CommitIgnored, Types, Typed, Response
  <2>2. Typed'
    BY <1>2, <2>1 DEF CommitIgnored, Types, Typed, server, files
  <2>. QED
    BY <1>2, <2>2, CountedFrame DEF Types, CommitIgnored, commits
<1>3. CASE CommitDone
  <2>1. Typed'
    BY <1>3 DEF CommitDone, Types, Typed, server, memory, files
  <2>2. /\ finished > 0 /\ finished' = finished - 1 /\ pendingCommits' = pendingCommits - 1 /\ queue' = queue
        /\ pendingCommits \in 0..2 /\ finished \in 0..pendingCommits
    BY <1>3 DEF CommitDone, Types, Counted
  <2>3. finished' \in 0..pendingCommits' /\ pendingCommits' \in 0..2
    BY <2>2
  <2>4. \A i : Ending(i)' <=> Ending(i)
    BY <2>2 DEF Ending
  <2>5. \A n \in {1, 2} : finished + n <= pendingCommits => finished' + n <= pendingCommits'
    BY <2>2
  <2>6. Counted'
    BY <2>2, <2>3, <2>4, <2>5 DEF Types, Counted
  <2>. QED
    BY <2>1, <2>6 DEF Types
<1>4. CASE Close
  <2>1. /\ phase' = "closing"
        /\ UNCHANGED <<server, live, response, commits, cursor, backupToken, files>>
        /\ \/ SaveDataToFiles("closeEnd")
           \/ UNCHANGED <<queue, dirty, stateToCommit, toDelete>>
    BY <1>4 DEF Close
  <2>2. /\ queue' \in Seq(Block) /\ (\A i \in DOMAIN queue' : Store(queue'[i].snapshot))
        /\ dirty' \subseteq Files /\ Store(stateToCommit') /\ toDelete' \subseteq Rooms
        /\ Counted'
    <3>1. CASE SaveDataToFiles("closeEnd")
      <4>1. PICK end \in Ends : end = "closeEnd"
        BY DEF Ends
      <4>. QED
        BY <2>1, <3>1, <4>1, SavedTyped DEF commits
    <3>2. CASE UNCHANGED <<queue, dirty, stateToCommit, toDelete>>
      BY <2>1, <3>2, CountedFrame DEF commits, Types, Typed
    <3>. QED
      BY <2>1, <3>1, <3>2
  <2>3. Typed'
    BY <2>1, <2>2 DEF Types, Typed, server, files
  <2>. QED
    BY <2>2, <2>3 DEF Types
<1>5. CASE Closed \/ Crash
  BY <1>5, ForgetTyped DEF Closed, Crash
<1>. QED
  BY <1>1, <1>2, <1>3, <1>4, <1>5

LEMMA QueueTyped ==
  ASSUME Types, QueueStep
  PROVE  Types'
<1>0. queue # <<>> /\ queue \in Seq(Block) /\ 1 \in DOMAIN queue /\ queue[1] \in Block
  <2>1. queue # <<>>
    BY DEF QueueStep, DeleteFolder, SkipFile, BackupFile, LabelBackups, WriteFile, RemoveBackup, Running
  <2>. QED
    BY <2>1 DEF Types, Typed
<1>1. \A F : queue' = Without(F) => \E c \in {0, 1} : Dealt(queue', queue, F, c)
  BY <1>0, WithoutFacts
<1>2. ASSUME NEW F, queue' = Without(F), queue[1].op \notin Ends,
             UNCHANGED <<pendingCommits, finished>>
      PROVE  queue' \in Seq(Block) /\ (\A i \in DOMAIN queue' : Store(queue'[i].snapshot)) /\ Counted'
  <2>1. PICK c \in {0, 1} : Dealt(queue', queue, F, c)
    BY <1>1, <1>2
  <2>2. ~Ending(1)
    BY <1>2 DEF Ending, Ends
  <2>. QED
    BY <1>0, <1>2, <2>1, <2>2, DealtTyped DEF Types
<1>3. ASSUME NEW r \in Rooms, DeleteFolder(r)
      PROVE  Types'
  <2>1. /\ MoveToBackup(RoomFolder(r)) /\ queue' = Without(RoomFolder(r)) /\ queue[1].op = "delete"
        /\ UNCHANGED <<server, phase, memory, pendingCommits, finished, cursor, backupToken>>
    BY <1>3 DEF DeleteFolder, QueueUnchanged, Running, Head1
  <2>2. Store(disk') /\ backup' \in [Token -> Folder] /\ \A t \in Token : Store(backup'[t])
    BY <2>1, Moving, RoomFilesFacts DEF Types
  <2>3. queue' \in Seq(Block) /\ (\A i \in DOMAIN queue' : Store(queue'[i].snapshot)) /\ Counted'
    BY <1>2, <2>1 DEF Ends
  <2>4. Typed'
    BY <2>1, <2>2, <2>3 DEF Types, Typed, server, memory
  <2>. QED
    BY <2>3, <2>4 DEF Types
<1>4. ASSUME NEW f \in Files, SkipFile(f)
      PROVE  Types'
  <2>1. /\ queue' = Without({f}) /\ queue[1].op = "messages"
        /\ UNCHANGED <<server, phase, memory, pendingCommits, finished, cursor, backupToken, files>>
    BY <1>4 DEF SkipFile, QueueUnchanged, Running, Head1
  <2>2. queue' \in Seq(Block) /\ (\A i \in DOMAIN queue' : Store(queue'[i].snapshot)) /\ Counted'
    BY <1>2, <2>1 DEF Ends
  <2>3. Typed'
    BY <2>1, <2>2 DEF Types, Typed, server, memory, files
  <2>. QED
    BY <2>2, <2>3 DEF Types
<1>5. ASSUME NEW f \in Files, BackupFile(f)
      PROVE  Types'
  <2>1. /\ MoveToBackup({f})
        /\ cursor' = [file |-> f, content |-> IF queue[1].op = "state" THEN queue[1].snapshot[f] ELSE Stored(live[f]),
                      labelled |-> queue[1].op # "metaData"]
        /\ UNCHANGED <<server, phase, memory, pendingCommits, finished, queue, backupToken>>
    BY <1>5 DEF BackupFile, QueueUnchanged, Head1
  <2>2. Store(disk') /\ backup' \in [Token -> Folder] /\ \A t \in Token : Store(backup'[t])
    BY <2>1, Moving DEF Types
  <2>3. Store(live) /\ Store(queue[1].snapshot)
    BY <1>0 DEF Types, Typed
  <2>4. PICK c : c = IF queue[1].op = "state" THEN queue[1].snapshot[f] ELSE Stored(live[f])
    OBVIOUS
  <2>5. c \in Content /\ (f = MetaFile => TokenIn(c))
    <3>1. CASE queue[1].op = "state"
      <4>1. PICK x : x = queue[1].snapshot
        OBVIOUS
      <4>. QED
        BY <2>3, <2>4, <3>1, <4>1 DEF Store, Folder
    <3>2. CASE queue[1].op # "state"
      <4>1. c = Stored(live[f]) /\ live[f] \in Content
        BY <2>3, <2>4, <3>2 DEF Store, Folder
      <4>2. Stored(live[f]) \in SUBSET Pos
        BY <4>1, TokenFacts
      <4>3. f = MetaFile => Stored(live[f]) \in Token
        BY <2>3, LiveTokenFacts
      <4>. QED
        BY <4>1, <4>2, <4>3, TokenFacts DEF TokenIn
    <3>. QED
      BY <3>1, <3>2
  <2>6. cursor' \in Cursor /\ (cursor'.file = MetaFile => TokenIn(cursor'.content))
    BY <2>1, <2>4, <2>5 DEF Cursor
  <2>7. Typed'
    BY <2>1, <2>2, <2>6 DEF Types, Typed, server, memory
  <2>. QED
    BY <2>1, <2>7, CountedFrame DEF Types
<1>6. CASE LabelBackups
  <2>1. backupToken' \in Token
    BY <1>6, LiveTokenTyped DEF LabelBackups, Types
  <2>2. cursor' \in Cursor /\ (cursor'.file = MetaFile => TokenIn(cursor'.content))
    BY <1>6 DEF LabelBackups, Types, Typed, Cursor
  <2>3. Typed'
    BY <1>6, <2>1, <2>2 DEF LabelBackups, QueueUnchanged, Types, Typed, server, memory, files
  <2>. QED
    BY <1>6, <2>3, CountedFrame DEF LabelBackups, QueueUnchanged, Types
<1>7. CASE WriteFile
  <2>1. PICK c : c = IF queue[1].op = "state" \/ live[cursor.file] = Absent
                     THEN cursor.content ELSE live[cursor.file]
    OBVIOUS
  <2>2. /\ disk' = [disk EXCEPT ![cursor.file] = c] /\ queue' = Without({cursor.file}) /\ cursor' = NoCursor
        /\ queue[1].op \in {"messages", "state", "metaData"}
        /\ UNCHANGED <<server, phase, memory, pendingCommits, finished, backupToken, backup>>
    BY <1>7, <2>1 DEF WriteFile, QueueUnchanged, Running, Head1
  <2>3. cursor.file \in Files /\ c \in Content /\ (cursor.file = MetaFile => TokenIn(c))
    BY <2>1 DEF Types, Typed, Cursor, Store, Folder
  <2>4. Store(disk')
    BY <2>2, <2>3, FilesFacts DEF Types, Typed, Store, Folder
  <2>5. queue' \in Seq(Block) /\ (\A i \in DOMAIN queue' : Store(queue'[i].snapshot)) /\ Counted'
    BY <1>2, <2>2 DEF Ends
  <2>6. Typed'
    BY <2>2, <2>4, <2>5, IdleFacts DEF Types, Typed, server, memory
  <2>. QED
    BY <2>5, <2>6 DEF Types
<1>8. CASE RemoveBackup
  <2>1. /\ UNCHANGED <<server, phase, memory, pendingCommits, cursor, backupToken, disk>>
        /\ queue[1].op \in Ends
        /\ \/ /\ queue' = Tail(queue) /\ backup' = backup
              /\ finished' = IF queue[1].op = "commitEnd" THEN finished + 1 ELSE finished
           \/ /\ queue' = queue /\ finished' = finished
              /\ \E t \in Token, f \in Files : backup' = [backup EXCEPT ![t][f] = Absent]
    BY <1>8 DEF RemoveBackup, QueueUnchanged, Running, Head1, Ends, BackupTokens
  <2>2. CASE queue' = queue /\ finished' = finished
             /\ \E t \in Token, f \in Files : backup' = [backup EXCEPT ![t][f] = Absent]
    <3>1. PICK t \in Token, f \in Files : backup' = [backup EXCEPT ![t][f] = Absent]
      BY <2>2
    <3>2. backup' \in [Token -> Folder] /\ \A u \in Token : Store(backup'[u])
      BY <3>1, BackupExcept DEF Types
    <3>3. Typed'
      BY <2>1, <2>2, <3>2 DEF Types, Typed, server, memory
    <3>. QED
      BY <2>1, <2>2, <3>3, CountedFrame DEF Types
  <2>3. CASE queue' = Tail(queue) /\ backup' = backup
             /\ finished' = IF queue[1].op = "commitEnd" THEN finished + 1 ELSE finished
    <3>1. PICK F : F = queue[1].todo
      OBVIOUS
    <3>2. queue' = Without(F)
      BY <2>3, <3>1 DEF Without, Head1
    <3>3. PICK c \in {0, 1} : Dealt(queue', queue, F, c)
      BY <1>1, <3>2
    <3>4. c = 1
      BY <3>1, <3>3 DEF Dealt
    <3>5. Ending(1) <=> queue[1].op = "commitEnd"
      BY <1>0 DEF Ending
    <3>6. queue' \in Seq(Block) /\ (\A i \in DOMAIN queue' : Store(queue'[i].snapshot)) /\ Counted'
      <4>1. finished' = IF c = 1 /\ Ending(1) THEN finished + 1 ELSE finished
        BY <2>3, <3>4, <3>5
      <4>. QED
        BY <1>0, <2>1, <3>3, <4>1, DealtTyped DEF Types
    <3>7. Typed'
      BY <2>1, <2>3, <3>6 DEF Types, Typed, server, memory
    <3>. QED
      BY <3>6, <3>7 DEF Types
  <2>. QED
    BY <2>1, <2>2, <2>3
<1>. QED
  BY <1>3, <1>4, <1>5, <1>6, <1>7, <1>8 DEF QueueStep

LEMMA TypesKept == Types /\ [Next]_vars => Types'
<1> SUFFICES ASSUME Types, [Next]_vars PROVE Types'
  OBVIOUS
<1>1. CASE UNCHANGED vars
  <2>1. Typed'
    BY <1>1 DEF vars, server, memory, files, Types, Typed
  <2>. QED
    BY <1>1, <2>1, CountedFrame DEF Types, vars, commits
<1>. QED
  BY <1>1, ServerTyped, OpeningTyped, HandlingTyped, CommitTyped, QueueTyped DEF Next

\* Every variable of the store keeps its type, whoever stores what while a commit runs and
\* wherever the process dies; commits that have finished are among those that are pending.
THEOREM FileStoreTypeCorrect == Spec => []TypeOK
<1>1. Types => TypeOK
  BY DEF Types, Typed, Counted, TypeOK, Store
<1>. QED
  BY <1>1, InitTyped, TypesKept, PTL DEF Spec

(***************************************************************************)
(* Nothing is dropped between the lists, the blocks and the files, whatever*)
(* is stored while a commit runs.                                          *)
(***************************************************************************)
Loaded == phase \in {"repaired", "up", "closing"}
AtWork == phase \in {"up", "closing"}
Queued(f) == Has(queue, f)

\* Only an open store lists and queues, only a loaded one has live data.
Unused ==
  /\ ~AtWork => /\ response = Idle /\ dirty = {} /\ stateToCommit = EmptyFolder /\ toDelete = {}
                /\ queue = <<>> /\ cursor = NoCursor
  /\ ~Loaded => live = EmptyFolder
  /\ Loaded => live[MetaFile] # Absent

\* Tokens grow.
Tokens ==
  /\ LiveToken \subseteq 1..pos /\ response.to \subseteq 1..pos
  /\ response.to = NilToken \/ LiveToken \subseteq response.to
  /\ \A r \in Rooms : left[r] <= pos

\* A room whose files are to be deleted has been left for good.
Deleting(r) ==
  \/ r \in toDelete
  \/ \E i \in DOMAIN queue : queue[i].op = "delete" /\ \E f \in RoomFolder(r) : f \in queue[i].todo
Deletions ==
  /\ \A r \in response.joined : left[r] \notin LiveToken \cup response.to
  /\ \A r \in response.left : left[r] \in response.to
  /\ \A r \in Rooms : Deleting(r) =>
       left[r] \in LiveToken \cup response.to /\ \A f \in RoomFiles(r) : live[f] = Absent

MetaKnown ==
  /\ Stored(disk[MetaFile]) \subseteq 1..pos
  /\ \A t \in Token : Stored(backup[t][MetaFile]) \subseteq 1..pos

\* The state that is listed is the live one.
StateListed == \A f \in Files : stateToCommit[f] # Absent => f[1] = "state" /\ stateToCommit[f] = live[f]
Blocks ==
  /\ \A i \in DOMAIN queue : queue[i].op \in {"delete", "state"} => MetaFile \notin queue[i].todo
  /\ \A i \in DOMAIN queue : queue[i].op \in Ends => queue[i].todo = {}

\* The file being written is one of the first block.
Writing ==
  cursor # NoCursor =>
    /\ queue # <<>> /\ cursor.file \in queue[1].todo
    /\ queue[1].op \in {"messages", "state", "metaData"}
    /\ queue[1].op = "state" => cursor.content = queue[1].snapshot[cursor.file]

\* If the last block that has the file has a snapshot, it is c.
LastHas(q, f, c) ==
  \A i \in DOMAIN q :
    f \in q[i].todo /\ q[i].op = "state" /\ (\A j \in DOMAIN q : j > i => f \notin q[j].todo) =>
      q[i].snapshot[f] = c
Delivered(f) ==
  \/ Listed(f)
  \/ Queued(f) /\ LastHas(queue, f, live[f])
  \/ ~Queued(f) /\ disk[f] = live[f]
Delivery == Loaded => \A f \in Files : live[f] # Absent /\ Kept(f) => Delivered(f)

Flow == Unused /\ Tokens /\ Deletions /\ MetaKnown /\ StateListed /\ Blocks /\ Writing /\ Delivery

LEMMA InitFlow == Init => Flow
<1> SUFFICES ASSUME Init PROVE Flow
  OBVIOUS
<1>. USE DEF Init
<1>1. LiveToken = NilToken /\ Stored(disk[MetaFile]) = NilToken /\ DOMAIN queue = {}
  BY EmptyFolderFacts, FilesFacts, TokenFacts DEF LiveToken
<1>2. Unused /\ StateListed /\ Blocks /\ Writing /\ Delivery
  BY <1>1, EmptyFolderFacts DEF Unused, Loaded, StateListed, Blocks, Writing, Delivery
<1>3. Tokens /\ Deletions
  BY <1>1, EmptyFolderFacts, IdleFacts DEF Tokens, Deletions, Deleting, NilToken
<1>4. MetaKnown
  BY <1>1, EmptyFolderFacts, FilesFacts, TokenFacts DEF MetaKnown, NilToken
<1>. QED
  BY <1>2, <1>3, <1>4 DEF Flow

\* A step that leaves the store's lists, blocks and files alone.
LEMMA SameFlow ==
  ASSUME Flow,
         UNCHANGED <<live, dirty, stateToCommit, toDelete, queue, cursor, disk>>,
         phase' = phase \/ (~Loaded /\ ~Loaded') \/ (phase = "repaired" /\ phase' = "up"),
         ~AtWork' => response' = response /\ ~AtWork,
         \A r \in Rooms : left'[r] = 0 => left[r] = 0
  PROVE  Unused' /\ StateListed' /\ Blocks' /\ Writing' /\ Delivery'
<1>1. /\ \A f : Listed(f)' = Listed(f) /\ Queued(f)' = Queued(f)
      /\ Loaded' = Loaded /\ (AtWork => AtWork' \/ ~Loaded')
  BY DEF Listed, ListedIn, Queued, Has, Loaded, AtWork
<1>2. Unused'
  BY <1>1 DEF Flow, Unused, AtWork, Loaded
<1>3. StateListed' /\ Blocks' /\ Writing'
  BY DEF Flow, StateListed, Blocks, Writing
<1>4. \A f : Delivered(f)' <=> Delivered(f)
  BY <1>1 DEF Delivered, LastHas
<1>5. Delivery'
  BY <1>1, <1>4 DEF Flow, Delivery, Kept
<1>. QED
  BY <1>2, <1>3, <1>5

LEMMA ServerFlow ==
  ASSUME Types, Flow, NEW r \in Rooms, ServerEvent(r) \/ ServerLeave(r)
  PROVE  Flow'
<1>1. /\ UNCHANGED <<phase, live, response, dirty, stateToCommit, toDelete, queue, cursor, disk, backup>>
      /\ pos' = pos + 1 /\ pos \in Nat
      /\ left' = left \/ (left[r] = 0 /\ left' = [left EXCEPT ![r] = pos + 1])
  BY MaxPosAssumption DEF ServerEvent, ServerLeave, memory, files, Types, Typed
<1>2. Unused' /\ StateListed' /\ Blocks' /\ Writing' /\ Delivery'
  <2>1. \A s \in Rooms : left'[s] = 0 => left[s] = 0
    BY <1>1 DEF Types, Typed
  <2>. QED
    BY <1>1, <2>1, SameFlow DEF AtWork, Flow, Unused
<1>3. 1..pos \subseteq 1..pos' /\ pos + 1 \notin 1..pos /\ pos + 1 <= pos' /\ 0 \notin 1..pos
  BY <1>1
<1>4. /\ LiveToken' = LiveToken /\ LiveToken \cup response.to \subseteq 1..pos
      /\ \A s : Deleting(s)' = Deleting(s)
  BY <1>1 DEF LiveToken, Deleting, Flow, Tokens
<1>5. \A s \in Rooms : left'[s] = left[s] \/ (left[s] = 0 /\ left'[s] = pos + 1)
  BY <1>1 DEF Types, Typed
<1>6. Tokens'
  <2>1. \A s \in Rooms : left'[s] <= pos'
    <3>1. \A s \in Rooms : left[s] \in Nat /\ left[s] <= pos
      BY MaxPosAssumption DEF Types, Typed, Flow, Tokens
    <3>. QED
      BY <1>1, <1>5, <3>1
  <2>. QED
    BY <1>1, <1>3, <1>4, <2>1 DEF Flow, Tokens
<1>7. Deletions'
  <2>1. response.joined \subseteq Rooms /\ response.left \subseteq Rooms
    BY DEF Types, Typed, Response
  <2>2. \A s \in Rooms : left[s] \in LiveToken \cup response.to => left'[s] = left[s]
    BY <1>3, <1>4, <1>5
  <2>. QED
    BY <1>1, <1>3, <1>4, <1>5, <2>1, <2>2 DEF Flow, Deletions
<1>8. MetaKnown'
  BY <1>1, <1>3 DEF Flow, MetaKnown
<1>. QED
  BY <1>2, <1>6, <1>7, <1>8 DEF Flow

\* A step that does not touch what has been read and left.
LEMMA SameTokens ==
  ASSUME Flow, UNCHANGED <<pos, left, live, toDelete, queue>>,
         response'.joined = response.joined, response'.left = response.left, response'.to = response.to
  PROVE  Tokens' /\ Deletions'
<1>1. LiveToken' = LiveToken /\ \A s : Deleting(s)' = Deleting(s)
  BY DEF LiveToken, Deleting
<1>. QED
  BY <1>1 DEF Flow, Tokens, Deletions

\* The memory of a store that is not open.
LEMMA EmptyFlow ==
  ASSUME Types, Types', Flow, UNCHANGED <<pos, left>>,
         response' = Idle, dirty' = {}, stateToCommit' = EmptyFolder, toDelete' = {}, queue' = <<>>,
         cursor' = NoCursor,
         \/ live' = EmptyFolder /\ ~Loaded'
         \/ live' = disk' /\ Stored(disk[MetaFile]) # NilToken /\ Loaded' /\ disk' = disk
  PROVE  Unused' /\ Tokens' /\ Deletions' /\ StateListed' /\ Blocks' /\ Writing' /\ Delivery'
<1>0. DOMAIN queue' = {} /\ (AtWork' => Loaded')
  BY DEF AtWork, Loaded
<1>1. Unused'
  BY TokenFacts, <1>0 DEF Unused
<1>2. LiveToken' \subseteq 1..pos'
  <2>1. CASE live' = EmptyFolder
    BY <2>1, EmptyFolderFacts, FilesFacts DEF LiveToken, NilToken
  <2>2. CASE live' = disk' /\ disk' = disk
    BY <2>2, TokenFacts DEF LiveToken, Flow, MetaKnown, Stored, NilToken
  <2>. QED
    BY <2>1, <2>2
<1>3. Tokens' /\ Deletions'
  BY <1>0, <1>2, IdleFacts DEF Tokens, Deletions, Deleting, Flow, NilToken
<1>4. StateListed' /\ Blocks' /\ Writing'
  BY <1>0, EmptyFolderFacts DEF StateListed, Blocks, Writing
<1>5. Delivery'
  BY <1>0 DEF Delivery, Delivered, Queued, Has
<1>. QED
  BY <1>1, <1>3, <1>4, <1>5

\* A file of a backup is removed.
LEMMA ShrinkFlow ==
  ASSUME Types, Flow, NEW t \in Token, NEW f \in Files, backup' = [backup EXCEPT ![t][f] = Absent],
         UNCHANGED <<pos, left, phase, live, response, dirty, stateToCommit, toDelete, queue, cursor, disk>>
  PROVE  Flow'
<1>1. \A u \in Token : backup'[u][MetaFile] \in {backup[u][MetaFile], Absent}
  BY BackupExcept, FilesFacts DEF Types
<1>2. MetaKnown'
  BY <1>1, TokenFacts DEF Flow, MetaKnown, NilToken
<1>3. Unused' /\ StateListed' /\ Blocks' /\ Writing' /\ Delivery'
  BY SameFlow DEF AtWork, Flow, Unused
<1>4. Tokens' /\ Deletions'
  BY SameTokens
<1>. QED
  BY <1>2, <1>3, <1>4 DEF Flow

LEMMA OpeningFlow ==
  ASSUME Types, Types', Flow, Open \/ Opening
  PROVE  Flow'
<1>1. CASE Open \/ StartWipe
  <2>1. /\ phase \in {"down", "opening"} /\ phase' \in {"opening", "wiping"}
        /\ UNCHANGED <<pos, left, live, response, dirty, stateToCommit, toDelete, queue, cursor, disk, backup>>
    BY <1>1 DEF Open, StartWipe, server, memory, files
  <2>2. ~Loaded /\ ~Loaded' /\ ~AtWork
    BY <2>1 DEF Loaded, AtWork
  <2>3. Unused' /\ StateListed' /\ Blocks' /\ Writing' /\ Delivery' /\ Tokens' /\ Deletions'
    BY <2>1, <2>2, SameFlow, SameTokens
  <2>. QED
    BY <2>1, <2>3 DEF Flow, MetaKnown
<1>2. ASSUME ~AtWork, UNCHANGED <<pos, left, response, dirty, stateToCommit, toDelete, cursor>>,
             queue' = queue
      PROVE  /\ response' = Idle /\ dirty' = {} /\ stateToCommit' = EmptyFolder /\ toDelete' = {}
             /\ queue' = <<>> /\ cursor' = NoCursor
  BY <1>2 DEF Flow, Unused
<1>3. ASSUME NEW f \in Files, RestoreFile(f)
      PROVE  Flow'
  <2>1. PICK t \in Token : disk' = [disk EXCEPT ![f] = backup[t][f]]
    BY <1>3 DEF RestoreFile
  <2>2. /\ ~Loaded /\ ~Loaded' /\ ~AtWork
        /\ UNCHANGED <<pos, left, live, response, dirty, stateToCommit, toDelete, queue, cursor, backup>>
    BY <1>3 DEF RestoreFile, server, memory, Loaded, AtWork
  <2>3. live' = EmptyFolder
    BY <2>2 DEF Flow, Unused
  <2>4. disk'[MetaFile] = disk[MetaFile] \/ disk'[MetaFile] = backup[t][MetaFile]
    BY <2>1, FilesFacts DEF Types, Typed, Store, Folder
  <2>5. MetaKnown'
    BY <2>2, <2>4 DEF Flow, MetaKnown
  <2>. QED
    BY <1>2, <2>2, <2>3, <2>5, EmptyFlow DEF Flow
<1>4. CASE LoadAfterRestore \/ LoadIntact
  <2>1. /\ live' = disk' /\ disk' = disk /\ Stored(disk[MetaFile]) # NilToken
        /\ Loaded' /\ ~AtWork
        /\ UNCHANGED <<pos, left, response, dirty, stateToCommit, toDelete, queue, cursor, backup>>
    BY <1>4 DEF LoadAfterRestore, LoadIntact, LoadMetaData, server, files, Loaded, AtWork
  <2>2. MetaKnown'
    BY <2>1 DEF Flow, MetaKnown
  <2>. QED
    BY <1>2, <2>1, <2>2, EmptyFlow DEF Flow
<1>5. CASE RemoveRestoredBackup
  <2>1. /\ UNCHANGED <<pos, left, live, response, dirty, stateToCommit, toDelete, queue, cursor, disk>>
        /\ phase = "repaired"
        /\ \/ phase' = "up" /\ backup' = backup
           \/ /\ phase' = phase
              /\ \E t \in Token, f \in Files : backup' = [backup EXCEPT ![t][f] = Absent]
    BY <1>5 DEF RemoveRestoredBackup, BackupTokens, server, memory
  <2>2. CASE phase' = phase /\ \E t \in Token, f \in Files : backup' = [backup EXCEPT ![t][f] = Absent]
    BY <2>1, <2>2, ShrinkFlow
  <2>3. CASE phase' = "up" /\ backup' = backup
    <3>1. Unused' /\ StateListed' /\ Blocks' /\ Writing' /\ Delivery' /\ Tokens' /\ Deletions'
      BY <2>1, <2>3, SameFlow, SameTokens DEF AtWork
    <3>. QED
      BY <2>1, <2>3, <3>1 DEF Flow, MetaKnown
  <2>. QED
    BY <2>1, <2>2, <2>3
<1>6. CASE Wipe
  <2>1. /\ UNCHANGED <<pos, left, response, dirty, stateToCommit, toDelete, cursor>> /\ ~Loaded /\ ~AtWork
    BY <1>6 DEF Wipe, server, Loaded, AtWork
  <2>2. ASSUME NEW f \in Files, disk' = [disk EXCEPT ![f] = Absent],
               UNCHANGED <<backup, phase, live, queue, backupToken>>
        PROVE  Flow'
    <3>1. live' = EmptyFolder /\ ~Loaded'
      BY <2>1, <2>2 DEF Flow, Unused, Loaded
    <3>2. disk'[MetaFile] = disk[MetaFile] \/ disk'[MetaFile] = Absent
      BY <2>2, FilesFacts DEF Types, Typed, Store, Folder
    <3>3. MetaKnown'
      BY <2>1, <2>2, <3>2, TokenFacts DEF Flow, MetaKnown, NilToken
    <3>. QED
      BY <1>2, <2>1, <2>2, <3>1, <3>3, EmptyFlow DEF Flow
  <2>3. ASSUME NEW t \in BackupTokens, NEW f \in Files, backup' = [backup EXCEPT ![t][f] = Absent],
               UNCHANGED <<disk, phase, live, queue, backupToken>>
        PROVE  Flow'
    BY <2>1, <2>3, ShrinkFlow DEF BackupTokens
  <2>4. ASSUME live' = [EmptyFolder EXCEPT ![MetaFile] = NilToken],
               queue' = <<[op |-> "metaData", todo |-> {MetaFile}, snapshot |-> EmptyFolder]>>,
               phase' = "up", UNCHANGED files
        PROVE  Flow'
    <3>1. PICK b : b = [op |-> "metaData", todo |-> {MetaFile}, snapshot |-> EmptyFolder]
      OBVIOUS
    <3>2. DOMAIN queue' = {1} /\ queue'[1] = b /\ b.op = "metaData" /\ b.todo = {MetaFile}
      BY <2>4, <3>1
    <3>3. /\ response' = Idle /\ dirty' = {} /\ stateToCommit' = EmptyFolder /\ toDelete' = {}
          /\ cursor' = NoCursor
      BY <2>1 DEF Flow, Unused
    <3>4. live'[MetaFile] = NilToken /\ \A f \in Files : f # MetaFile => live'[f] = Absent
      BY <2>4, EmptyFolderFacts, FilesFacts DEF Folder
    <3>5. LiveToken' = NilToken /\ Loaded' /\ AtWork' /\ NilToken # Absent
      BY <2>4, <3>4, TokenFacts DEF LiveToken, Loaded, AtWork
    <3>6. Unused'
      BY <3>4, <3>5 DEF Unused
    <3>7. Tokens' /\ Deletions' /\ MetaKnown'
      BY <2>1, <2>4, <3>2, <3>3, <3>5, IdleFacts DEF Flow, Tokens, Deletions, Deleting, MetaKnown, NilToken, files
    <3>8. StateListed' /\ Blocks' /\ Writing'
      BY <3>2, <3>3, EmptyFolderFacts DEF StateListed, Blocks, Writing, Ends
    <3>9. Delivery'
      BY <3>2, <3>4 DEF Delivery, Delivered, Queued, Has, LastHas
    <3>. QED
      BY <3>6, <3>7, <3>8, <3>9 DEF Flow
  <2>. QED
    BY <1>6, <2>2, <2>3, <2>4 DEF Wipe
<1>. QED
  BY <1>1, <1>3, <1>4, <1>5, <1>6 DEF Opening

LEMMA ReceiveFlow ==
  ASSUME Types, Flow, ReceiveResponse
  PROVE  Flow'
<1>1. /\ UNCHANGED <<pos, left, timeline, phase, live, dirty, stateToCommit, toDelete, queue, cursor, disk, backup>>
      /\ phase = "up"
      /\ response'.joined = {r \in Rooms : left[r] = 0 /\ Unread(r) # {}}
      /\ response'.left = {r \in Rooms : left[r] > 0 /\ left[r] \notin LiveToken /\ LiveToken # NilToken}
      /\ response'.to = 1..pos /\ response.to = NilToken
  BY IdleFacts DEF ReceiveResponse, CanStore, OnMain, server, files
<1>2. LiveToken' = LiveToken /\ LiveToken \subseteq 1..pos /\ \A r : Deleting(r)' = Deleting(r)
  BY <1>1 DEF LiveToken, Deleting, Flow, Tokens
<1>3. Unused' /\ StateListed' /\ Blocks' /\ Writing' /\ Delivery'
  BY <1>1, SameFlow DEF AtWork
<1>4. Tokens'
  BY <1>1, <1>2 DEF Flow, Tokens
<1>5. pos \in Nat /\ \A r \in Rooms : left[r] \in Nat /\ left[r] <= pos
  BY MaxPosAssumption DEF Types, Typed, Flow, Tokens
<1>6. 0 \notin 1..pos /\ \A r \in Rooms : left[r] > 0 => left[r] \in 1..pos
  BY <1>5
<1>7. Deletions'
  BY <1>1, <1>2, <1>6 DEF Flow, Deletions, NilToken
<1>. QED
  BY <1>1, <1>3, <1>4, <1>7 DEF Flow, MetaKnown

LEMMA StoreRoomFlow ==
  ASSUME Types, Flow, NEW r \in Rooms, StoreRoom(r)
  PROVE  Flow'
<1>1. /\ UNCHANGED <<pos, left, phase, toDelete, queue, cursor, disk, backup>>
      /\ phase = "up" /\ r \in response.joined
      /\ response' = [response EXCEPT !.joined = @ \ {r}]
      /\ dirty' = dirty \cup {MessagesFile(r)}
  BY DEF StoreRoom, CanStore, OnMain, server, files
<1>2. /\ \A f \in Files : live'[f] = IF f \in RoomFiles(r) THEN New(r, f) ELSE live[f]
      /\ \A f \in Files : stateToCommit'[f] = IF f = StateFile(r) THEN New(r, f) ELSE stateToCommit[f]
      /\ \A f \in RoomFiles(r) : New(r, f) # Absent
  BY StoringRoom DEF Types
<1>3. /\ MetaFile \notin RoomFiles(r) /\ RoomFiles(r) = {MessagesFile(r), StateFile(r)}
      /\ StateFile(r) \in Files /\ StateFile(r)[1] = "state" /\ MetaFile \in Files
  BY FilesFacts, RoomFilesFacts
<1>4. /\ response'.joined = response.joined \ {r} /\ response'.left = response.left
      /\ response'.to = response.to
  BY <1>1 DEF Types, Typed, Response
<1>5. LiveToken' = LiveToken /\ Loaded /\ Loaded' /\ AtWork'
  BY <1>1, <1>2, <1>3 DEF LiveToken, Loaded, AtWork
<1>6. Unused'
  BY <1>2, <1>3, <1>5 DEF Flow, Unused
<1>7. Tokens'
  BY <1>1, <1>4, <1>5 DEF Flow, Tokens
<1>8. Deletions'
  <2>1. \A s : Deleting(s)' = Deleting(s)
    BY <1>1 DEF Deleting
  <2>2. \A s \in Rooms : Deleting(s) => s # r
    BY <1>1 DEF Flow, Deletions
  <2>3. \A s \in Rooms : s # r => \A f \in RoomFiles(s) : f \in Files /\ f \notin RoomFiles(r)
    BY RoomFilesFacts
  <2>4. \A s \in Rooms : Deleting(s) => \A f \in RoomFiles(s) : live'[f] = live[f]
    BY <1>2, <2>2, <2>3
  <2>. QED
    BY <1>1, <1>4, <1>5, <2>1, <2>4 DEF Flow, Deletions
<1>9. ASSUME NEW f \in Files, stateToCommit'[f] # Absent
      PROVE  f[1] = "state" /\ stateToCommit'[f] = live'[f]
  <2>1. CASE f = StateFile(r)
    BY <1>2, <1>3, <2>1
  <2>2. CASE f # StateFile(r)
    <3>1. stateToCommit[f] # Absent /\ f[1] = "state"
      BY <1>2, <1>9, <2>2 DEF Flow, StateListed
    <3>2. f \notin RoomFiles(r)
      BY <1>3, <2>2, <3>1, FilesFacts
    <3>. QED
      BY <1>2, <2>2, <3>1, <3>2 DEF Flow, StateListed
  <2>. QED
    BY <2>1, <2>2
<1>10. Blocks' /\ Writing' /\ MetaKnown'
  BY <1>1 DEF Flow, Blocks, Writing, MetaKnown
<1>11. ASSUME NEW f \in Files, live'[f] # Absent, Kept(f)
       PROVE  Delivered(f)'
  <2>1. CASE f \in RoomFiles(r)
    BY <1>1, <1>2, <1>3, <2>1 DEF Delivered, Listed
  <2>2. CASE f \notin RoomFiles(r)
    <3>1. live'[f] = live[f] /\ Delivered(f)
      BY <1>2, <1>5, <1>11, <2>2 DEF Flow, Delivery
    <3>2. Listed(f) => Listed(f)'
      BY <1>1, <1>2, <1>3, <2>2 DEF Listed, ListedIn
    <3>3. Queued(f)' = Queued(f) /\ (LastHas(queue, f, live[f]) => LastHas(queue, f, live[f])')
      BY <1>1, <3>1 DEF Queued, Has, LastHas
    <3>. QED
      BY <1>1, <3>1, <3>2, <3>3 DEF Delivered
  <2>. QED
    BY <2>1, <2>2
<1>. QED
  BY <1>1, <1>6, <1>7, <1>8, <1>9, <1>10, <1>11 DEF Flow, StateListed, Delivery, Kept

LEMMA DeleteRoomFlow ==
  ASSUME Types, Flow, NEW r \in Rooms, DeleteRoom(r)
  PROVE  Flow'
<1>1. /\ UNCHANGED <<pos, left, phase, queue, cursor, disk, backup>>
      /\ phase = "up" /\ r \in response.left
      /\ response' = [response EXCEPT !.left = @ \ {r}]
      /\ dirty' = dirty \ {MessagesFile(r)} /\ toDelete' = toDelete \cup {r}
  BY DEF DeleteRoom, CanStore, OnMain, server, files
<1>2. /\ \A f \in Files : live'[f] = IF f \in RoomFiles(r) THEN Absent ELSE live[f]
      /\ \A f \in Files : stateToCommit'[f] = IF f = StateFile(r) THEN Absent ELSE stateToCommit[f]
  BY DeletingRoom DEF Types
<1>3. /\ MetaFile \notin RoomFiles(r) /\ RoomFiles(r) = {MessagesFile(r), StateFile(r)} /\ MetaFile \in Files
      /\ MessagesFile(r)[1] = "messages" /\ \A s \in Rooms : RoomFiles(s) \subseteq Files
  BY FilesFacts, RoomFilesFacts
<1>4. /\ response'.joined = response.joined /\ response'.left = response.left \ {r}
      /\ response'.to = response.to
  BY <1>1 DEF Types, Typed, Response
<1>5. LiveToken' = LiveToken /\ Loaded /\ Loaded' /\ AtWork'
  BY <1>1, <1>2, <1>3 DEF LiveToken, Loaded, AtWork
<1>6. Unused'
  BY <1>2, <1>3, <1>5 DEF Flow, Unused
<1>7. Tokens'
  BY <1>1, <1>4, <1>5 DEF Flow, Tokens
<1>8. Deletions'
  <2>1. \A s : Deleting(s)' => Deleting(s) \/ s = r
    BY <1>1 DEF Deleting
  <2>2. \A s \in Rooms : \A f \in RoomFiles(s) : live[f] = Absent => live'[f] = Absent
    BY <1>2, <1>3
  <2>3. \A f \in RoomFiles(r) : live'[f] = Absent
    BY <1>2, <1>3
  <2>4. left[r] \in response.to
    BY <1>1 DEF Flow, Deletions
  <2>. QED
    BY <1>1, <1>4, <1>5, <2>1, <2>2, <2>3, <2>4 DEF Flow, Deletions
<1>9. ASSUME NEW f \in Files, stateToCommit'[f] # Absent
      PROVE  f[1] = "state" /\ stateToCommit'[f] = live'[f]
  <2>1. f # StateFile(r) /\ stateToCommit[f] # Absent /\ f[1] = "state"
    BY <1>2, <1>9 DEF Flow, StateListed
  <2>2. f \notin RoomFiles(r)
    BY <1>3, <2>1
  <2>. QED
    BY <1>2, <2>1, <2>2 DEF Flow, StateListed
<1>10. Blocks' /\ Writing' /\ MetaKnown'
  BY <1>1 DEF Flow, Blocks, Writing, MetaKnown
<1>11. ASSUME NEW f \in Files, live'[f] # Absent, Kept(f)
       PROVE  Delivered(f)'
  <2>1. f \notin RoomFiles(r) /\ live'[f] = live[f] /\ Delivered(f)
    BY <1>2, <1>5, <1>11 DEF Flow, Delivery
  <2>2. Listed(f) => Listed(f)'
    BY <1>1, <1>2, <1>3, <2>1 DEF Listed, ListedIn
  <2>3. Queued(f)' = Queued(f) /\ (LastHas(queue, f, live[f]) => LastHas(queue, f, live[f])')
    BY <1>1, <2>1 DEF Queued, Has, LastHas
  <2>. QED
    BY <1>1, <2>1, <2>2, <2>3 DEF Delivered
<1>. QED
  BY <1>1, <1>6, <1>7, <1>8, <1>9, <1>10, <1>11 DEF Flow, StateListed, Delivery, Kept

LEMMA StoreOutgoingFlow ==
  ASSUME Types, Flow, NEW r \in Rooms, StoreOutgoing(r)
  PROVE  Flow'
<1>1. /\ UNCHANGED <<pos, left, phase, response, stateToCommit, toDelete, queue, cursor, disk, backup>>
      /\ phase = "up" /\ dirty' = dirty \cup {OutgoingFile(r)}
  BY DEF StoreOutgoing, CanStore, OnMain, server, files
<1>2. /\ OutgoingFile(r) \in Files /\ \A f \in Files : f # OutgoingFile(r) => live'[f] = live[f]
      /\ live'[OutgoingFile(r)] # Absent
  BY StoringOutgoing DEF Types
<1>3. /\ MetaFile \in Files /\ MetaFile # OutgoingFile(r) /\ OutgoingFile(r)[1] = "outgoingMessages"
      /\ \A s \in Rooms : \A f \in RoomFiles(s) : f \in Files /\ f # OutgoingFile(r)
  BY FilesFacts, RoomFilesFacts, OutgoingFacts
<1>4. LiveToken' = LiveToken /\ Loaded /\ Loaded' /\ AtWork'
  BY <1>1, <1>2, <1>3 DEF LiveToken, Loaded, AtWork
<1>5. Unused'
  BY <1>2, <1>3, <1>4 DEF Flow, Unused
<1>6. Tokens'
  BY <1>1, <1>4 DEF Flow, Tokens
<1>7. Deletions'
  <2>1. \A s : Deleting(s)' = Deleting(s)
    BY <1>1 DEF Deleting
  <2>2. \A s \in Rooms : \A f \in RoomFiles(s) : live'[f] = live[f]
    BY <1>2, <1>3
  <2>. QED
    BY <1>1, <1>4, <2>1, <2>2 DEF Flow, Deletions
<1>8. StateListed'
  BY <1>1, <1>2, <1>3 DEF Flow, StateListed
<1>9. Blocks' /\ Writing' /\ MetaKnown'
  BY <1>1 DEF Flow, Blocks, Writing, MetaKnown
<1>10. ASSUME NEW f \in Files, live'[f] # Absent, Kept(f)
       PROVE  Delivered(f)'
  <2>1. CASE f = OutgoingFile(r)
    BY <1>1, <2>1 DEF Delivered, Listed
  <2>2. CASE f # OutgoingFile(r)
    <3>1. live'[f] = live[f] /\ Delivered(f)
      BY <1>2, <1>4, <1>10, <2>2 DEF Flow, Delivery
    <3>2. Listed(f) => Listed(f)'
      BY <1>1 DEF Listed, ListedIn
    <3>3. Queued(f)' = Queued(f) /\ (LastHas(queue, f, live[f]) => LastHas(queue, f, live[f])')
      BY <1>1, <3>1 DEF Queued, Has, LastHas
    <3>. QED
      BY <1>1, <3>1, <3>2, <3>3 DEF Delivered
  <2>. QED
    BY <2>1, <2>2
<1>. QED
  BY <1>1, <1>5, <1>6, <1>7, <1>8, <1>9, <1>10 DEF Flow, Delivery, Kept

LEMMA SetTokenFlow ==
  ASSUME Types, Flow, SetEventStreamToken
  PROVE  Flow'
<1>1. /\ UNCHANGED <<pos, left, phase, stateToCommit, toDelete, queue, cursor, disk, backup>>
      /\ phase = "up" /\ response.to # NilToken
      /\ dirty' = IF live[MetaFile] = Absent THEN dirty ELSE dirty \cup {MetaFile}
  BY DEF SetEventStreamToken, CanStore, OnMain, server, files
<1>2. Loaded /\ Loaded' /\ AtWork' /\ live[MetaFile] # Absent
  BY <1>1 DEF Flow, Unused, Loaded, AtWork
<1>3. /\ \A f \in Files : f # MetaFile => live'[f] = live[f]
      /\ live'[MetaFile] = response.to /\ LiveToken' = response.to
      /\ response'.to = NilToken /\ response'.joined = {} /\ response'.left = {}
      /\ response.to \in Token /\ response.to # Absent
  BY <1>2, SettingToken, TokenFacts DEF Types, Typed, Response
<1>4. Unused'
  BY <1>2, <1>3 DEF Flow, Unused
<1>5. Tokens'
  BY <1>1, <1>3 DEF Flow, Tokens, NilToken
<1>6. Deletions'
  <2>1. \A s : Deleting(s)' = Deleting(s)
    BY <1>1 DEF Deleting
  <2>2. \A s \in Rooms : \A f \in RoomFiles(s) : live'[f] = live[f]
    BY <1>3, RoomFilesFacts
  <2>3. LiveToken \subseteq response.to
    BY <1>1 DEF Flow, Tokens
  <2>. QED
    BY <1>1, <1>3, <2>1, <2>2, <2>3 DEF Flow, Deletions
<1>7. MetaFile[1] # "state"
  BY DEF MetaFile
<1>8. StateListed'
  BY <1>1, <1>3, <1>7 DEF Flow, StateListed
<1>9. Blocks' /\ Writing' /\ MetaKnown'
  BY <1>1 DEF Flow, Blocks, Writing, MetaKnown
<1>10. ASSUME NEW f \in Files, live'[f] # Absent, Kept(f)
       PROVE  Delivered(f)'
  <2>1. CASE f = MetaFile
    BY <1>1, <1>2, <2>1 DEF Delivered, Listed
  <2>2. CASE f # MetaFile
    <3>1. live'[f] = live[f] /\ Delivered(f)
      BY <1>2, <1>3, <1>10, <2>2 DEF Flow, Delivery
    <3>2. Listed(f) => Listed(f)'
      BY <1>1 DEF Listed, ListedIn
    <3>3. Queued(f)' = Queued(f) /\ (LastHas(queue, f, live[f]) => LastHas(queue, f, live[f])')
      BY <1>1, <3>1 DEF Queued, Has, LastHas
    <3>. QED
      BY <1>1, <3>1, <3>2, <3>3 DEF Delivered
  <2>. QED
    BY <2>1, <2>2
<1>. QED
  BY <1>1, <1>4, <1>5, <1>6, <1>8, <1>9, <1>10 DEF Flow, Delivery, Kept

\* The lists become blocks.
LEMMA SavedFlow ==
  ASSUME Types, Flow, NEW end \in Ends, SaveDataToFiles(end), AtWork, Loaded' = Loaded, AtWork',
         UNCHANGED <<pos, left, live, cursor, disk, backup>>,
         response'.joined = response.joined, response'.left = response.left, response'.to = response.to
  PROVE  Flow'
<1>1. /\ dirty' = {} /\ stateToCommit' = EmptyFolder /\ toDelete' = {}
      /\ LiveToken' = LiveToken /\ Loaded
  BY DEF SaveDataToFiles, LiveToken, AtWork, Loaded
<1>2. /\ \A i \in DOMAIN queue : i \in DOMAIN queue' /\ queue'[i] = queue[i]
      /\ \A i \in DOMAIN queue' : i \in DOMAIN queue \/ FromList(queue'[i])
                                  \/ (queue'[i].op = end /\ queue'[i].todo = {})
      /\ \A f \in Files : Queued(f)' <=> Queued(f) \/ Listed(f)
      /\ \A f \in Files : Listed(f) => \E i \in DOMAIN queue' : i \notin DOMAIN queue /\ f \in queue'[i].todo
      /\ queue \in Seq(Block) /\ queue' \in Seq(Block)
  BY SavedQueue DEF Types, Typed, Queued
<1>3. \A f \in Files : ~Listed(f) => \A i \in DOMAIN queue' : i \notin DOMAIN queue => f \notin queue'[i].todo
  <2>1. \A f, b : FromList(b) /\ f \in Files /\ f \in b.todo => Listed(f)
    BY DEF FromList, Listed, ListedIn, ToDeleteFiles, StateFiles, DirtyMessages, DirtyMetaData
  <2>. QED
    BY <1>2, <2>1
<1>4. \A i \in DOMAIN queue' : i \notin DOMAIN queue =>
        /\ queue'[i].op = "delete" => queue'[i].todo \subseteq ToDeleteFiles
        /\ queue'[i].op = "state" => queue'[i].todo = StateFiles /\ queue'[i].snapshot = stateToCommit
        /\ queue'[i].op \in Ends => queue'[i].todo = {}
  BY <1>2 DEF FromList, Ends
<1>5. MetaFile \notin ToDeleteFiles /\ MetaFile \notin StateFiles
  <2>1. MetaFile[1] # "state"
    BY DEF MetaFile
  <2>2. \A r \in toDelete : MetaFile \notin RoomFolder(r)
    BY RoomFilesFacts DEF Types, Typed
  <2>. QED
    BY <2>1, <2>2 DEF ToDeleteFiles, StateFiles, Flow, StateListed
<1>6. Blocks'
  BY <1>2, <1>4, <1>5 DEF Flow, Blocks
<1>7. \A r \in Rooms : Deleting(r)' => Deleting(r)
  <2> SUFFICES ASSUME NEW r \in Rooms, NEW i \in DOMAIN queue', queue'[i].op = "delete",
                      NEW f \in RoomFolder(r), f \in queue'[i].todo
               PROVE  Deleting(r)
    BY <1>1 DEF Deleting
  <2>1. CASE i \in DOMAIN queue
    BY <1>2, <2>1 DEF Deleting
  <2>2. CASE i \notin DOMAIN queue
    <3>1. PICK s \in toDelete : f \in RoomFolder(s)
      BY <1>4, <2>2 DEF ToDeleteFiles
    <3>2. s = r
      BY <3>1, RoomFilesFacts DEF Types, Typed
    <3>. QED
      BY <3>1, <3>2 DEF Deleting
  <2>. QED
    BY <2>1, <2>2
<1>8. Tokens' /\ Deletions'
  BY <1>1, <1>7 DEF Flow, Tokens, Deletions
<1>9. Unused' /\ MetaKnown'
  BY <1>1 DEF Flow, Unused, MetaKnown
<1>10. StateListed'
  BY <1>1, EmptyFolderFacts DEF StateListed
<1>11. Writing'
  <2>1. queue # <<>> => 1 \in DOMAIN queue
    BY <1>2
  <2>2. queue # <<>> => queue' # <<>>
    BY <1>2, <2>1
  <2>. QED
    BY <1>2, <2>1, <2>2 DEF Flow, Writing
<1>12. ASSUME NEW f \in Files, live[f] # Absent, Kept(f)
       PROVE  Delivered(f)'
  <2>1. Delivered(f)
    BY <1>1, <1>12 DEF Flow, Delivery
  <2>2. CASE Listed(f)
    <3>1. LastHas(queue', f, live[f])
      <4> SUFFICES ASSUME NEW i \in DOMAIN queue', f \in queue'[i].todo, queue'[i].op = "state",
                          \A j \in DOMAIN queue' : j > i => f \notin queue'[j].todo
                   PROVE  queue'[i].snapshot[f] = live[f]
        BY DEF LastHas
      <4>1. PICK k \in DOMAIN queue' : k \notin DOMAIN queue /\ f \in queue'[k].todo
        BY <1>2, <2>2
      <4>2. i \notin DOMAIN queue
        BY <1>2, <4>1
      <4>3. queue'[i].snapshot = stateToCommit /\ f \in StateFiles
        BY <1>4, <4>2
      <4>. QED
        BY <4>3 DEF StateFiles, Flow, StateListed
    <3>. QED
      BY <1>2, <2>2, <3>1 DEF Delivered
  <2>3. CASE ~Listed(f)
    <3>1. Queued(f)' <=> Queued(f)
      BY <1>2, <2>3
    <3>2. LastHas(queue, f, live[f]) => LastHas(queue', f, live[f])
      <4> SUFFICES ASSUME LastHas(queue, f, live[f]), NEW i \in DOMAIN queue', f \in queue'[i].todo,
                          queue'[i].op = "state", \A j \in DOMAIN queue' : j > i => f \notin queue'[j].todo
                   PROVE  queue'[i].snapshot[f] = live[f]
        BY DEF LastHas
      <4>1. i \in DOMAIN queue
        BY <1>3, <2>3
      <4>2. queue'[i] = queue[i] /\ \A j \in DOMAIN queue : j > i => f \notin queue[j].todo
        BY <1>2, <4>1
      <4>. QED
        BY <4>1, <4>2 DEF LastHas
    <3>. QED
      BY <2>1, <2>3, <3>1, <3>2 DEF Delivered
  <2>. QED
    BY <2>2, <2>3
<1>. QED
  BY <1>6, <1>8, <1>9, <1>10, <1>11, <1>12 DEF Flow, Delivery, Kept

LEMMA CommitFlow ==
  ASSUME Types, Types', Flow, Commit \/ CommitIgnored \/ CommitDone \/ Close \/ Closed \/ Crash
  PROVE  Flow'
<1>1. CASE Commit
  <2>1. PICK end \in Ends : end = "commitEnd"
    BY DEF Ends
  <2>2. /\ SaveDataToFiles(end) /\ phase = "up" /\ phase' = "up"
        /\ UNCHANGED <<pos, left, live, cursor, disk, backup>>
        /\ response' = [response EXCEPT !.commit = FALSE]
    BY <1>1, <2>1 DEF Commit, server, files
  <2>3. response'.joined = response.joined /\ response'.left = response.left /\ response'.to = response.to
    BY <2>2 DEF Types, Typed, Response
  <2>. QED
    BY <2>2, <2>3, SavedFlow DEF AtWork, Loaded
<1>2. ASSUME phase = "up" /\ phase' \in {"up", "closing"},
             UNCHANGED <<pos, left, live, dirty, stateToCommit, toDelete, queue, cursor, disk, backup>>,
             response' = response \/ response' = [response EXCEPT !.commit = FALSE]
      PROVE  Flow'
  <2>1. response'.joined = response.joined /\ response'.left = response.left /\ response'.to = response.to
    BY <1>2 DEF Types, Typed, Response
  <2>2. Tokens' /\ Deletions'
    BY <1>2, <2>1, SameTokens
  <2>3. /\ Loaded' /\ Loaded /\ AtWork'
        /\ \A f : Listed(f)' = Listed(f) /\ Queued(f)' = Queued(f)
    BY <1>2 DEF Loaded, AtWork, Listed, ListedIn, Queued, Has
  <2>4. \A f : Delivered(f)' <=> Delivered(f)
    BY <1>2, <2>3 DEF Delivered, LastHas
  <2>5. Unused' /\ StateListed' /\ Blocks' /\ Writing' /\ Delivery' /\ MetaKnown'
    BY <1>2, <2>3, <2>4 DEF Flow, Unused, StateListed, Blocks, Writing, Delivery, Kept, MetaKnown
  <2>. QED
    BY <2>2, <2>5 DEF Flow
<1>3. CASE CommitIgnored \/ CommitDone
  BY <1>2, <1>3 DEF CommitIgnored, CommitDone, OnMain, server, memory, files
<1>4. CASE Close
  <2>1. CASE SaveDataToFiles("closeEnd")
    <3>1. PICK end \in Ends : end = "closeEnd"
      BY DEF Ends
    <3>2. /\ SaveDataToFiles(end) /\ phase = "up" /\ phase' = "closing"
          /\ UNCHANGED <<pos, left, live, response, cursor, disk, backup>>
      BY <1>4, <2>1, <3>1 DEF Close, OnMain, server, files
    <3>. QED
      BY <3>2, SavedFlow DEF AtWork, Loaded
  <2>2. CASE UNCHANGED <<queue, dirty, stateToCommit, toDelete>>
    BY <1>2, <1>4, <2>2 DEF Close, OnMain, server, files
  <2>. QED
    BY <1>4, <2>1, <2>2 DEF Close
<1>5. CASE Closed \/ Crash
  <2>1. ForgetMemory /\ UNCHANGED <<server, files>> /\ phase' = "down"
    BY <1>5 DEF Closed, Crash
  <2>2. MetaKnown' /\ UNCHANGED <<pos, left>>
    BY <2>1 DEF Flow, MetaKnown, server, files
  <2>. QED
    BY <2>1, <2>2, EmptyFlow DEF ForgetMemory, Flow, Loaded
<1>. QED
  BY <1>1, <1>3, <1>4, <1>5

\* The files of F are done in the first block.
LEMMA DealtFlow ==
  ASSUME Types, Flow, queue # <<>>, NEW F, NEW c \in {0, 1}, Dealt(queue', queue, F, c),
         UNCHANGED <<pos, left, phase, live, response, dirty, stateToCommit, toDelete>>,
         cursor' = NoCursor
  PROVE  /\ Unused' /\ Tokens' /\ Deletions' /\ StateListed' /\ Blocks' /\ Writing'
         /\ \A f : Listed(f)' = Listed(f)
         /\ \A f : f \notin F => (Queued(f)' <=> Queued(f))
         /\ \A f, x : LastHas(queue, f, x) => LastHas(queue', f, x)
         /\ \A f \in F : f \in queue[1].todo /\ ~Queued(f)' =>
              \A j \in DOMAIN queue : j > 1 => f \notin queue[j].todo
<1>1. /\ queue \in Seq(Block) /\ queue' \in Seq(Block) /\ Len(queue') = Len(queue) - c
      /\ DOMAIN queue = 1..Len(queue) /\ DOMAIN queue' = 1..Len(queue')
      /\ Len(queue) \in Nat /\ Len(queue') \in Nat /\ 1 \in DOMAIN queue
      /\ c = 1 => queue[1].todo \subseteq F
      /\ \A i \in DOMAIN queue' :
           /\ i + c \in DOMAIN queue
           /\ queue'[i].op = queue[i + c].op /\ queue'[i].snapshot = queue[i + c].snapshot
           /\ queue'[i].todo = IF i + c = 1 THEN queue[i + c].todo \ F ELSE queue[i + c].todo
  <2>1. queue \in Seq(Block)
    BY DEF Types, Typed
  <2>2. /\ queue' \in Seq(Block) /\ Len(queue') = Len(queue) - c
        /\ c = 1 => queue[1].todo \subseteq F
        /\ \A i \in DOMAIN queue' :
             /\ i + c \in DOMAIN queue
             /\ queue'[i].op = queue[i + c].op /\ queue'[i].snapshot = queue[i + c].snapshot
             /\ queue'[i].todo = IF i + c = 1 THEN queue[i + c].todo \ F ELSE queue[i + c].todo
    BY Zenon DEF Dealt
  <2>. HIDE DEF Dealt
  <2>3. /\ DOMAIN queue = 1..Len(queue) /\ DOMAIN queue' = 1..Len(queue')
        /\ Len(queue) \in Nat /\ Len(queue') \in Nat /\ 1 \in DOMAIN queue
    BY <2>1, <2>2
  <2>. QED
    BY <2>1, <2>2, <2>3, Zenon
<1>2. \A i \in DOMAIN queue' : queue'[i].todo \subseteq queue[i + c].todo
  BY <1>1
<1>3. \A j \in DOMAIN queue : j > 1 => j - c \in DOMAIN queue' /\ (j - c) + c = j /\ queue'[j - c].todo = queue[j].todo
  <2> SUFFICES ASSUME NEW j \in DOMAIN queue, j > 1
               PROVE  j - c \in DOMAIN queue' /\ (j - c) + c = j /\ queue'[j - c].todo = queue[j].todo
    OBVIOUS
  <2>1. j - c \in DOMAIN queue' /\ (j - c) + c = j
    BY <1>1
  <2>2. ASSUME NEW k \in DOMAIN queue', k + c = j
        PROVE  queue'[k].todo = queue[j].todo
    <3>1. queue'[k].todo = IF k + c = 1 THEN queue[k + c].todo \ F ELSE queue[k + c].todo
      BY <1>1, Zenon
    <3>2. k + c # 1
      BY <2>2
    <3>. QED
      BY <2>2, <3>1, <3>2, Zenon
  <2>. QED
    BY <2>1, <2>2
<1>4. LiveToken' = LiveToken /\ (\A f : Listed(f)' = Listed(f)) /\ \A r \in Rooms : Deleting(r)' => Deleting(r)
  <2>1. LiveToken' = LiveToken /\ \A f : Listed(f)' = Listed(f)
    BY DEF LiveToken, Listed, ListedIn
  <2>2. \A r \in Rooms : Deleting(r)' => Deleting(r)
    BY <1>1, <1>2 DEF Deleting
  <2>. QED
    BY <2>1, <2>2
<1>5. Unused'
  <2>1. AtWork
    BY DEF Flow, Unused
  <2>. QED
    BY <2>1 DEF Flow, Unused, AtWork, Loaded
<1>6. Tokens' /\ Deletions' /\ StateListed'
  BY <1>4 DEF Flow, Tokens, Deletions, StateListed
<1>7. Blocks'
  BY <1>1, <1>2 DEF Flow, Blocks
<1>8. Writing'
  BY DEF Writing
<1>9. ASSUME NEW f, f \notin F
      PROVE  Queued(f)' <=> Queued(f)
  <2>1. Queued(f)' => Queued(f)
    BY <1>1, <1>2 DEF Queued, Has
  <2>2. ASSUME NEW j \in DOMAIN queue, f \in queue[j].todo
        PROVE  Queued(f)'
    <3>1. CASE j > 1
      BY <1>3, <2>2, <3>1 DEF Queued, Has
    <3>2. CASE ~(j > 1)
      <4>1. j = 1 /\ c = 0 /\ f \in queue[1].todo
        BY <1>1, <1>9, <2>2, <3>2
      <4>2. 1 \in DOMAIN queue' /\ 1 + c = 1
        BY <1>1, <4>1
      <4>3. f \in queue'[1].todo
        BY <1>1, <1>9, <4>1, <4>2
      <4>. QED
        BY <4>2, <4>3 DEF Queued, Has
    <3>. QED
      BY <3>1, <3>2
  <2>. QED
    BY <2>1, <2>2 DEF Queued, Has
<1>10. ASSUME NEW f, NEW x, LastHas(queue, f, x)
       PROVE  LastHas(queue', f, x)
  <2> SUFFICES ASSUME NEW i \in DOMAIN queue', f \in queue'[i].todo, queue'[i].op = "state",
                      \A j \in DOMAIN queue' : j > i => f \notin queue'[j].todo
               PROVE  queue'[i].snapshot[f] = x
    BY DEF LastHas
  <2>1. i + c \in DOMAIN queue /\ f \in queue[i + c].todo /\ queue[i + c].op = "state"
    BY <1>1, <1>2
  <2>2. ASSUME NEW j \in DOMAIN queue, j > i + c
        PROVE  f \notin queue[j].todo
    <3>1. j > 1 /\ j - c > i
      BY <1>1, <2>2
    <3>. QED
      BY <1>3, <3>1
  <2>3. queue[i + c].snapshot[f] = x
    BY <1>10, <2>1, <2>2 DEF LastHas
  <2>. QED
    BY <1>1, <2>3
<1>11. ASSUME NEW f, ~Queued(f)', NEW j \in DOMAIN queue, j > 1
       PROVE  f \notin queue[j].todo
  BY <1>3, <1>11 DEF Queued, Has
<1>. QED
  BY <1>4, <1>5, <1>6, <1>7, <1>8, <1>9, <1>10, <1>11

\* A file that a step of the queue leaves alone is delivered as before.
LEMMA SameDelivered ==
  ASSUME NEW f, Delivered(f), live' = live, Listed(f)' = Listed(f), Queued(f)' <=> Queued(f),
         LastHas(queue, f, live[f]) => LastHas(queue', f, live[f]), Queued(f) \/ disk'[f] = disk[f]
  PROVE  Delivered(f)'
BY DEF Delivered

LEMMA MovedKnown ==
  ASSUME Types, Flow, NEW F, F \subseteq Files, MoveToBackup(F), pos' = pos
  PROVE  MetaKnown'
<1>1. /\ disk'[MetaFile] \in {disk[MetaFile], Absent}
      /\ \A t \in Token : backup'[t][MetaFile] \in {disk[MetaFile], backup[t][MetaFile]}
  BY Moving, FilesFacts DEF Types
<1>. QED
  BY <1>1, TokenFacts DEF Flow, MetaKnown, NilToken

LEMMA QueueFlow ==
  ASSUME Types, Types', Flow, QueueStep
  PROVE  Flow'
<1>0. /\ queue # <<>> /\ AtWork /\ Loaded /\ queue \in Seq(Block) /\ 1 \in DOMAIN queue
      /\ \A f \in Files : live[f] # Absent /\ Kept(f) => Delivered(f)
      /\ \A F : queue' = Without(F) => \E c \in {0, 1} : Dealt(queue', queue, F, c)
  <2>1. queue # <<>>
    BY DEF QueueStep, DeleteFolder, SkipFile, BackupFile, LabelBackups, WriteFile, RemoveBackup, Running
  <2>2. AtWork /\ Loaded
    BY <2>1 DEF Flow, Unused, AtWork, Loaded
  <2>. QED
    BY <2>1, <2>2, WithoutFacts DEF Types, Typed, Flow, Delivery
<1>1. ASSUME NEW r \in Rooms, DeleteFolder(r)
      PROVE  Flow'
  <2>1. /\ MoveToBackup(RoomFolder(r)) /\ queue' = Without(RoomFolder(r)) /\ queue[1].op = "delete"
        /\ RoomFolder(r) \subseteq queue[1].todo /\ RoomFolder(r) \subseteq Files
        /\ UNCHANGED <<pos, left, phase, live, response, dirty, stateToCommit, toDelete, cursor>>
    BY <1>1, RoomFilesFacts DEF DeleteFolder, QueueUnchanged, Running, Head1, server, memory
  <2>2. PICK F \in SUBSET Files : F = RoomFolder(r)
    BY <2>1
  <2>3. PICK c \in {0, 1} : Dealt(queue', queue, F, c)
    BY <1>0, <2>1, <2>2
  <2>4. cursor' = NoCursor
    BY <2>1 DEF Flow, Writing
  <2>5. /\ Unused' /\ Tokens' /\ Deletions' /\ StateListed' /\ Blocks' /\ Writing'
        /\ \A f : Listed(f)' = Listed(f)
        /\ \A f : f \notin F => (Queued(f)' <=> Queued(f))
        /\ \A f, x : LastHas(queue, f, x) => LastHas(queue', f, x)
    BY <1>0, <2>1, <2>3, <2>4, DealtFlow
  <2>6. MetaKnown'
    BY <2>1, MovedKnown
  <2>7. \A f \in F : live[f] = Absent \/ ~Kept(f)
    <3>1. F = RoomFiles(r) \cup {OutgoingFile(r)}
      BY <2>2, RoomFilesFacts
    <3>2. Deleting(r)
      BY <1>0, <2>1, <2>2, <3>1 DEF Deleting
    <3>3. left[r] \in LiveToken \cup response.to /\ \A f \in RoomFiles(r) : live[f] = Absent
      BY <3>2 DEF Flow, Deletions
    <3>4. left[r] # 0
      BY <3>3, MaxPosAssumption DEF Flow, Tokens, Types, Typed
    <3>. QED
      BY <3>1, <3>3, <3>4 DEF Kept
  <2>8. \A f \in Files : f \notin F => disk'[f] = disk[f]
    BY <2>1, <2>2, Moving DEF Types
  <2>9. Delivery'
    BY <1>0, <2>1, <2>5, <2>7, <2>8, SameDelivered DEF Delivery, Kept
  <2>. QED
    BY <2>5, <2>6, <2>9 DEF Flow
<1>2. ASSUME NEW g \in Files, SkipFile(g)
      PROVE  Flow'
  <2>1. /\ queue' = Without({g}) /\ cursor' = NoCursor /\ live[g] = Absent
        /\ UNCHANGED <<pos, left, phase, live, response, dirty, stateToCommit, toDelete, disk, backup>>
    BY <1>2 DEF SkipFile, QueueUnchanged, server, memory, files
  <2>2. PICK F \in SUBSET Files : F = {g}
    OBVIOUS
  <2>3. PICK c \in {0, 1} : Dealt(queue', queue, F, c)
    BY <1>0, <2>1, <2>2
  <2>4. /\ Unused' /\ Tokens' /\ Deletions' /\ StateListed' /\ Blocks' /\ Writing'
        /\ \A f : Listed(f)' = Listed(f)
        /\ \A f : f \notin F => (Queued(f)' <=> Queued(f))
        /\ \A f, x : LastHas(queue, f, x) => LastHas(queue', f, x)
    BY <1>0, <2>1, <2>3, DealtFlow
  <2>5. Delivery'
    BY <1>0, <2>1, <2>2, <2>4, SameDelivered DEF Delivery, Kept
  <2>. QED
    BY <2>1, <2>4, <2>5 DEF Flow, MetaKnown
<1>3. ASSUME NEW g \in Files, BackupFile(g)
      PROVE  Flow'
  <2>1. /\ MoveToBackup({g}) /\ g \in queue[1].todo /\ queue[1].op \in {"messages", "state", "metaData"}
        /\ cursor'.file = g /\ (queue[1].op = "state" => cursor'.content = queue[1].snapshot[g])
        /\ UNCHANGED <<pos, left, phase, live, response, dirty, stateToCommit, toDelete, queue>>
    BY <1>3 DEF BackupFile, QueueUnchanged, Running, Head1, server, memory
  <2>2. Tokens' /\ Deletions' /\ MetaKnown'
    BY <2>1, SameTokens, MovedKnown
  <2>3. Unused' /\ StateListed' /\ Blocks'
    BY <1>0, <2>1 DEF Flow, Unused, AtWork, Loaded, StateListed, Blocks
  <2>4. Writing'
    BY <1>0, <2>1 DEF Writing
  <2>5. /\ \A f \in Files : f # g => disk'[f] = disk[f]
        /\ \A f : Listed(f)' = Listed(f) /\ (Queued(f)' <=> Queued(f))
        /\ \A f : LastHas(queue, f, live[f]) => LastHas(queue', f, live[f])
        /\ Queued(g)
    BY <1>0, <2>1, Moving DEF Types, Listed, ListedIn, Queued, Has
  <2>6. Delivery'
    BY <1>0, <2>1, <2>5, SameDelivered DEF Delivery, Kept
  <2>. QED
    BY <2>2, <2>3, <2>4, <2>6 DEF Flow
<1>4. CASE LabelBackups
  <2>1. /\ cursor # NoCursor /\ cursor' = [cursor EXCEPT !.labelled = TRUE]
        /\ UNCHANGED <<pos, left, phase, live, response, dirty, stateToCommit, toDelete, queue, disk, backup>>
    BY <1>4 DEF LabelBackups, QueueUnchanged, server, memory, files
  <2>2. cursor'.file = cursor.file /\ cursor'.content = cursor.content
    BY <2>1 DEF Types, Typed, Cursor
  <2>3. Tokens' /\ Deletions' /\ MetaKnown'
    BY <2>1, SameTokens DEF Flow, MetaKnown
  <2>4. Unused' /\ StateListed' /\ Blocks'
    BY <1>0, <2>1 DEF Flow, Unused, AtWork, Loaded, StateListed, Blocks
  <2>5. Writing'
    BY <2>1, <2>2 DEF Flow, Writing
  <2>6. \A f : Listed(f)' = Listed(f) /\ (Queued(f)' <=> Queued(f))
    BY <2>1 DEF Listed, ListedIn, Queued, Has
  <2>7. Delivery'
    BY <1>0, <2>1, <2>6, SameDelivered DEF Delivery, Kept
  <2>. QED
    BY <2>3, <2>4, <2>5, <2>7 DEF Flow
<1>5. CASE WriteFile
  <2>1. /\ cursor.labelled /\ queue' = Without({cursor.file}) /\ cursor' = NoCursor
        /\ disk' = [disk EXCEPT ![cursor.file] = IF queue[1].op = "state" \/ live[cursor.file] = Absent
                                                 THEN cursor.content ELSE live[cursor.file]]
        /\ UNCHANGED <<pos, left, phase, live, response, dirty, stateToCommit, toDelete, backup>>
    BY <1>5 DEF WriteFile, QueueUnchanged, Running, Head1, server, memory
  <2>2. PICK g \in Files : g = cursor.file
    BY DEF Types, Typed, Cursor
  <2>3. /\ g \in queue[1].todo
        /\ queue[1].op = "state" => cursor.content = queue[1].snapshot[g]
    BY <2>1, <2>2 DEF Flow, Writing, NoCursor
  <2>4. /\ \A f \in Files : f # g => disk'[f] = disk[f]
        /\ live[g] # Absent => disk'[g] = IF queue[1].op = "state" THEN queue[1].snapshot[g] ELSE live[g]
    BY <2>1, <2>2, <2>3 DEF Types, Typed, Store, Folder
  <2>5. PICK F \in SUBSET Files : F = {g}
    OBVIOUS
  <2>6. PICK c \in {0, 1} : Dealt(queue', queue, F, c)
    BY <1>0, <2>1, <2>2, <2>5
  <2>7. /\ Unused' /\ Tokens' /\ Deletions' /\ StateListed' /\ Blocks' /\ Writing'
        /\ \A f : Listed(f)' = Listed(f)
        /\ \A f : f \notin F => (Queued(f)' <=> Queued(f))
        /\ \A f, x : LastHas(queue, f, x) => LastHas(queue', f, x)
        /\ \A f \in F : f \in queue[1].todo /\ ~Queued(f)' =>
             \A j \in DOMAIN queue : j > 1 => f \notin queue[j].todo
    BY <1>0, <2>1, <2>6, DealtFlow
  <2>8. MetaKnown'
    <3>1. MetaFile \in Files /\ live[MetaFile] # Absent
      BY <1>0, FilesFacts DEF Flow, Unused
    <3>2. disk'[MetaFile] = disk[MetaFile] \/ disk'[MetaFile] = live[MetaFile]
      BY <1>0, <2>3, <2>4, <3>1 DEF Flow, Blocks
    <3>3. Stored(live[MetaFile]) \subseteq 1..pos
      BY <3>1 DEF Flow, Tokens, LiveToken, Stored
    <3>. QED
      BY <2>1, <3>2, <3>3 DEF Flow, MetaKnown
  <2>9. ASSUME live[g] # Absent, Kept(g)
        PROVE  Delivered(g)'
    <3>1. Queued(g) /\ Delivered(g)
      BY <1>0, <2>3, <2>9 DEF Queued, Has
    <3>2. CASE Listed(g)
      BY <2>7, <3>2 DEF Delivered
    <3>3. CASE LastHas(queue, g, live[g]) /\ Queued(g)'
      BY <2>1, <2>7, <3>3 DEF Delivered
    <3>4. CASE LastHas(queue, g, live[g]) /\ ~Queued(g)'
      <4>1. \A j \in DOMAIN queue : j > 1 => g \notin queue[j].todo
        BY <2>3, <2>5, <2>7, <3>4
      <4>2. queue[1].op = "state" => queue[1].snapshot[g] = live[g]
        BY <1>0, <2>3, <3>4, <4>1 DEF LastHas
      <4>3. disk'[g] = live[g]
        BY <2>4, <2>9, <4>2
      <4>. QED
        BY <2>1, <3>4, <4>3 DEF Delivered
    <3>. QED
      BY <3>1, <3>2, <3>3, <3>4 DEF Delivered
  <2>10. Delivery'
    BY <1>0, <2>1, <2>4, <2>5, <2>7, <2>9, SameDelivered DEF Delivery, Kept
  <2>. QED
    BY <2>7, <2>8, <2>10 DEF Flow
<1>6. CASE RemoveBackup
  <2>1. /\ queue[1].op \in Ends
        /\ UNCHANGED <<pos, left, phase, live, response, dirty, stateToCommit, toDelete, cursor, disk>>
        /\ \/ queue' = Tail(queue) /\ backup' = backup
           \/ queue' = queue /\ \E t \in Token, f \in Files : backup' = [backup EXCEPT ![t][f] = Absent]
    BY <1>6 DEF RemoveBackup, Running, Head1, QueueUnchanged, server, memory, Ends, BackupTokens
  <2>2. CASE queue' = queue /\ \E t \in Token, f \in Files : backup' = [backup EXCEPT ![t][f] = Absent]
    BY <2>1, <2>2, ShrinkFlow
  <2>3. CASE queue' = Tail(queue) /\ backup' = backup
    <3>1. PICK F \in SUBSET Files : F = {}
      OBVIOUS
    <3>2. queue[1].todo = F
      BY <1>0, <2>1, <3>1 DEF Flow, Blocks
    <3>3. queue' = Without(F)
      BY <2>3, <3>2 DEF Without, Head1
    <3>4. PICK c \in {0, 1} : Dealt(queue', queue, F, c)
      BY <1>0, <3>3
    <3>5. cursor' = NoCursor
      BY <2>1 DEF Flow, Writing, Ends
    <3>6. /\ Unused' /\ Tokens' /\ Deletions' /\ StateListed' /\ Blocks' /\ Writing'
          /\ \A f : Listed(f)' = Listed(f)
          /\ \A f : f \notin F => (Queued(f)' <=> Queued(f))
          /\ \A f, x : LastHas(queue, f, x) => LastHas(queue', f, x)
      BY <1>0, <2>1, <3>4, <3>5, DealtFlow
    <3>7. Delivery'
      BY <1>0, <2>1, <3>1, <3>6, SameDelivered DEF Delivery, Kept
    <3>. QED
      BY <2>1, <2>3, <3>6, <3>7 DEF Flow, MetaKnown
  <2>. QED
    BY <2>1, <2>2, <2>3
<1>. QED
  BY <1>1, <1>2, <1>3, <1>4, <1>5, <1>6 DEF QueueStep

LEMMA FlowKept == Types /\ Types' /\ Flow /\ [Next]_vars => Flow'
<1> SUFFICES ASSUME Types, Types', Flow, [Next]_vars PROVE Flow'
  OBVIOUS
<1>1. CASE UNCHANGED vars
  <2>1. UNCHANGED <<pos, left, phase, live, response, dirty, stateToCommit, toDelete, queue, cursor, disk, backup>>
    BY <1>1 DEF vars, server, memory, files
  <2>2. Unused' /\ StateListed' /\ Blocks' /\ Writing' /\ Delivery' /\ Tokens' /\ Deletions'
    BY <2>1, SameFlow, SameTokens DEF AtWork, Flow, Unused
  <2>. QED
    BY <2>1, <2>2 DEF Flow, MetaKnown
<1>2. CASE Handling
  BY <1>2, StoreRoomFlow, DeleteRoomFlow, StoreOutgoingFlow, SetTokenFlow DEF Handling
<1>. QED
  BY <1>1, <1>2, ServerFlow, OpeningFlow, ReceiveFlow, CommitFlow, QueueFlow DEF Next

\* The files are the live data once the queue has run and nothing is listed: no change is
\* dropped on the way, whatever is stored while commits run, are ignored or are flushed.
THEOREM FilesAreLiveAtRest == Spec => []DurableAtRest
<1>1. Init => Types /\ Flow
  BY InitTyped, InitFlow
<1>2. Types /\ Flow /\ [Next]_vars => (Types /\ Flow)'
  BY TypesKept, FlowKept
<1>3. Types /\ Flow => DurableAtRest
  <2> SUFFICES ASSUME Flow, phase = "up", queue = <<>>, dirty = {}, toDelete = {}, stateToCommit = EmptyFolder,
                      NEW f \in Files, live[f] # Absent, Kept(f)
               PROVE  disk[f] = live[f]
    BY DEF DurableAtRest
  <2>1. ~Listed(f) /\ ~Queued(f)
    BY EmptyFolderFacts DEF Listed, ListedIn, Queued, Has
  <2>. QED
    BY <2>1 DEF Flow, Delivery, Delivered, Loaded
<1>. QED
  BY <1>1, <1>2, <1>3, PTL DEF Spec

(***************************************************************************)
(* The commit, when nothing is stored while one runs.                      *)
(***************************************************************************)
BeingWritten(f) == cursor # NoCursor /\ cursor.file = f
NoBackup == \A t \in Token : \A f \in Files : backup[t][f] = Absent

\* Only an open store lists and queues.
Forgotten ==
  /\ ~AtWork => /\ response = Idle /\ dirty = {} /\ stateToCommit = EmptyFolder /\ toDelete = {}
                /\ queue = <<>> /\ cursor = NoCursor /\ pendingCommits = 0
  /\ ~Loaded => live = EmptyFolder /\ backupToken = NilToken

\* What has to be done for a file is what the live data say.  The block that deletes a room
\* takes the outgoing messages away, whatever is to be written of them afterwards.
Kind(f) == IF f[1] = "state" THEN "state" ELSE "messages"
OpFor(f) == IF f = MetaFile THEN "metaData" ELSE IF live[f] = Absent THEN "delete" ELSE Kind(f)
Fitting(op, f) == op = OpFor(f) \/ (op = "delete" /\ f \in Outgoing)
InDelete(f) == \E i \in DOMAIN queue : queue[i].op = "delete" /\ f \in queue[i].todo

ListsFit ==
  /\ Loaded => live[MetaFile] # Absent
  /\ \A f \in dirty : OpFor(f) \in {"messages", "metaData"}
  /\ \A f \in Files : stateToCommit[f] # Absent => OpFor(f) = "state" /\ stateToCommit[f] = live[f]
  /\ \A f \in Files : ListedIn(f) => Fitting("delete", f) /\ backupToken # NilToken
  /\ \A f \in Files : Listed(f) => queue = <<>>
  /\ MetaFile \in dirty => response.commit /\ pendingCommits = 0

\* No room is both read and left.
Answered ==
  /\ \A r \in response.joined : left[r] \notin LiveToken \cup response.to
  /\ \A r \in response.left : left[r] \in response.to /\ backupToken # NilToken
  /\ \A r \in toDelete : left[r] \in LiveToken \cup response.to
  /\ response.to = NilToken => response.joined = {} /\ response.left = {}
  /\ LiveToken = NilToken /\ response.to = NilToken =>
       \A f \in Files : f # MetaFile => live[f] = Absent

QueueFits ==
  /\ \A i \in DOMAIN queue : \A f \in queue[i].todo :
       Fitting(queue[i].op, f) /\ (queue[i].op = "state" => queue[i].snapshot[f] = live[f])
  /\ \A i \in DOMAIN queue : queue[i].op = "delete" => backupToken # NilToken
  /\ \A i \in DOMAIN queue : queue[i].op \in Ends => queue[i].todo = {}
  /\ InOrder(queue)

\* The queue ends with an end block, but for the block that deleteAllData queues.
Closes ==
  queue # <<>> /\ queue[Len(queue)].op \notin Ends =>
    Len(queue) = 1 /\ queue[1].op = "metaData" /\ NoBackup /\ disk[MetaFile] = Absent

CursorFits ==
  cursor # NoCursor =>
    /\ queue # <<>> /\ cursor.file \in queue[1].todo
    /\ queue[1].op \in {"messages", "state", "metaData"}
    /\ cursor.content = live[cursor.file]
    /\ queue[1].op # "metaData" => cursor.labelled
    /\ queue[1].op = "metaData" /\ cursor.labelled => backupToken = LiveToken
    /\ disk[cursor.file] = Absent \/ Stored(disk[MetaFile]) = NilToken

\* Backups are named after the token of the files, until the new one is written.
Named == Loaded => BeingWritten(MetaFile) \/ Stored(disk[MetaFile]) = backupToken

Relabelled ==
  \/ BeingWritten(MetaFile) /\ cursor.labelled
  \/ queue # <<>> /\ queue[1].op \in Ends
BackedUp ==
  /\ AtWork /\ queue = <<>> => NoBackup
  /\ \A f \in Files : InDelete(f) => \A t \in Token : backup[t][f] = Absent
  /\ \A f \in Files : Queued(f) /\ ~BeingWritten(f) =>
       (\A t \in Token : backup[t][f] = Absent) \/ (f \in Outgoing /\ disk[f] = Absent)
  /\ Loaded /\ ~Relabelled =>
       \A t \in Token \ {backupToken} : \A f \in Files : backup[t][f] = Absent

\* What is neither listed nor queued is on the disk.
Rest == Loaded => \A f \in Files \ Outgoing : Listed(f) \/ Queued(f) \/ disk[f] = live[f]

TokensKnown ==
  /\ Stored(disk[MetaFile]) \subseteq 1..pos
  /\ \A t \in Token : Stored(backup[t][MetaFile]) \subseteq 1..pos
  /\ \A t \in BackupTokens : t \subseteq 1..pos
  /\ Loaded => /\ backupToken \subseteq LiveToken /\ Stored(disk[MetaFile]) \subseteq LiveToken
               /\ \A t \in BackupTokens : t \subseteq LiveToken

Structure ==
  /\ Forgotten /\ ListsFit /\ Tokens /\ Answered /\ QueueFits /\ Closes /\ CursorFits
  /\ Named /\ BackedUp /\ Rest /\ TokensKnown

LEMMA InitStructure == Init => Structure
<1> SUFFICES ASSUME Init PROVE Structure
  OBVIOUS
<1>. USE DEF Init
<1>1. Forgotten
  BY DEF Forgotten, Loaded
<1>2. ListsFit
  BY EmptyFolderFacts DEF ListsFit, Loaded, ListedIn
<1>3. LiveToken = NilToken /\ BackupTokens = {} /\ Stored(disk[MetaFile]) = NilToken
  BY EmptyFolderFacts, FilesFacts, TokenFacts DEF LiveToken, BackupTokens
<1>4. Tokens /\ Answered
  BY <1>3, EmptyFolderFacts, IdleFacts DEF Tokens, Answered, NilToken
<1>5. QueueFits /\ Closes /\ CursorFits
  BY DEF QueueFits, Closes, CursorFits, InOrder
<1>6. Named /\ BackedUp /\ Rest
  BY DEF Named, BackedUp, Rest, Loaded, AtWork, Queued, Has, InDelete
<1>7. TokensKnown
  BY <1>3, EmptyFolderFacts, FilesFacts, TokenFacts DEF TokensKnown, Loaded, NilToken
<1>. QED
  BY <1>1, <1>2, <1>4, <1>5, <1>6, <1>7 DEF Structure

\* The parts that are not about what the homeserver has.
LEMMA SameCommit ==
  ASSUME Structure,
         UNCHANGED <<live, response, dirty, stateToCommit, toDelete, pendingCommits, queue, cursor,
                     backupToken, disk, backup>>,
         phase' = phase \/ (phase \in {"down", "opening"} /\ phase' \in {"opening", "wiping"})
  PROVE  Forgotten' /\ ListsFit' /\ QueueFits' /\ Closes' /\ CursorFits' /\ Named' /\ BackedUp' /\ Rest'
<1>1. /\ LiveToken' = LiveToken /\ Loaded' = Loaded /\ AtWork' = AtWork /\ NoBackup' = NoBackup
      /\ Relabelled' = Relabelled
      /\ \A f : OpFor(f)' = OpFor(f) /\ Listed(f)' = Listed(f) /\ ListedIn(f)' = ListedIn(f)
      /\ \A f : Queued(f)' = Queued(f) /\ BeingWritten(f)' = BeingWritten(f) /\ InDelete(f)' = InDelete(f)
      /\ \A op, f : Fitting(op, f)' = Fitting(op, f)
  BY DEF LiveToken, Loaded, AtWork, NoBackup, Relabelled, OpFor, Fitting, Listed, ListedIn, Queued, BeingWritten,
         Has, InDelete
<1>2. Forgotten' /\ ListsFit'
  BY <1>1 DEF Structure, Forgotten, ListsFit
<1>3. QueueFits' /\ Closes' /\ CursorFits'
  BY <1>1 DEF Structure, QueueFits, Closes, CursorFits, InOrder
<1>4. Named' /\ BackedUp' /\ Rest'
  BY <1>1 DEF Structure, Named, BackedUp, Rest
<1>. QED
  BY <1>2, <1>3, <1>4

LEMMA ServerStructure ==
  ASSUME Types, Structure, NEW r \in Rooms, ServerEvent(r) \/ ServerLeave(r)
  PROVE  Structure'
<1>1. /\ UNCHANGED <<phase, live, response, dirty, stateToCommit, toDelete, pendingCommits, queue, cursor,
                     backupToken, disk, backup>>
      /\ pos' = pos + 1 /\ pos \in Nat
      /\ left' = left \/ left' = [left EXCEPT ![r] = pos + 1]
  BY MaxPosAssumption DEF ServerEvent, ServerLeave, memory, files, commits, Types, Typed
<1>2. Forgotten' /\ ListsFit' /\ QueueFits' /\ Closes' /\ CursorFits' /\ Named' /\ BackedUp' /\ Rest'
  BY <1>1, SameCommit
<1>3. 1..pos \subseteq 1..pos' /\ pos + 1 \notin 1..pos /\ pos + 1 <= pos'
  BY <1>1
<1>4. LiveToken' = LiveToken /\ Loaded' = Loaded /\ BackupTokens' = BackupTokens
  BY <1>1 DEF LiveToken, Loaded, BackupTokens
<1>5. \A s \in Rooms : left'[s] = left[s] \/ left'[s] = pos + 1
  BY <1>1 DEF Types, Typed
<1>6. Tokens'
  <2>1. \A s \in Rooms : left'[s] <= pos'
    <3>1. \A s \in Rooms : left[s] \in Nat /\ left[s] <= pos
      BY MaxPosAssumption DEF Types, Typed, Structure, Tokens
    <3>. QED
      BY <1>1, <1>5, <3>1
  <2>. QED
    BY <1>1, <1>3, <1>4, <2>1 DEF Structure, Tokens
<1>7. Answered'
  <2>1. LiveToken \cup response.to \subseteq 1..pos
    BY DEF Structure, Tokens
  <2>2. \A s \in response.left \cup toDelete : s \in Rooms /\ left'[s] = left[s]
    <3>1. \A s \in response.left \cup toDelete : s \in Rooms /\ left[s] \in 1..pos
      BY <2>1 DEF Structure, Answered, Types, Typed, Response
    <3>2. ASSUME NEW s \in response.left \cup toDelete, left'[s] # left[s]
          PROVE  FALSE
      <4>1. s = r /\ left[r] = 0
        BY <1>1, <3>1, <3>2 DEF ServerEvent, ServerLeave, Types, Typed
      <4>. QED
        BY <1>1, <3>1, <4>1
    <3>. QED
      BY <3>1, <3>2
  <2>3. \A s \in response.joined : s \in Rooms
    BY DEF Types, Typed, Response
  <2>. QED
    BY <1>1, <1>3, <1>4, <1>5, <2>1, <2>2, <2>3 DEF Structure, Answered
<1>8. TokensKnown'
  BY <1>1, <1>3, <1>4 DEF Structure, TokensKnown
<1>. QED
  BY <1>2, <1>6, <1>7, <1>8 DEF Structure

LEMMA BackupTokensFacts ==
  ASSUME Typed
  PROVE  /\ \A t \in Token : t \in BackupTokens <=> \E f \in Files : backup[t][f] # Absent
         /\ BackupTokens = {} <=> NoBackup
         /\ \A t \in BackupTokens : t \in Token
<1>1. ASSUME NEW t \in Token
      PROVE  backup[t] = EmptyFolder <=> \A f \in Files : backup[t][f] = Absent
  <2>1. backup[t] \in [Files -> Content]
    BY DEF Typed, Folder
  <2>. QED
    BY <2>1 DEF EmptyFolder
<1>2. \A t \in Token : t \in BackupTokens <=> \E f \in Files : backup[t][f] # Absent
  BY <1>1 DEF BackupTokens
<1>. QED
  BY <1>2 DEF BackupTokens, NoBackup

\* An empty queue.
LEMMA NothingQueued ==
  ASSUME queue' = <<>>, cursor' = NoCursor
  PROVE  /\ QueueFits' /\ Closes' /\ CursorFits' /\ ~Relabelled'
         /\ \A f : ~Queued(f)' /\ ~BeingWritten(f)' /\ ~InDelete(f)'
<1>1. DOMAIN queue' = {}
  OBVIOUS
<1>. QED
  BY <1>1 DEF QueueFits, Closes, CursorFits, Queued, BeingWritten, Relabelled, Has, InOrder, InDelete

LEMMA NothingListed ==
  ASSUME dirty' = {}, stateToCommit' = EmptyFolder, toDelete' = {}, Loaded' => live'[MetaFile] # Absent
  PROVE  ListsFit' /\ \A f \in Files : ~Listed(f)'
<1>1. \A f \in Files : ~Listed(f)' /\ ~ListedIn(f)'
  BY EmptyFolderFacts DEF Listed, ListedIn
<1>. QED
  BY <1>1, EmptyFolderFacts DEF ListsFit

LEMMA ForgetStructure ==
  ASSUME Types, Structure, ForgetMemory, UNCHANGED <<server, files>>, phase' = "down"
  PROVE  Structure'
<1>1. /\ live' = EmptyFolder /\ response' = Idle /\ dirty' = {} /\ stateToCommit' = EmptyFolder
      /\ toDelete' = {} /\ pendingCommits' = 0 /\ queue' = <<>> /\ cursor' = NoCursor /\ backupToken' = NilToken
      /\ UNCHANGED <<pos, left, disk, backup>> /\ phase' = "down"
  BY DEF ForgetMemory, server, files
<1>2. ~Loaded' /\ ~AtWork'
  BY <1>1 DEF Loaded, AtWork
<1>3. LiveToken' = NilToken /\ BackupTokens' = BackupTokens
  BY <1>1, EmptyFolderFacts, FilesFacts DEF LiveToken, BackupTokens
<1>4. Forgotten' /\ ListsFit'
  BY <1>1, <1>2, NothingListed DEF Forgotten
<1>5. Tokens' /\ Answered'
  BY <1>1, <1>3, EmptyFolderFacts, IdleFacts DEF Structure, Tokens, Answered, NilToken
<1>6. QueueFits' /\ Closes' /\ CursorFits' /\ Named' /\ BackedUp' /\ Rest'
  BY <1>1, <1>2, NothingQueued DEF Named, BackedUp, Rest
<1>7. TokensKnown'
  BY <1>1, <1>2, <1>3 DEF Structure, TokensKnown
<1>. QED
  BY <1>4, <1>5, <1>6, <1>7 DEF Structure

\* A file of a backup is removed.
LEMMA BackupShrinks ==
  ASSUME Types, Types', Structure, NEW t \in Token, NEW f \in Files, backup' = [backup EXCEPT ![t][f] = Absent],
         UNCHANGED <<pos, left, phase, live, response, dirty, stateToCommit, toDelete, pendingCommits, queue,
                     cursor, backupToken, disk>>
  PROVE  Structure'
<1>1. \A u \in Token, g \in Files : backup'[u][g] = backup[u][g] \/ backup'[u][g] = Absent
  BY BackupExcept DEF Types
<1>2. /\ LiveToken' = LiveToken /\ Loaded' = Loaded /\ AtWork' = AtWork /\ (NoBackup => NoBackup')
      /\ Relabelled' = Relabelled /\ BackupTokens' \subseteq BackupTokens
      /\ \A g : OpFor(g)' = OpFor(g) /\ Listed(g)' = Listed(g) /\ ListedIn(g)' = ListedIn(g)
      /\ \A g : Queued(g)' = Queued(g) /\ BeingWritten(g)' = BeingWritten(g) /\ InDelete(g)' = InDelete(g)
      /\ \A op, g : Fitting(op, g)' = Fitting(op, g)
  <2>1. \A u \in Token : u \in BackupTokens' <=> \E g \in Files : backup'[u][g] # Absent
    BY BackupTokensFacts DEF Types, BackupTokens, EmptyFolder, Typed, Folder
  <2>2. \A u \in Token : u \in BackupTokens <=> \E g \in Files : backup[u][g] # Absent
    BY BackupTokensFacts DEF Types
  <2>3. BackupTokens' \subseteq BackupTokens
    BY <1>1, <2>1, <2>2 DEF BackupTokens
  <2>. QED
    BY <1>1, <2>3 DEF LiveToken, Loaded, AtWork, NoBackup, Relabelled, OpFor, Fitting, Listed, ListedIn,
                      Queued, BeingWritten, Has, InDelete
<1>3. Forgotten' /\ ListsFit'
  BY <1>2 DEF Structure, Forgotten, ListsFit
<1>4. QueueFits' /\ Closes' /\ CursorFits'
  BY <1>2 DEF Structure, QueueFits, Closes, CursorFits, InOrder
<1>5. Named' /\ BackedUp' /\ Rest'
  BY <1>1, <1>2 DEF Structure, Named, BackedUp, Rest
<1>6. Tokens' /\ Answered'
  BY <1>2 DEF Structure, Tokens, Answered
<1>7. TokensKnown'
  <2>1. \A u \in Token : Stored(backup'[u][MetaFile]) \subseteq 1..pos
    BY <1>1, FilesFacts, TokenFacts DEF Structure, TokensKnown, NilToken
  <2>. QED
    BY <1>2, <2>1 DEF Structure, TokensKnown
<1>. QED
  BY <1>3, <1>4, <1>5, <1>6, <1>7 DEF Structure

LEMMA OpeningStructure ==
  ASSUME Types, Types', Structure, Open \/ Opening
  PROVE  Structure'
<1>1. CASE Open \/ StartWipe
  <2>1. /\ phase \in {"down", "opening"} /\ phase' \in {"opening", "wiping"}
        /\ UNCHANGED <<server, memory, commits, queue, cursor, backupToken, files>>
    BY <1>1 DEF Open, StartWipe
  <2>2. UNCHANGED <<pos, left, live, response, dirty, stateToCommit, toDelete, pendingCommits, queue, cursor,
                    backupToken, disk, backup>>
    BY <2>1 DEF server, memory, commits, files
  <2>3. Forgotten' /\ ListsFit' /\ QueueFits' /\ Closes' /\ CursorFits' /\ Named' /\ BackedUp' /\ Rest'
    BY <2>1, <2>2, SameCommit
  <2>4. LiveToken' = LiveToken /\ Loaded' = Loaded /\ BackupTokens' = BackupTokens
    BY <2>1, <2>2 DEF LiveToken, Loaded, BackupTokens
  <2>5. Tokens' /\ Answered' /\ TokensKnown'
    BY <2>2, <2>4 DEF Structure, Tokens, Answered, TokensKnown
  <2>. QED
    BY <2>3, <2>5 DEF Structure
<1>2. ASSUME NEW f \in Files, RestoreFile(f)
      PROVE  Structure'
  <2>1. PICK t \in Token : disk' = [disk EXCEPT ![f] = backup[t][f]]
    BY <1>2 DEF RestoreFile
  <2>2. /\ phase = "opening" /\ phase' = phase
        /\ UNCHANGED <<pos, left, live, response, dirty, stateToCommit, toDelete, pendingCommits, queue, cursor,
                       backupToken, backup>>
    BY <1>2 DEF RestoreFile, server, memory, commits
  <2>3. ~Loaded /\ ~Loaded' /\ ~AtWork' /\ ~AtWork /\ LiveToken' = LiveToken /\ BackupTokens' = BackupTokens
    BY <2>2 DEF Loaded, AtWork, LiveToken, BackupTokens
  <2>4. /\ response' = Idle /\ dirty' = {} /\ stateToCommit' = EmptyFolder /\ toDelete' = {}
        /\ queue' = <<>> /\ cursor' = NoCursor /\ pendingCommits' = 0 /\ live' = EmptyFolder /\ backupToken' = NilToken
    BY <2>2, <2>3 DEF Structure, Forgotten
  <2>5. Forgotten' /\ ListsFit' /\ QueueFits' /\ Closes' /\ CursorFits' /\ Named' /\ BackedUp' /\ Rest'
    BY <2>3, <2>4, NothingListed, NothingQueued DEF Forgotten, Named, BackedUp, Rest
  <2>6. Tokens' /\ Answered'
    BY <2>2, <2>3 DEF Structure, Tokens, Answered
  <2>7. disk'[MetaFile] = disk[MetaFile] \/ disk'[MetaFile] = backup[t][MetaFile]
    BY <2>1, FilesFacts DEF Types, Typed, Store, Folder
  <2>8. TokensKnown'
    BY <2>2, <2>3, <2>7 DEF Structure, TokensKnown
  <2>. QED
    BY <2>5, <2>6, <2>8 DEF Structure
<1>3. CASE LoadAfterRestore \/ LoadIntact
  <2>1. /\ phase = "opening" /\ live' = disk /\ backupToken' = disk[MetaFile] /\ Stored(disk[MetaFile]) # NilToken
        /\ UNCHANGED <<pos, left, response, dirty, stateToCommit, toDelete, pendingCommits, queue, cursor,
                       disk, backup>>
    BY <1>3 DEF LoadAfterRestore, LoadIntact, LoadMetaData, server, commits, files
  <2>2. \/ phase' = "repaired" /\ \E t \in Token : BackupTokens = {t} /\ disk[MetaFile] = t
        \/ phase' = "up" /\ BackupTokens = {}
    BY <1>3 DEF LoadAfterRestore, LoadIntact
  <2>3. ~Loaded /\ Loaded' /\ ~AtWork /\ (AtWork' => BackupTokens = {})
    BY <2>1, <2>2 DEF Loaded, AtWork
  <2>4. /\ response' = Idle /\ dirty' = {} /\ stateToCommit' = EmptyFolder /\ toDelete' = {}
        /\ queue' = <<>> /\ cursor' = NoCursor /\ pendingCommits' = 0
    BY <2>1, <2>3 DEF Structure, Forgotten
  <2>5. disk[MetaFile] \in Token /\ Stored(disk[MetaFile]) = disk[MetaFile] /\ disk[MetaFile] # Absent
    BY <2>1, TokenFacts DEF Types, Typed, Store, TokenIn
  <2>6. LiveToken' = disk[MetaFile] /\ backupToken' = disk[MetaFile] /\ live'[MetaFile] # Absent
        /\ LiveToken' # NilToken /\ BackupTokens' = BackupTokens
    BY <2>1, <2>5 DEF LiveToken, BackupTokens
  <2>7. /\ ListsFit' /\ QueueFits' /\ Closes' /\ CursorFits' /\ ~Relabelled'
        /\ \A f \in Files : ~Queued(f)' /\ ~BeingWritten(f)' /\ ~Listed(f)' /\ ~InDelete(f)'
    BY <2>4, <2>6, NothingListed, NothingQueued
  <2>8. Forgotten' /\ Named' /\ Rest'
    BY <2>1, <2>3, <2>4, <2>5, <2>6, <2>7 DEF Forgotten, Named, Rest
  <2>9. \A t \in Token \ {backupToken'} : \A f \in Files : backup[t][f] = Absent
    BY <2>2, <2>6, BackupTokensFacts DEF Types
  <2>10. BackedUp'
    <3>1. BackupTokens = {} => NoBackup
      BY BackupTokensFacts DEF Types
    <3>. QED
      BY <2>1, <2>3, <2>7, <2>9, <3>1 DEF BackedUp, NoBackup
  <2>11. Tokens' /\ Answered'
    BY <2>1, <2>4, <2>5, <2>6, IdleFacts DEF Structure, Tokens, TokensKnown, Answered, NilToken
  <2>12. TokensKnown'
    <3>1. \A t \in BackupTokens : t \subseteq disk[MetaFile]
      BY <2>2
    <3>. QED
      BY <2>1, <2>5, <2>6, <3>1 DEF Structure, TokensKnown
  <2>. QED
    BY <2>7, <2>8, <2>10, <2>11, <2>12 DEF Structure
<1>4. CASE RemoveRestoredBackup
  <2>1. /\ UNCHANGED <<pos, left, live, response, dirty, stateToCommit, toDelete, pendingCommits, queue, cursor,
                       backupToken, disk>>
        /\ phase = "repaired"
        /\ \/ phase' = "up" /\ backup' = backup /\ BackupTokens = {}
           \/ /\ phase' = phase
              /\ \E t \in Token, f \in Files : backup' = [backup EXCEPT ![t][f] = Absent]
    BY <1>4 DEF RemoveRestoredBackup, BackupTokens, server, memory, commits
  <2>2. CASE phase' = phase /\ \E t \in Token, f \in Files : backup' = [backup EXCEPT ![t][f] = Absent]
    BY <2>1, <2>2, BackupShrinks
  <2>3. CASE phase' = "up" /\ backup' = backup /\ BackupTokens = {}
    <3>1. /\ LiveToken' = LiveToken /\ Loaded' /\ Loaded /\ ~AtWork /\ NoBackup' /\ BackupTokens' = BackupTokens
      BY <2>1, <2>3, BackupTokensFacts DEF LiveToken, Loaded, AtWork, NoBackup, BackupTokens, Types
    <3>2. /\ response' = Idle /\ dirty' = {} /\ stateToCommit' = EmptyFolder /\ toDelete' = {}
          /\ queue' = <<>> /\ cursor' = NoCursor /\ pendingCommits' = 0
          /\ queue = <<>> /\ cursor = NoCursor /\ dirty = {} /\ stateToCommit = EmptyFolder /\ toDelete = {}
      BY <2>1, <3>1 DEF Structure, Forgotten
    <3>3. /\ ListsFit' /\ QueueFits' /\ Closes' /\ CursorFits' /\ ~Relabelled'
          /\ \A f \in Files : ~Queued(f)' /\ ~BeingWritten(f)' /\ ~Listed(f)' /\ ~InDelete(f)'
      BY <2>1, <3>1, <3>2, NothingListed, NothingQueued DEF Structure, ListsFit
    <3>4. \A f \in Files : ~Queued(f) /\ ~BeingWritten(f) /\ ~Listed(f)
      BY <3>2, EmptyFolderFacts DEF Queued, BeingWritten, Has, Listed, ListedIn
    <3>5. Forgotten' /\ Named' /\ Rest' /\ BackedUp'
      BY <2>1, <2>3, <3>1, <3>2, <3>3, <3>4, FilesFacts DEF Structure, Forgotten, Named, Rest, BackedUp, NoBackup
    <3>6. Tokens' /\ Answered' /\ TokensKnown'
      BY <2>1, <2>3, <3>1 DEF Structure, Tokens, Answered, TokensKnown
    <3>. QED
      BY <3>3, <3>5, <3>6 DEF Structure
  <2>. QED
    BY <2>1, <2>2, <2>3
<1>5. CASE Wipe
  <2>1. /\ UNCHANGED <<pos, left, response, dirty, stateToCommit, toDelete, pendingCommits, cursor>> /\ phase = "wiping"
    BY <1>5 DEF Wipe, server, commits
  <2>2. ~Loaded /\ ~AtWork
    BY <2>1 DEF Loaded, AtWork
  <2>3. /\ response' = Idle /\ dirty' = {} /\ stateToCommit' = EmptyFolder /\ toDelete' = {}
        /\ queue = <<>> /\ cursor' = NoCursor /\ pendingCommits' = 0 /\ live = EmptyFolder /\ backupToken = NilToken
    BY <2>1, <2>2 DEF Structure, Forgotten
  <2>4. ASSUME NEW f \in Files, disk' = [disk EXCEPT ![f] = Absent],
               UNCHANGED <<backup, phase, live, queue, backupToken>>
        PROVE  Structure'
    <3>1. ~Loaded' /\ ~AtWork' /\ LiveToken' = LiveToken /\ BackupTokens' = BackupTokens
      BY <2>1, <2>4 DEF Loaded, AtWork, LiveToken, BackupTokens
    <3>2. Forgotten' /\ ListsFit' /\ QueueFits' /\ Closes' /\ CursorFits' /\ Named' /\ BackedUp' /\ Rest'
      BY <2>3, <2>4, <3>1, NothingListed, NothingQueued DEF Forgotten, Named, BackedUp, Rest
    <3>3. Tokens' /\ Answered'
      BY <2>1, <2>4, <3>1 DEF Structure, Tokens, Answered
    <3>4. disk'[MetaFile] = disk[MetaFile] \/ disk'[MetaFile] = Absent
      BY <2>4, FilesFacts DEF Types, Typed, Store, Folder
    <3>5. TokensKnown'
      BY <2>1, <2>4, <3>1, <3>4, TokenFacts DEF Structure, TokensKnown, NilToken
    <3>. QED
      BY <3>2, <3>3, <3>5 DEF Structure
  <2>5. ASSUME NEW t \in BackupTokens, NEW f \in Files, backup' = [backup EXCEPT ![t][f] = Absent],
               UNCHANGED <<disk, phase, live, queue, backupToken>>
        PROVE  Structure'
    BY <2>1, <2>5, BackupShrinks DEF BackupTokens
  <2>6. ASSUME live' = [EmptyFolder EXCEPT ![MetaFile] = NilToken],
               queue' = <<[op |-> "metaData", todo |-> {MetaFile}, snapshot |-> EmptyFolder]>>,
               backupToken' = NilToken, phase' = "up", UNCHANGED files, disk = EmptyFolder, BackupTokens = {}
        PROVE  Structure'
    <3>1. PICK b : b = [op |-> "metaData", todo |-> {MetaFile}, snapshot |-> EmptyFolder]
      OBVIOUS
    <3>2. queue' = <<b>> /\ b.op = "metaData" /\ b.todo = {MetaFile}
      BY <2>6, <3>1
    <3>3. queue' # <<>> /\ DOMAIN queue' = {1} /\ Len(queue') = 1 /\ queue'[1] = b
      BY <3>2
    <3>4. live'[MetaFile] = NilToken /\ \A f \in Files : f # MetaFile => live'[f] = Absent
      BY <2>6, EmptyFolderFacts, FilesFacts DEF Folder
    <3>5. /\ LiveToken' = NilToken /\ Loaded' /\ AtWork' /\ NoBackup' /\ BackupTokens' = {}
          /\ \A f \in Files : disk'[f] = Absent
      BY <2>6, <3>4, TokenFacts, EmptyFolderFacts, BackupTokensFacts
         DEF LiveToken, Loaded, AtWork, NoBackup, BackupTokens, Types, files
    <3>6. Forgotten' /\ ListsFit'
      BY <2>3, <3>4, <3>5, NothingListed, TokenFacts DEF Forgotten
    <3>7. \A f \in Files : (Queued(f)' <=> f = MetaFile) /\ ~BeingWritten(f)'
      BY <2>3, <3>2, <3>3 DEF Queued, Has, BeingWritten
    <3>8. QueueFits' /\ Closes' /\ CursorFits'
      BY <2>3, <3>2, <3>3, <3>5, FilesFacts DEF QueueFits, Closes, CursorFits, InOrder, Fitting, OpFor, Ends
    <3>9. Named' /\ Rest'
      BY <2>6, <3>4, <3>5, <3>7, FilesFacts, TokenFacts DEF Named, Rest
    <3>10. BackedUp'
      BY <3>3, <3>5, <3>7 DEF BackedUp, NoBackup
    <3>11. Tokens' /\ Answered'
      BY <2>1, <2>3, <3>4, <3>5, IdleFacts DEF Structure, Tokens, Answered, NilToken
    <3>12. \A t \in Token : backup'[t][MetaFile] = Absent
      BY <3>5, FilesFacts DEF NoBackup
    <3>13. TokensKnown'
      BY <2>1, <2>6, <3>5, <3>12, FilesFacts, TokenFacts DEF TokensKnown, NilToken
    <3>. QED
      BY <3>6, <3>8, <3>9, <3>10, <3>11, <3>13 DEF Structure
  <2>. QED
    BY <1>5, <2>4, <2>5, <2>6 DEF Wipe
<1>. QED
  BY <1>1, <1>2, <1>3, <1>4, <1>5 DEF Opening

\* Nothing runs when a response is handled.
LEMMA StoringFacts ==
  ASSUME Types, Structure, CanStore, ~Overlapping
  PROVE  /\ phase = "up" /\ ~response.commit /\ queue = <<>> /\ pendingCommits = 0 /\ cursor = NoCursor
         /\ Loaded /\ AtWork /\ live[MetaFile] # Absent /\ MetaFile \notin dirty
         /\ NoBackup /\ BackupTokens = {} /\ backupToken = LiveToken /\ Stored(disk[MetaFile]) = backupToken
<1>1. phase = "up" /\ ~response.commit /\ queue = <<>> /\ pendingCommits = 0
  BY DEF CanStore, OnMain
<1>2. cursor = NoCursor /\ Loaded /\ AtWork
  BY <1>1 DEF Structure, CursorFits, Loaded, AtWork
<1>3. live[MetaFile] # Absent /\ MetaFile \notin dirty
  BY <1>1, <1>2 DEF Structure, ListsFit
<1>4. NoBackup /\ BackupTokens = {}
  BY <1>1, <1>2, BackupTokensFacts DEF Structure, BackedUp, Types
<1>5. \A f : ~Queued(f) /\ ~BeingWritten(f)
  BY <1>1, <1>2 DEF Queued, Has, BeingWritten
<1>6. ~Listed(MetaFile)
  <2>1. stateToCommit[MetaFile] = Absent
    BY FilesFacts DEF Structure, ListsFit, OpFor
  <2>2. ~ListedIn(MetaFile)
    BY FilesFacts, OutgoingFacts DEF Structure, ListsFit, Fitting, OpFor
  <2>. QED
    BY <1>3, <2>1, <2>2 DEF Listed
<1>7. disk[MetaFile] = live[MetaFile] /\ Stored(disk[MetaFile]) = backupToken
  BY <1>2, <1>5, <1>6, FilesFacts, OutgoingFacts DEF Structure, Rest, Named
<1>. QED
  BY <1>1, <1>2, <1>3, <1>4, <1>7, LiveTokenTyped DEF Types

\* Storing leaves the queue, the backups and the files alone.
LEMMA StoringFrame ==
  ASSUME Types, Structure, CanStore, ~Overlapping,
         UNCHANGED <<server, phase, commits, queue, cursor, backupToken, files>>
  PROVE  Forgotten' /\ QueueFits' /\ Closes' /\ CursorFits' /\ Named' /\ BackedUp'
<1>1. /\ UNCHANGED <<phase, pendingCommits, queue, cursor, backupToken, disk, backup>>
      /\ queue = <<>> /\ cursor = NoCursor /\ Loaded /\ AtWork /\ NoBackup
      /\ Stored(disk[MetaFile]) = backupToken
  BY StoringFacts DEF commits, files
<1>2. Loaded' /\ AtWork' /\ NoBackup'
  BY <1>1 DEF Loaded, AtWork, NoBackup
<1>3. QueueFits' /\ Closes' /\ CursorFits' /\ (\A f : ~Queued(f)' /\ ~BeingWritten(f)' /\ ~InDelete(f)')
  BY <1>1, NothingQueued
<1>4. Forgotten' /\ Named'
  BY <1>1, <1>2 DEF Forgotten, Named
<1>5. BackedUp'
  BY <1>1, <1>2, <1>3 DEF BackedUp, NoBackup
<1>. QED
  BY <1>3, <1>4, <1>5

LEMMA ReceiveStructure ==
  ASSUME Types, Structure, ~Overlapping, ReceiveResponse
  PROVE  Structure'
<1>1. /\ CanStore /\ response = Idle /\ LiveToken # 1..pos /\ response'.to = 1..pos
      /\ response'.joined = {r \in Rooms : left[r] = 0 /\ Unread(r) # {}}
      /\ response'.left = {r \in Rooms : left[r] > 0 /\ left[r] \notin LiveToken /\ LiveToken # NilToken}
      /\ UNCHANGED <<server, phase, live, dirty, stateToCommit, toDelete, commits, queue, cursor, backupToken, files>>
  BY DEF ReceiveResponse
<1>2. Forgotten' /\ QueueFits' /\ Closes' /\ CursorFits' /\ Named' /\ BackedUp'
  BY <1>1, StoringFrame
<1>3. MetaFile \notin dirty /\ backupToken = LiveToken /\ Loaded
  BY <1>1, StoringFacts
<1>4. /\ UNCHANGED <<pos, left, phase, live, dirty, stateToCommit, toDelete, pendingCommits, queue, backupToken,
                     disk, backup>>
      /\ LiveToken' = LiveToken /\ Loaded' = Loaded /\ BackupTokens' = BackupTokens
      /\ \A op, f : Fitting(op, f)' = Fitting(op, f)
      /\ \A f : OpFor(f)' = OpFor(f) /\ Listed(f)' = Listed(f) /\ ListedIn(f)' = ListedIn(f) /\ Queued(f)' = Queued(f)
  BY <1>1 DEF server, commits, files, LiveToken, Loaded, BackupTokens, OpFor, Fitting, Listed, ListedIn, Queued, Has
<1>5. ListsFit' /\ Rest' /\ TokensKnown'
  BY <1>3, <1>4 DEF Structure, ListsFit, Rest, TokensKnown
<1>6. Tokens'
  BY <1>1, <1>4 DEF Structure, Tokens
<1>7. Answered'
  <2>1. LiveToken \subseteq 1..pos /\ pos \in Nat /\ \A r \in Rooms : left[r] \in Nat /\ left[r] <= pos
    BY MaxPosAssumption DEF Structure, Tokens, Types, Typed
  <2>2. 1..pos # NilToken
    BY <1>1, <2>1 DEF NilToken
  <2>3. 0 \notin LiveToken \cup 1..pos
    BY <2>1
  <2>4. \A r \in toDelete : left[r] \in LiveToken
    BY <1>1, IdleFacts DEF Structure, Answered, NilToken
  <2>. QED
    BY <1>1, <1>3, <1>4, <2>1, <2>2, <2>3, <2>4 DEF Answered
<1>. QED
  BY <1>2, <1>5, <1>6, <1>7 DEF Structure

LEMMA StoreRoomStructure ==
  ASSUME Types, Structure, ~Overlapping, NEW r \in Rooms, StoreRoom(r)
  PROVE  Structure'
<1>1. /\ CanStore /\ r \in response.joined /\ dirty' = dirty \cup {MessagesFile(r)}
      /\ response' = [response EXCEPT !.joined = @ \ {r}]
      /\ UNCHANGED <<server, phase, toDelete, commits, queue, cursor, backupToken, files>>
  BY DEF StoreRoom
<1>2. /\ \A f \in Files : live'[f] = IF f \in RoomFiles(r) THEN New(r, f) ELSE live[f]
      /\ \A f \in Files : stateToCommit'[f] = IF f = StateFile(r) THEN New(r, f) ELSE stateToCommit[f]
      /\ \A f \in RoomFiles(r) : New(r, f) # Absent
  BY StoringRoom DEF Types
<1>3. Forgotten' /\ QueueFits' /\ Closes' /\ CursorFits' /\ Named' /\ BackedUp'
  BY <1>1, StoringFrame
<1>4. queue = <<>> /\ MetaFile \notin dirty /\ Loaded /\ live[MetaFile] # Absent
  BY <1>1, StoringFacts
<1>5. response'.to = response.to /\ response'.left = response.left /\ response'.joined = response.joined \ {r}
  BY <1>1 DEF Types, Typed, Response
<1>6. /\ UNCHANGED <<pos, left, phase, toDelete, pendingCommits, queue, backupToken, disk, backup>>
      /\ Loaded' = Loaded /\ BackupTokens' = BackupTokens
      /\ \A f : ListedIn(f)' = ListedIn(f) /\ Queued(f)' = Queued(f)
  BY <1>1 DEF server, commits, files, Loaded, BackupTokens, ListedIn, Queued, Has
<1>7. /\ RoomFiles(r) = {MessagesFile(r), StateFile(r)} /\ MetaFile \notin RoomFiles(r)
      /\ MessagesFile(r)[1] = "messages" /\ StateFile(r)[1] = "state"
      /\ \A f \in RoomFiles(r) : f \notin Outgoing
      /\ MessagesFile(r) \in Files /\ StateFile(r) \in Files /\ MetaFile \in Files
  BY FilesFacts, RoomFilesFacts, OutgoingFacts
<1>8. live'[MetaFile] = live[MetaFile] /\ LiveToken' = LiveToken
  BY <1>2, <1>7 DEF LiveToken
<1>9. r \notin toDelete
  BY <1>1 DEF Structure, Answered
<1>10. \A f \in Files : ListedIn(f) => f \notin RoomFiles(r)
  BY <1>9, RoomFilesFacts DEF ListedIn, Types, Typed
<1>11. \A f \in Files : f \in RoomFiles(r) => OpFor(f)' = f[1]
  BY <1>2, <1>7 DEF OpFor, Kind
<1>12. \A f \in Files : f \notin RoomFiles(r) => OpFor(f)' = OpFor(f)
  BY <1>2 DEF OpFor
<1>13. ListsFit'
  <2>1. \A f \in dirty' : OpFor(f)' \in {"messages", "metaData"}
    <3>1. \A f \in dirty : f \in Files /\ OpFor(f) \in {"messages", "metaData"}
      BY DEF Structure, ListsFit, Types, Typed
    <3>2. OpFor(StateFile(r)) \notin {"messages", "metaData"}
      BY <1>7 DEF OpFor, Kind
    <3>. QED
      BY <1>1, <1>7, <1>11, <1>12, <3>1, <3>2
  <2>2. ASSUME NEW f \in Files, stateToCommit'[f] # Absent
        PROVE  OpFor(f)' = "state" /\ stateToCommit'[f] = live'[f]
    <3>1. CASE f = StateFile(r)
      BY <1>2, <1>7, <1>11, <3>1
    <3>2. CASE f # StateFile(r)
      <4>1. stateToCommit[f] # Absent /\ stateToCommit'[f] = stateToCommit[f]
        BY <1>2, <2>2, <3>2
      <4>2. OpFor(f) = "state" /\ stateToCommit[f] = live[f]
        BY <4>1 DEF Structure, ListsFit
      <4>3. f # MessagesFile(r)
        BY <1>7, <4>2 DEF OpFor, Kind
      <4>. QED
        BY <1>2, <1>7, <1>12, <3>2, <4>1, <4>2, <4>3
    <3>. QED
      BY <3>1, <3>2
  <2>3. \A f \in Files : ListedIn(f)' => Fitting("delete", f)' /\ backupToken' # NilToken
    BY <1>6, <1>10, <1>12 DEF Structure, ListsFit, Fitting
  <2>4. MetaFile \notin dirty'
    BY <1>1, <1>4, <1>7
  <2>. QED
    BY <1>4, <1>6, <1>8, <2>1, <2>2, <2>3, <2>4 DEF ListsFit
<1>14. Tokens'
  BY <1>5, <1>6, <1>8 DEF Structure, Tokens
<1>15. Answered'
  <2>1. response.to # NilToken
    BY <1>1 DEF Structure, Answered
  <2>. QED
    BY <1>5, <1>6, <1>8, <2>1 DEF Structure, Answered
<1>16. Rest'
  <2>1. ASSUME NEW f \in Files, f \notin RoomFiles(r), Listed(f) PROVE Listed(f)'
    BY <1>1, <1>2, <1>6, <1>7, <2>1 DEF Listed
  <2>2. ASSUME NEW f \in RoomFiles(r) PROVE Listed(f)'
    BY <1>1, <1>2, <1>7 DEF Listed
  <2>. QED
    BY <1>2, <1>4, <1>6, <2>1, <2>2 DEF Structure, Rest
<1>17. TokensKnown'
  BY <1>6, <1>8 DEF Structure, TokensKnown
<1>. QED
  BY <1>3, <1>13, <1>14, <1>15, <1>16, <1>17 DEF Structure

LEMMA DeleteRoomStructure ==
  ASSUME Types, Structure, ~Overlapping, NEW r \in Rooms, DeleteRoom(r)
  PROVE  Structure'
<1>1. /\ CanStore /\ r \in response.left /\ dirty' = dirty \ {MessagesFile(r)} /\ toDelete' = toDelete \cup {r}
      /\ response' = [response EXCEPT !.left = @ \ {r}]
      /\ UNCHANGED <<server, phase, commits, queue, cursor, backupToken, files>>
  BY DEF DeleteRoom
<1>2. /\ \A f \in Files : live'[f] = IF f \in RoomFiles(r) THEN Absent ELSE live[f]
      /\ \A f \in Files : stateToCommit'[f] = IF f = StateFile(r) THEN Absent ELSE stateToCommit[f]
  BY DeletingRoom DEF Types
<1>3. Forgotten' /\ QueueFits' /\ Closes' /\ CursorFits' /\ Named' /\ BackedUp'
  BY <1>1, StoringFrame
<1>4. queue = <<>> /\ MetaFile \notin dirty /\ Loaded /\ live[MetaFile] # Absent
  BY <1>1, StoringFacts
<1>5. response'.to = response.to /\ response'.joined = response.joined /\ response'.left = response.left \ {r}
  BY <1>1 DEF Types, Typed, Response
<1>6. /\ UNCHANGED <<pos, left, phase, pendingCommits, queue, backupToken, disk, backup>>
      /\ Loaded' = Loaded /\ BackupTokens' = BackupTokens
      /\ \A f : Queued(f)' = Queued(f)
  BY <1>1 DEF server, commits, files, Loaded, BackupTokens, Queued, Has
<1>7. /\ RoomFiles(r) = {MessagesFile(r), StateFile(r)} /\ MetaFile \notin RoomFiles(r)
      /\ MessagesFile(r)[1] = "messages" /\ StateFile(r)[1] = "state"
      /\ \A f \in RoomFolder(r) : f \in RoomFiles(r) \/ f \in Outgoing
      /\ MessagesFile(r) \in Files /\ StateFile(r) \in Files /\ MetaFile \in Files
  BY FilesFacts, RoomFilesFacts, OutgoingFacts
<1>8. live'[MetaFile] = live[MetaFile] /\ LiveToken' = LiveToken
  BY <1>2, <1>7 DEF LiveToken
<1>9. left[r] \in response.to /\ backupToken # NilToken /\ response.to # NilToken
  BY <1>1 DEF Structure, Answered
<1>10. \A f : ListedIn(f)' <=> ListedIn(f) \/ f \in RoomFolder(r)
  BY <1>1 DEF ListedIn
<1>11. \A f \in Files : f \in RoomFiles(r) => OpFor(f)' = "delete"
  BY <1>2, <1>7 DEF OpFor
<1>12. \A f \in Files : f \notin RoomFiles(r) => OpFor(f)' = OpFor(f)
  BY <1>2 DEF OpFor
<1>13. ListsFit'
  <2>1. \A f \in dirty' : OpFor(f)' \in {"messages", "metaData"}
    <3>1. \A f \in dirty : f \in Files /\ OpFor(f) \in {"messages", "metaData"}
      BY DEF Structure, ListsFit, Types, Typed
    <3>2. OpFor(StateFile(r)) \notin {"messages", "metaData"}
      BY <1>7 DEF OpFor, Kind
    <3>3. \A f \in dirty' : f \in dirty /\ f \notin RoomFiles(r)
      BY <1>1, <1>7, <3>1, <3>2
    <3>. QED
      BY <1>12, <3>1, <3>3
  <2>2. ASSUME NEW f \in Files, stateToCommit'[f] # Absent
        PROVE  OpFor(f)' = "state" /\ stateToCommit'[f] = live'[f]
    <3>1. f # StateFile(r) /\ stateToCommit[f] # Absent /\ stateToCommit'[f] = stateToCommit[f]
      BY <1>2, <2>2
    <3>2. OpFor(f) = "state" /\ stateToCommit[f] = live[f]
      BY <3>1 DEF Structure, ListsFit
    <3>3. f # MessagesFile(r)
      BY <1>7, <3>2 DEF OpFor, Kind
    <3>. QED
      BY <1>2, <1>7, <1>12, <3>1, <3>2, <3>3
  <2>3. ASSUME NEW f \in Files, ListedIn(f)'
        PROVE  Fitting("delete", f)' /\ backupToken' # NilToken
    <3>1. f \notin RoomFolder(r) => Fitting("delete", f)
      BY <1>10, <2>3 DEF Structure, ListsFit
    <3>. QED
      BY <1>6, <1>7, <1>9, <1>11, <1>12, <3>1 DEF Fitting
  <2>4. MetaFile \notin dirty'
    BY <1>1, <1>4
  <2>. QED
    BY <1>4, <1>6, <1>8, <2>1, <2>2, <2>3, <2>4 DEF ListsFit
<1>14. Tokens'
  BY <1>5, <1>6, <1>8 DEF Structure, Tokens
<1>15. Answered'
  BY <1>1, <1>5, <1>6, <1>8, <1>9 DEF Structure, Answered
<1>16. Rest'
  <2>1. ASSUME NEW f \in Files, f \notin RoomFiles(r), Listed(f) PROVE Listed(f)'
    BY <1>1, <1>2, <1>10, <1>7, <2>1 DEF Listed
  <2>2. ASSUME NEW f \in RoomFiles(r) PROVE Listed(f)'
    BY <1>10, RoomFilesFacts DEF Listed
  <2>. QED
    BY <1>2, <1>4, <1>6, <2>1, <2>2 DEF Structure, Rest
<1>17. TokensKnown'
  BY <1>6, <1>8 DEF Structure, TokensKnown
<1>. QED
  BY <1>3, <1>13, <1>14, <1>15, <1>16, <1>17 DEF Structure

LEMMA StoreOutgoingStructure ==
  ASSUME Types, Structure, ~Overlapping, NEW r \in Rooms, StoreOutgoing(r)
  PROVE  Structure'
<1>1. /\ CanStore /\ dirty' = dirty \cup {OutgoingFile(r)}
      /\ \E f \in {MessagesFile(r), OutgoingFile(r)} : live[f] # Absent
      /\ UNCHANGED <<server, phase, response, stateToCommit, toDelete, commits, queue, cursor, backupToken, files>>
  BY DEF StoreOutgoing
<1>2. /\ \A f \in Files : f # OutgoingFile(r) => live'[f] = live[f]
      /\ live'[OutgoingFile(r)] # Absent
  BY <1>1, StoringOutgoing DEF Types
<1>3. Forgotten' /\ QueueFits' /\ Closes' /\ CursorFits' /\ Named' /\ BackedUp'
  BY <1>1, StoringFrame
<1>4. queue = <<>> /\ MetaFile \notin dirty /\ Loaded /\ live[MetaFile] # Absent
  BY <1>1, StoringFacts
<1>5. /\ UNCHANGED <<pos, left, phase, response, toDelete, pendingCommits, queue, backupToken, disk, backup,
                     stateToCommit>>
      /\ Loaded' = Loaded /\ BackupTokens' = BackupTokens
      /\ \A f : ListedIn(f)' = ListedIn(f) /\ Queued(f)' = Queued(f)
  BY <1>1 DEF server, commits, files, Loaded, BackupTokens, ListedIn, Queued, Has
<1>6. /\ OutgoingFile(r) \in Files /\ OutgoingFile(r) # MetaFile /\ OutgoingFile(r) \in Outgoing
      /\ OutgoingFile(r)[1] = "outgoingMessages" /\ MetaFile \in Files /\ MessagesFile(r) # MetaFile
      /\ MessagesFile(r) \in Files
  BY FilesFacts, OutgoingFacts
<1>7. live'[MetaFile] = live[MetaFile] /\ LiveToken' = LiveToken
  BY <1>2, <1>6 DEF LiveToken
<1>8. \A f \in Files : f # OutgoingFile(r) => OpFor(f)' = OpFor(f)
  BY <1>2 DEF OpFor
<1>9. OpFor(OutgoingFile(r))' = "messages" /\ OpFor(OutgoingFile(r)) # "state"
  BY <1>2, <1>6 DEF OpFor, Kind
<1>10. ListsFit'
  <2>1. \A f \in dirty' : OpFor(f)' \in {"messages", "metaData"}
    <3>1. \A f \in dirty : f \in Files /\ OpFor(f) \in {"messages", "metaData"}
      BY DEF Structure, ListsFit, Types, Typed
    <3>. QED
      BY <1>1, <1>8, <1>9, <3>1
  <2>2. ASSUME NEW f \in Files, stateToCommit'[f] # Absent
        PROVE  OpFor(f)' = "state" /\ stateToCommit'[f] = live'[f]
    <3>1. OpFor(f) = "state" /\ stateToCommit[f] = live[f]
      BY <1>5, <2>2 DEF Structure, ListsFit
    <3>. QED
      BY <1>2, <1>5, <1>8, <1>9, <3>1
  <2>3. \A f \in Files : ListedIn(f)' => Fitting("delete", f)' /\ backupToken' # NilToken
    BY <1>5, <1>6, <1>8 DEF Structure, ListsFit, Fitting
  <2>4. MetaFile \notin dirty'
    BY <1>1, <1>4, <1>6
  <2>. QED
    BY <1>4, <1>5, <1>7, <2>1, <2>2, <2>3, <2>4 DEF ListsFit
<1>11. Tokens'
  BY <1>5, <1>7 DEF Structure, Tokens
<1>12. Answered'
  <2>1. LiveToken = NilToken => response.to # NilToken
    BY <1>1, <1>6 DEF Structure, Answered
  <2>. QED
    BY <1>5, <1>7, <2>1 DEF Structure, Answered
<1>13. Rest'
  <2>1. ASSUME NEW f \in Files, Listed(f) PROVE Listed(f)'
    BY <1>1, <1>5, <2>1 DEF Listed
  <2>. QED
    BY <1>2, <1>4, <1>5, <1>6, <2>1 DEF Structure, Rest
<1>14. TokensKnown'
  BY <1>5, <1>7 DEF Structure, TokensKnown
<1>. QED
  BY <1>3, <1>10, <1>11, <1>12, <1>13, <1>14 DEF Structure

LEMMA SetTokenStructure ==
  ASSUME Types, Structure, ~Overlapping, SetEventStreamToken
  PROVE  Structure'
<1>1. /\ CanStore /\ response.to # NilToken /\ response.joined = {} /\ response.left = {}
      /\ dirty' = IF live[MetaFile] = Absent THEN dirty ELSE dirty \cup {MetaFile}
      /\ UNCHANGED <<server, phase, stateToCommit, toDelete, commits, queue, cursor, backupToken, files>>
  BY DEF SetEventStreamToken
<1>2. queue = <<>> /\ MetaFile \notin dirty /\ Loaded /\ live[MetaFile] # Absent /\ pendingCommits = 0
  BY <1>1, StoringFacts
<1>3. /\ \A f \in Files : f # MetaFile => live'[f] = live[f]
      /\ live'[MetaFile] = response.to /\ LiveToken' = response.to
      /\ response'.to = NilToken /\ response'.commit /\ response'.joined = {} /\ response'.left = {}
  BY <1>2, SettingToken DEF Types
<1>4. Forgotten' /\ QueueFits' /\ Closes' /\ CursorFits' /\ Named' /\ BackedUp'
  BY <1>1, StoringFrame
<1>5. /\ UNCHANGED <<pos, left, phase, pendingCommits, queue, backupToken, disk, backup, stateToCommit, toDelete>>
      /\ Loaded' = Loaded /\ BackupTokens' = BackupTokens
      /\ \A f : Queued(f)' = Queued(f) /\ ListedIn(f)' = ListedIn(f)
      /\ dirty' = dirty \cup {MetaFile}
  BY <1>1, <1>2 DEF server, commits, files, Loaded, BackupTokens, Queued, Has, ListedIn
<1>6. live'[MetaFile] # Absent
  BY <1>3, TokenFacts DEF Types, Typed, Response
<1>7. \A f \in Files : OpFor(f)' = OpFor(f)
  BY <1>3 DEF OpFor
<1>8. LiveToken \subseteq LiveToken' /\ response.to \subseteq 1..pos
  BY <1>1, <1>3 DEF Structure, Tokens
<1>9. ListsFit'
  <2>1. \A f \in dirty' : OpFor(f)' \in {"messages", "metaData"}
    BY <1>5, <1>7 DEF Structure, ListsFit, OpFor, Types, Typed
  <2>2. \A f \in Files : stateToCommit'[f] # Absent =>
          f # MetaFile /\ OpFor(f)' = "state" /\ stateToCommit'[f] = live'[f]
    BY <1>3, <1>5, <1>7 DEF Structure, ListsFit, OpFor
  <2>3. \A f \in Files : ListedIn(f)' => Fitting("delete", f)' /\ backupToken' # NilToken
    BY <1>5, <1>7 DEF Structure, ListsFit, Fitting
  <2>. QED
    BY <1>2, <1>3, <1>5, <1>6, <2>1, <2>2, <2>3 DEF ListsFit
<1>10. Tokens' /\ Answered'
  BY <1>1, <1>3, <1>5, <1>8 DEF Structure, Tokens, Answered, NilToken
<1>11. Rest'
  <2>1. \A f : Listed(f) => Listed(f)'
    BY <1>5 DEF Listed
  <2>2. Listed(MetaFile)'
    BY <1>5 DEF Listed
  <2>. QED
    BY <1>2, <1>3, <1>5, <2>1, <2>2 DEF Structure, Rest
<1>12. TokensKnown'
  BY <1>2, <1>5, <1>8 DEF Structure, TokensKnown
<1>. QED
  BY <1>4, <1>9, <1>10, <1>11, <1>12 DEF Structure

\* Steps of the main thread that touch neither the data nor the queue.
LEMMA OtherStructure ==
  ASSUME Types, Structure, phase = "up", phase' \in {"up", "closing"},
         UNCHANGED <<pos, left, live, dirty, stateToCommit, toDelete, queue, cursor, backupToken, disk, backup>>,
         response'.joined = response.joined, response'.left = response.left, response'.to = response.to,
         MetaFile \notin dirty \/ UNCHANGED <<response, pendingCommits>>
  PROVE  Structure'
<1>1. /\ LiveToken' = LiveToken /\ Loaded /\ Loaded' /\ AtWork /\ AtWork' /\ NoBackup' = NoBackup
      /\ Relabelled' = Relabelled /\ BackupTokens' = BackupTokens
      /\ \A f : OpFor(f)' = OpFor(f) /\ Listed(f)' = Listed(f) /\ ListedIn(f)' = ListedIn(f)
      /\ \A f : Queued(f)' = Queued(f) /\ BeingWritten(f)' = BeingWritten(f) /\ InDelete(f)' = InDelete(f)
      /\ \A op, f : Fitting(op, f)' = Fitting(op, f)
  BY DEF LiveToken, Loaded, AtWork, NoBackup, Relabelled, BackupTokens, OpFor, Fitting, Listed, ListedIn, Queued,
         BeingWritten, Has, InDelete
<1>2. Forgotten' /\ ListsFit'
  BY <1>1 DEF Structure, Forgotten, ListsFit
<1>3. QueueFits' /\ Closes' /\ CursorFits'
  BY <1>1 DEF Structure, QueueFits, Closes, CursorFits, InOrder
<1>4. Named' /\ BackedUp' /\ Rest' /\ TokensKnown'
  BY <1>1 DEF Structure, Named, BackedUp, Rest, TokensKnown
<1>5. Tokens' /\ Answered'
  BY <1>1 DEF Structure, Tokens, Answered
<1>. QED
  BY <1>2, <1>3, <1>4, <1>5 DEF Structure

\* A block made of a list does what the live data say.
LEMMA FromListFits ==
  ASSUME Types, Structure, NEW b, FromList(b)
  PROVE  /\ \A f \in b.todo : Fitting(b.op, f) /\ (b.op = "state" => b.snapshot[f] = live[f])
         /\ b.op = "delete" => backupToken # NilToken
         /\ b.op \notin Ends
         /\ b.op = "delete" => \A f \in b.todo : Listed(f)
<1>1. CASE b.op = "delete" /\ b.todo = ToDeleteFiles /\ b.snapshot = EmptyFolder /\ toDelete # {}
  <2>1. \A f \in b.todo : f \in Files /\ ListedIn(f)
    BY <1>1, RoomFilesFacts DEF ToDeleteFiles, ListedIn, Types, Typed
  <2>2. PICK r \in toDelete : TRUE
    BY <1>1
  <2>3. MessagesFile(r) \in Files /\ ListedIn(MessagesFile(r))
    BY <2>2, FilesFacts, RoomFilesFacts DEF ListedIn, Types, Typed
  <2>. QED
    BY <1>1, <2>1, <2>3 DEF Structure, ListsFit, Ends, Listed
<1>2. CASE b.op = "messages" /\ b.todo = DirtyMessages
  <2>1. \A f \in b.todo : f \in dirty /\ f \in Files /\ f # MetaFile /\ OpFor(f) \in {"messages", "metaData"}
    BY <1>2 DEF DirtyMessages, Structure, ListsFit, Types, Typed
  <2>2. \A f \in b.todo : OpFor(f) \in {"messages", "state", "delete"}
    BY <2>1 DEF OpFor, Kind
  <2>3. \A f \in b.todo : OpFor(f) = "messages"
    BY <2>1, <2>2
  <2>. QED
    BY <1>2, <2>3 DEF Ends, Fitting
<1>3. CASE b.op = "state" /\ b.todo = StateFiles /\ b.snapshot = stateToCommit
  BY <1>3 DEF StateFiles, Structure, ListsFit, Ends, Fitting
<1>4. CASE b.op = "metaData" /\ b.todo = DirtyMetaData
  BY <1>4 DEF DirtyMetaData, OpFor, Fitting, Ends
<1>. QED
  BY <1>1, <1>2, <1>3, <1>4 DEF FromList

LEMMA SavedStructure ==
  ASSUME Types, Structure, NEW end \in Ends, SaveDataToFiles(end), phase = "up", phase' \in {"up", "closing"},
         UNCHANGED <<pos, left, live, cursor, backupToken, disk, backup>>,
         response'.joined = response.joined, response'.left = response.left, response'.to = response.to
  PROVE  Structure'
<1>1. /\ queue' \in Seq(Block) /\ Len(queue') > Len(queue) /\ queue \in Seq(Block)
      /\ \A i \in DOMAIN queue : i \in DOMAIN queue' /\ queue'[i] = queue[i]
      /\ \A i \in DOMAIN queue' :
              \/ i \in DOMAIN queue
              \/ FromList(queue'[i])
              \/ queue'[i].op = end /\ queue'[i].todo = {} /\ queue'[i].snapshot = EmptyFolder
      /\ queue'[Len(queue')].op = end
      /\ \A f \in Files : Has(queue', f) <=> Has(queue, f) \/ Listed(f)
      /\ InOrder(queue) /\ (queue = <<>> \/ \A f \in Files : ~Listed(f)) => InOrder(queue')
  BY SavedQueue DEF Types, Typed
<1>2. dirty' = {} /\ stateToCommit' = EmptyFolder /\ toDelete' = {}
  BY DEF SaveDataToFiles
<1>3. /\ LiveToken' = LiveToken /\ Loaded /\ Loaded' /\ AtWork /\ AtWork' /\ NoBackup' = NoBackup
      /\ BackupTokens' = BackupTokens
      /\ \A f : BeingWritten(f)' = BeingWritten(f)
      /\ \A f : OpFor(f)' = OpFor(f)
  BY DEF LiveToken, Loaded, AtWork, NoBackup, BackupTokens, OpFor, BeingWritten
<1>4. ListsFit' /\ Forgotten' /\ \A f \in Files : ~Listed(f)'
  BY <1>2, <1>3, NothingListed DEF Structure, ListsFit, Forgotten
<1>5. queue = <<>> \/ \A f \in Files : ~Listed(f)
  BY DEF Structure, ListsFit
<1>6. QueueFits'
  <2>1. ASSUME NEW i \in DOMAIN queue'
        PROVE  /\ \A f \in queue'[i].todo :
                    /\ queue'[i].op = OpFor(f)' \/ (queue'[i].op = "delete" /\ f \in Outgoing)
                    /\ (queue'[i].op = "state" => queue'[i].snapshot[f] = live'[f])
               /\ queue'[i].op = "delete" => backupToken' # NilToken
               /\ queue'[i].op \in Ends => queue'[i].todo = {}
    <3>1. CASE i \in DOMAIN queue
      BY <1>1, <1>3, <3>1 DEF Structure, QueueFits, Fitting
    <3>2. CASE FromList(queue'[i])
      BY <1>3, <3>2, FromListFits DEF Fitting
    <3>3. CASE queue'[i].op = end /\ queue'[i].todo = {}
      BY <3>3 DEF Ends
    <3>. QED
      BY <1>1, <3>1, <3>2, <3>3
  <2>2. InOrder(queue')
    BY <1>1, <1>5 DEF Structure, QueueFits
  <2>. QED
    BY <2>1, <2>2 DEF QueueFits, InOrder, Fitting
<1>7. Closes'
  BY <1>1 DEF Closes
<1>8. queue' # <<>> /\ (queue # <<>> => queue'[1] = queue[1])
  BY <1>1
<1>9. CursorFits'
  BY <1>3, <1>8 DEF Structure, CursorFits
<1>10. Named' /\ Rest' /\ TokensKnown'
  <2>1. \A f \in Files : Queued(f)' <=> Queued(f) \/ Listed(f)
    BY <1>1 DEF Queued
  <2>. QED
    BY <1>3, <2>1 DEF Structure, Named, Rest, TokensKnown
<1>11. BackedUp'
  <2>1. CASE queue = <<>>
    <3>1. NoBackup
      BY <1>3, <2>1 DEF Structure, BackedUp
    <3>. QED
      BY <1>3, <1>8, <3>1 DEF BackedUp, NoBackup
  <2>2. CASE queue # <<>> /\ \A f \in Files : ~Listed(f)
    <3>1. Relabelled' <=> Relabelled
      BY <1>3, <1>8, <2>2 DEF Relabelled
    <3>2. \A f \in Files : Queued(f)' <=> Queued(f)
      BY <1>1, <2>2 DEF Queued
    <3>3. ASSUME NEW f \in Files, InDelete(f)' PROVE InDelete(f)
      <4>1. PICK i \in DOMAIN queue' : queue'[i].op = "delete" /\ f \in queue'[i].todo
        BY <3>3 DEF InDelete
      <4>2. ~FromList(queue'[i])
        BY <2>2, <4>1, FromListFits
      <4>3. i \in DOMAIN queue /\ queue'[i] = queue[i]
        BY <1>1, <4>1, <4>2 DEF Ends
      <4>. QED
        BY <4>1, <4>3 DEF InDelete
    <3>. QED
      BY <1>3, <1>8, <3>1, <3>2, <3>3 DEF Structure, BackedUp
  <2>. QED
    BY <1>5, <2>1, <2>2
<1>12. Tokens' /\ Answered'
  BY <1>2, <1>3 DEF Structure, Tokens, Answered
<1>. QED
  BY <1>4, <1>6, <1>7, <1>9, <1>10, <1>11, <1>12 DEF Structure

LEMMA CommitStructure ==
  ASSUME Types, Structure, Commit \/ CommitIgnored \/ CommitDone \/ Close \/ Closed \/ Crash
  PROVE  Structure'
<1>1. CASE Commit
  <2>1. /\ phase = "up" /\ phase' = phase /\ SaveDataToFiles("commitEnd")
        /\ response' = [response EXCEPT !.commit = FALSE]
        /\ UNCHANGED <<pos, left, live, cursor, backupToken, disk, backup>>
    BY <1>1 DEF Commit, server, files
  <2>2. response'.joined = response.joined /\ response'.left = response.left /\ response'.to = response.to
    BY <2>1 DEF Types, Typed, Response
  <2>3. PICK end \in Ends : end = "commitEnd"
    BY DEF Ends
  <2>. QED
    BY <2>1, <2>2, <2>3, SavedStructure
<1>2. CASE CommitIgnored
  <2>1. /\ phase = "up" /\ phase' = phase /\ (pendingCommits >= 2 \/ live[MetaFile] = Absent)
        /\ response' = [response EXCEPT !.commit = FALSE]
        /\ UNCHANGED <<pos, left, live, dirty, stateToCommit, toDelete, queue, cursor, backupToken, disk, backup>>
    BY <1>2 DEF CommitIgnored, server, files
  <2>2. response'.joined = response.joined /\ response'.left = response.left /\ response'.to = response.to
    BY <2>1 DEF Types, Typed, Response
  <2>3. MetaFile \notin dirty
    BY <2>1 DEF Structure, ListsFit, Loaded
  <2>. QED
    BY <2>1, <2>2, <2>3, OtherStructure
<1>3. CASE CommitDone
  <2>1. /\ phase = "up" /\ phase' = phase /\ finished > 0 /\ response' = response
        /\ UNCHANGED <<pos, left, live, dirty, stateToCommit, toDelete, queue, cursor, backupToken, disk, backup>>
    BY <1>3 DEF CommitDone, OnMain, server, memory, files
  <2>2. pendingCommits # 0
    BY <2>1 DEF Types, Counted
  <2>3. MetaFile \notin dirty
    BY <2>2 DEF Structure, ListsFit
  <2>. QED
    BY <2>1, <2>3, OtherStructure
<1>4. CASE Close
  <2>1. /\ phase = "up" /\ phase' = "closing" /\ response' = response /\ pendingCommits' = pendingCommits
        /\ UNCHANGED <<pos, left, live, cursor, backupToken, disk, backup>>
        /\ \/ SaveDataToFiles("closeEnd")
           \/ UNCHANGED <<queue, dirty, stateToCommit, toDelete>>
    BY <1>4 DEF Close, OnMain, server, files, commits
  <2>2. PICK end \in Ends : end = "closeEnd"
    BY DEF Ends
  <2>. QED
    BY <2>1, <2>2, SavedStructure, OtherStructure
<1>5. CASE Closed \/ Crash
  BY <1>5, ForgetStructure DEF Closed, Crash
<1>. QED
  BY <1>1, <1>2, <1>3, <1>4, <1>5

(***************************************************************************)
(* The first block of the queue.                                           *)
(***************************************************************************)
LEMMA FirstBlock ==
  ASSUME Types, Structure, queue # <<>>
  PROVE  /\ queue \in Seq(Block) /\ 1 \in DOMAIN queue /\ Loaded /\ AtWork /\ live[MetaFile] # Absent
         /\ \A f \in Files : ~Listed(f) /\ ~ListedIn(f)
         /\ MetaFile \notin dirty
         /\ \A f \in queue[1].todo : f \in Files /\ Queued(f) /\ Fitting(queue[1].op, f)
         /\ queue[1].op = "delete" =>
              \A f \in queue[1].todo : f # MetaFile /\ (live[f] = Absent \/ f \in Outgoing) /\ InDelete(f)
         /\ \A f : InDelete(f) => queue[1].op = "delete" /\ f \in queue[1].todo
         /\ queue[1].op \in {"messages", "state"} => \A f \in queue[1].todo : f # MetaFile /\ live[f] # Absent
         /\ queue[1].op = "metaData" => \A f \in queue[1].todo : f = MetaFile
         /\ queue[1].op = "state" => \A f \in queue[1].todo : queue[1].snapshot[f] = live[f]
         /\ queue[1].op \in {"metaData"} \cup Ends => \A i \in DOMAIN queue : i # 1 => queue[i].op \in Ends
         /\ queue[1].op \in Ends => \A f : ~Queued(f)
<1>1. queue \in Seq(Block) /\ 1 \in DOMAIN queue /\ queue[1] \in Block
  BY DEF Types, Typed
<1>2. Loaded /\ AtWork /\ live[MetaFile] # Absent
  BY DEF Structure, Forgotten, ListsFit, Loaded, AtWork
<1>3. (\A f \in Files : ~Listed(f) /\ ~ListedIn(f)) /\ MetaFile \notin dirty
  BY FilesFacts DEF Structure, ListsFit, Listed
<1>4. \A f \in queue[1].todo : f \in Files /\ Queued(f) /\ Fitting(queue[1].op, f)
  BY <1>1 DEF Structure, QueueFits, Queued, Has, Block
<1>5. \A f : InDelete(f) => queue[1].op = "delete" /\ f \in queue[1].todo
  <2> SUFFICES ASSUME NEW f, NEW i \in DOMAIN queue, queue[i].op = "delete", f \in queue[i].todo
               PROVE  i = 1
    BY DEF InDelete
  <2>1. CASE 1 < i
    BY <1>1, <2>1 DEF Structure, QueueFits, InOrder, Before, Ends
  <2>. QED
    BY <1>1, <2>1
<1>6. /\ queue[1].op = "delete" =>
           \A f \in queue[1].todo : f # MetaFile /\ (live[f] = Absent \/ f \in Outgoing) /\ InDelete(f)
      /\ queue[1].op \in {"messages", "state"} => \A f \in queue[1].todo : f # MetaFile /\ live[f] # Absent
      /\ queue[1].op = "metaData" => \A f \in queue[1].todo : f = MetaFile
  BY <1>1, <1>4, OutgoingFacts DEF Fitting, OpFor, Kind, InDelete
<1>7. queue[1].op = "state" => \A f \in queue[1].todo : queue[1].snapshot[f] = live[f]
  BY <1>1 DEF Structure, QueueFits
<1>8. ASSUME queue[1].op \in {"metaData"} \cup Ends, NEW i \in DOMAIN queue, i # 1
      PROVE  queue[i].op \in Ends
  <2>1. 1 < i
    BY <1>1, <1>8
  <2>2. queue[i].op \in Ends \/ Before(queue[1].op, queue[i].op)
    BY <1>1, <2>1 DEF Structure, QueueFits, InOrder
  <2>. QED
    BY <1>8, <2>2 DEF Before, Ends
<1>9. ASSUME queue[1].op \in Ends, NEW f, Queued(f)
      PROVE  FALSE
  <2>1. PICK i \in DOMAIN queue : f \in queue[i].todo
    BY <1>9 DEF Queued, Has
  <2>2. queue[i].op \in Ends
    BY <1>8, <1>9, <2>1
  <2>. QED
    BY <2>1, <2>2 DEF Structure, QueueFits
<1>. QED
  BY <1>1, <1>2, <1>3, <1>4, <1>5, <1>6, <1>7, <1>8, <1>9

\* The queue when files of its first block have been dealt with.
LEMMA DealtFits ==
  ASSUME Types, Structure, queue # <<>>, NEW F \in SUBSET Files, NEW c \in {0, 1}, Dealt(queue', queue, F, c),
         F \subseteq queue[1].todo, UNCHANGED <<live, backupToken>>,
         queue[1].op = "metaData" => queue[1].todo \subseteq F
  PROVE  /\ QueueFits' /\ Closes'
         /\ \A f \in Files : Queued(f)' => Queued(f)
         /\ \A f \in Files : f \notin F => (Queued(f)' <=> Queued(f))
         /\ \A f \in F : Queued(f)' => f \in Outgoing /\ queue[1].op = "delete"
         /\ \A f : InDelete(f)' => InDelete(f) /\ f \notin F
         /\ queue' = <<>> => queue[1].op \in Ends \/ (queue[1].op = "metaData" /\ NoBackup)
         /\ queue[1].op \in {"metaData"} \cup Ends /\ queue' # <<>> => queue[1].op \in Ends \/ queue'[1].op \in Ends
<1>1. /\ queue' \in Seq(Block) /\ queue \in Seq(Block) /\ 1 \in DOMAIN queue
      /\ Len(queue') = Len(queue) - c /\ (c = 1 <=> queue[1].todo \subseteq F)
      /\ Len(queue) \in Nat /\ Len(queue') \in Nat /\ DOMAIN queue' = 1..Len(queue') /\ DOMAIN queue = 1..Len(queue)
  BY FirstBlock DEF Dealt
<1>2. \A i \in DOMAIN queue' :
         /\ i \in Nat /\ i + c \in DOMAIN queue /\ queue'[i].op = queue[i + c].op
         /\ queue'[i].snapshot = queue[i + c].snapshot
         /\ queue'[i].todo = IF i + c = 1 THEN queue[i + c].todo \ F ELSE queue[i + c].todo
  <2>1. \A i \in DOMAIN queue' : i \in Nat
    BY <1>1
  <2>2. \A i \in DOMAIN queue' :
         /\ i + c \in DOMAIN queue /\ queue'[i].op = queue[i + c].op
         /\ queue'[i].snapshot = queue[i + c].snapshot
         /\ queue'[i].todo = IF i + c = 1 THEN queue[i + c].todo \ F ELSE queue[i + c].todo
    BY Zenon DEF Dealt
  <2>. QED
    BY <2>1, <2>2
<1>3. \A f : OpFor(f)' = OpFor(f)
  BY DEF OpFor
<1>4. \A f \in F : \A i \in DOMAIN queue :
        i # 1 /\ f \in queue[i].todo => f \in Outgoing /\ queue[1].op = "delete" /\ queue[i].op # "delete"
  <2> SUFFICES ASSUME NEW f \in F, NEW i \in DOMAIN queue, i # 1, f \in queue[i].todo
               PROVE  f \in Outgoing /\ queue[1].op = "delete" /\ queue[i].op # "delete"
    OBVIOUS
  <2>1. 1 < i
    BY <1>1
  <2>2. Fitting(queue[i].op, f) /\ Fitting(queue[1].op, f) /\ queue[i].op \notin Ends
    BY <1>1 DEF Structure, QueueFits
  <2>3. queue[i].op \in Ends \/ Before(queue[1].op, queue[i].op)
    BY <1>1, <2>1 DEF Structure, QueueFits, InOrder
  <2>. QED
    BY <2>2, <2>3 DEF Before, Fitting
<1>5. QueueFits'
  <2>1. \A i \in DOMAIN queue' : queue'[i].todo \subseteq queue[i + c].todo
    BY <1>2
  <2>2. InOrder(queue')
    <3> SUFFICES ASSUME NEW i \in DOMAIN queue', NEW j \in DOMAIN queue', i < j
                 PROVE  queue'[j].op \in Ends \/ Before(queue'[i].op, queue'[j].op)
      BY DEF InOrder
    <3>1. i + c < j + c /\ i + c \in DOMAIN queue /\ j + c \in DOMAIN queue
          /\ queue'[i].op = queue[i + c].op /\ queue'[j].op = queue[j + c].op
      <4>1. i \in Nat /\ j \in Nat /\ c \in Nat
        BY <1>2
      <4>2. i + c < j + c
        BY <4>1
      <4>. QED
        BY <1>2, <4>2
    <3>. QED
      BY <3>1 DEF Structure, QueueFits, InOrder
  <2>3. ASSUME NEW i \in DOMAIN queue'
        PROVE  /\ \A f \in queue'[i].todo :
                    /\ queue'[i].op = OpFor(f)' \/ (queue'[i].op = "delete" /\ f \in Outgoing)
                    /\ (queue'[i].op = "state" => queue'[i].snapshot[f] = live'[f])
               /\ queue'[i].op = "delete" => backupToken' # NilToken
               /\ queue'[i].op \in Ends => queue'[i].todo = {}
    <3>1. PICK k \in DOMAIN queue : k = i + c
      BY <1>2
    <3>2. queue'[i].op = queue[k].op /\ queue'[i].snapshot = queue[k].snapshot /\ queue'[i].todo \subseteq queue[k].todo
      BY <1>2, <2>1, <3>1
    <3>. QED
      BY <1>3, <3>2 DEF Structure, QueueFits, Fitting
  <2>. QED
    BY <2>2, <2>3 DEF QueueFits, InOrder, Fitting
<1>6. /\ \A f \in Files : Queued(f)' => Queued(f)
      /\ \A f \in Files : f \notin F => (Queued(f)' <=> Queued(f))
      /\ \A f \in F : Queued(f)' => f \in Outgoing /\ queue[1].op = "delete"
  <2>1. ASSUME NEW f \in Files, NEW i \in DOMAIN queue', f \in queue'[i].todo
        PROVE  Queued(f) /\ (f \in F => f \in Outgoing /\ queue[1].op = "delete")
    <3>1. PICK k \in DOMAIN queue : k = i + c
      BY <1>2
    <3>2. f \in queue[k].todo /\ (k = 1 => f \notin F)
      BY <1>2, <2>1, <3>1
    <3>. QED
      BY <1>4, <3>2 DEF Queued, Has
  <2>2. ASSUME NEW f \in Files, f \notin F, NEW k \in DOMAIN queue, f \in queue[k].todo
        PROVE  Queued(f)'
    <3>1. k = 1 => c = 0
      BY <1>1, <2>2
    <3>2. PICK i \in DOMAIN queue' : i + c = k
      <4>1. k \in Nat /\ k - c \in 1..Len(queue') /\ (k - c) + c = k
        BY <1>1, <3>1
      <4>. QED
        BY <1>1, <4>1
    <3>3. f \in queue'[i].todo
      BY <1>2, <2>2, <3>2
    <3>. QED
      BY <3>3 DEF Queued, Has
  <2>. QED
    BY <2>1, <2>2 DEF Queued, Has
<1>10. ASSUME NEW f, InDelete(f)' PROVE InDelete(f) /\ f \notin F
  <2>1. PICK i \in DOMAIN queue' : queue'[i].op = "delete" /\ f \in queue'[i].todo
    BY <1>10 DEF InDelete
  <2>2. PICK k \in DOMAIN queue : k = i + c
    BY <1>2
  <2>3. queue[k].op = "delete" /\ f \in queue[k].todo /\ (k = 1 => f \notin F)
    BY <1>2, <2>1, <2>2
  <2>. QED
    BY <1>4, <2>3 DEF InDelete
<1>7. Closes'
  <2> SUFFICES ASSUME queue' # <<>>, queue'[Len(queue')].op \notin Ends PROVE FALSE
    BY DEF Closes
  <2>1. Len(queue') \in DOMAIN queue' /\ Len(queue') + c = Len(queue)
    BY <1>1
  <2>2. queue[Len(queue)].op \notin Ends
    BY <1>2, <2>1
  <2>3. Len(queue) = 1 /\ queue[1].op = "metaData"
    BY <2>2 DEF Structure, Closes
  <2>. QED
    BY <1>1, <2>1, <2>3
<1>8. queue' = <<>> => queue[1].op \in Ends \/ (queue[1].op = "metaData" /\ NoBackup)
  <2>1. queue' = <<>> => Len(queue) = 1
    BY <1>1
  <2>. QED
    BY <1>1, <2>1 DEF Structure, Closes
<1>9. ASSUME queue[1].op = "metaData", queue' # <<>> PROVE queue'[1].op \in Ends
  <2>1. c = 1 /\ 1 \in DOMAIN queue' /\ 1 + c \in DOMAIN queue /\ 1 + c # 1 /\ queue'[1].op = queue[1 + c].op
    <3>1. c = 1
      BY <1>1, <1>9
    <3>2. 1 \in DOMAIN queue' /\ 1 + c # 1
      BY <1>1, <1>9, <3>1
    <3>. QED
      BY <1>2, <3>1, <3>2
  <2>. QED
    BY <1>9, <2>1, FirstBlock
<1>. QED
  BY <1>5, <1>6, <1>7, <1>8, <1>9, <1>10

\* Blocks leave the lists, the homeserver and the response alone.
LEMMA BlockFrame ==
  ASSUME Types, Structure, queue # <<>>,
         UNCHANGED <<pos, left, phase, live, response, dirty, stateToCommit, toDelete, pendingCommits>>
  PROVE  /\ ListsFit' /\ Forgotten' /\ Tokens'
         /\ Answered' \/ (backupToken' = NilToken /\ backupToken' # backupToken)
         /\ LiveToken' = LiveToken /\ Loaded' /\ AtWork'
         /\ \A f \in Files : ~Listed(f)'
<1>1. /\ Loaded /\ AtWork /\ live[MetaFile] # Absent /\ MetaFile \notin dirty
      /\ \A f \in Files : ~Listed(f) /\ ~ListedIn(f)
  BY FirstBlock
<1>2. /\ LiveToken' = LiveToken /\ Loaded' /\ AtWork'
      /\ \A f : OpFor(f)' = OpFor(f) /\ Listed(f)' = Listed(f) /\ ListedIn(f)' = ListedIn(f)
  BY <1>1 DEF LiveToken, Loaded, AtWork, OpFor, Listed, ListedIn
<1>3. ListsFit' /\ Forgotten' /\ Tokens'
  BY <1>1, <1>2 DEF Structure, ListsFit, Forgotten, Tokens
<1>4. backupToken' # NilToken \/ backupToken' = backupToken => Answered'
  BY <1>2 DEF Structure, Answered
<1>. QED
  BY <1>1, <1>2, <1>3, <1>4

\* What a move leaves of the tokens.
LEMMA MovedTokens ==
  ASSUME Types, Types', Structure, Loaded, NEW F \in SUBSET Files, MoveToBackup(F),
         UNCHANGED <<pos, phase, live, backupToken>>
  PROVE  TokensKnown'
<1>1. /\ \A f \in Files : disk'[f] = IF Moves(F) /\ f \in F THEN Absent ELSE disk[f]
      /\ \A t \in Token, f \in Files :
              backup'[t][f] = IF Moves(F) /\ t = backupToken /\ f \in F THEN disk[f] ELSE backup[t][f]
  BY Moving DEF Types
<1>2. LiveToken' = LiveToken /\ Loaded' /\ backupToken \in Token /\ LiveToken \subseteq 1..pos
  BY DEF LiveToken, Loaded, Types, Typed, Structure, Tokens
<1>3. disk'[MetaFile] \in {Absent, disk[MetaFile]}
      /\ \A t \in Token : backup'[t][MetaFile] \in {disk[MetaFile], backup[t][MetaFile]}
  BY <1>1, FilesFacts
<1>4. \A t \in BackupTokens' : t \in BackupTokens \/ t = backupToken
  <2>1. \A t \in BackupTokens' : t \in Token /\ \E f \in Files : backup'[t][f] # Absent
    BY BackupTokensFacts DEF Types, BackupTokens, EmptyFolder, Typed, Folder
  <2>. QED
    BY <1>1, <2>1, BackupTokensFacts DEF Types
<1>5. /\ Stored(disk[MetaFile]) \subseteq LiveToken /\ backupToken \subseteq LiveToken
      /\ \A t \in Token : Stored(backup[t][MetaFile]) \subseteq 1..pos
      /\ \A t \in BackupTokens : t \subseteq LiveToken
  BY DEF Structure, TokensKnown
<1>6. Stored(disk'[MetaFile]) \subseteq LiveToken
  BY <1>3, <1>5, TokenFacts DEF NilToken
<1>7. \A t \in Token : Stored(backup'[t][MetaFile]) \subseteq 1..pos
  BY <1>2, <1>3, <1>5
<1>8. \A t \in BackupTokens' : t \subseteq LiveToken
  BY <1>4, <1>5
<1>. QED
  BY <1>2, <1>5, <1>6, <1>7, <1>8 DEF TokensKnown

LEMMA DeleteFolderStructure ==
  ASSUME Types, Types', Structure, NEW r \in Rooms, DeleteFolder(r)
  PROVE  /\ Structure' /\ Moves(RoomFolder(r)) /\ cursor = NoCursor
<1>1. /\ queue # <<>> /\ queue[1].op = "delete" /\ RoomFolder(r) \subseteq queue[1].todo
      /\ MoveToBackup(RoomFolder(r)) /\ queue' = Without(RoomFolder(r))
      /\ UNCHANGED <<pos, left, phase, live, response, dirty, stateToCommit, toDelete, pendingCommits,
                     cursor, backupToken>>
  BY DEF DeleteFolder, Running, Head1, QueueUnchanged, server, memory
<1>2. PICK F \in SUBSET Files : F = RoomFolder(r)
  BY RoomFilesFacts
<1>3. /\ Loaded /\ AtWork /\ 1 \in DOMAIN queue
      /\ \A f \in F : f # MetaFile /\ (live[f] = Absent \/ f \in Outgoing) /\ Queued(f) /\ InDelete(f)
  BY <1>1, <1>2, FirstBlock
<1>4. cursor = NoCursor
  BY <1>1 DEF Structure, CursorFits
<1>5. backupToken # NilToken
  BY <1>1, <1>3 DEF Structure, QueueFits
<1>6. Moves(F)
  BY <1>2, <1>3, <1>4, <1>5 DEF Moves, Structure, BackedUp, Types, Typed
<1>7. /\ \A f \in Files : disk'[f] = IF f \in F THEN Absent ELSE disk[f]
      /\ \A t \in Token, f \in Files : backup'[t][f] = IF t = backupToken /\ f \in F THEN disk[f] ELSE backup[t][f]
  BY <1>1, <1>2, <1>6, Moving DEF Types
<1>8. PICK c \in {0, 1} : Dealt(queue', queue, F, c)
  BY <1>1, <1>2, WithoutFacts DEF Types, Typed
<1>9. /\ QueueFits' /\ Closes' /\ queue' # <<>>
      /\ \A f \in Files : Queued(f)' => Queued(f)
      /\ \A f \in Files : f \notin F => (Queued(f)' <=> Queued(f))
      /\ \A f \in F : Queued(f)' => f \in Outgoing
      /\ \A f : InDelete(f)' => InDelete(f) /\ f \notin F
  BY <1>1, <1>2, <1>8, DealtFits DEF Ends
<1>10. /\ ListsFit' /\ Forgotten' /\ Tokens' /\ Answered' /\ LiveToken' = LiveToken /\ Loaded' /\ AtWork'
  BY <1>1, BlockFrame
<1>11. CursorFits' /\ \A f : ~BeingWritten(f) /\ ~BeingWritten(f)'
  BY <1>1, <1>4 DEF CursorFits, BeingWritten
<1>12. Named'
  BY <1>1, <1>3, <1>7, <1>11, FilesFacts DEF Structure, Named
<1>13. BackedUp'
  <2>1. ~Relabelled
    BY <1>1, <1>11 DEF Relabelled, Ends
  <2>. QED
    BY <1>1, <1>3, <1>7, <1>9, <1>11, <2>1 DEF Structure, BackedUp
<1>14. Rest'
  <2>1. \A f \in Files : ~Listed(f)
    BY <1>1, FirstBlock
  <2>. QED
    BY <1>1, <1>3, <1>7, <1>9, <2>1 DEF Structure, Rest
<1>15. TokensKnown'
  BY <1>1, <1>2, <1>3, MovedTokens
<1>. QED
  BY <1>2, <1>4, <1>6, <1>9, <1>10, <1>11, <1>12, <1>13, <1>14, <1>15 DEF Structure

\* A room that is in the queue is still there when its messages are saved.
LEMMA NothingSkipped ==
  ASSUME Types, Structure, NEW f \in Files, SkipFile(f)
  PROVE  FALSE
BY FirstBlock DEF SkipFile, Running, Head1

\* What the file that is being written is going to hold.
LEMMA BackupFileStructure ==
  ASSUME Types, Types', Structure, NEW f \in Files, BackupFile(f)
  PROVE  /\ Structure'
         /\ backupToken # NilToken => Moves({f}) \/ disk[f] = Absent
         /\ Queued(f) /\ (f = MetaFile <=> queue[1].op = "metaData") /\ cursor = NoCursor
<1>1. /\ queue # <<>> /\ queue[1].op \in {"messages", "state", "metaData"} /\ f \in queue[1].todo
      /\ cursor = NoCursor /\ MoveToBackup({f})
      /\ cursor' = [file |-> f, content |-> IF queue[1].op = "state" THEN queue[1].snapshot[f] ELSE Stored(live[f]),
                    labelled |-> queue[1].op # "metaData"]
      /\ UNCHANGED <<pos, left, phase, live, response, dirty, stateToCommit, toDelete, pendingCommits,
                     queue, backupToken>>
  BY DEF BackupFile, Running, Head1, QueueUnchanged, server, memory
<1>2. /\ Loaded /\ AtWork /\ 1 \in DOMAIN queue /\ Queued(f)
      /\ queue[1].op \in {"messages", "state"} => f # MetaFile /\ live[f] # Absent
      /\ queue[1].op = "metaData" => f = MetaFile
      /\ queue[1].op = "state" => queue[1].snapshot[f] = live[f]
      /\ live[MetaFile] # Absent /\ \A g \in Files : ~Listed(g) /\ ~InDelete(g)
  BY <1>1, FirstBlock
<1>3. \A g : ~BeingWritten(g)
  BY <1>1 DEF BeingWritten
<1>4. backupToken # NilToken => Moves({f}) \/ disk[f] = Absent
  BY <1>2, <1>3 DEF Moves, Structure, BackedUp, Types, Typed
<1>5. /\ \A g \in Files : disk'[g] = IF Moves({f}) /\ g = f THEN Absent ELSE disk[g]
      /\ \A t \in Token, g \in Files :
           backup'[t][g] = IF Moves({f}) /\ t = backupToken /\ g = f THEN disk[g] ELSE backup[t][g]
  <2>1. PICK F : F = {f}
    OBVIOUS
  <2>0. F \subseteq Files /\ MoveToBackup(F) /\ Typed
    BY <1>1, <2>1 DEF Types
  <2>2. /\ \A g \in Files : disk'[g] = IF Moves(F) /\ g \in F THEN Absent ELSE disk[g]
        /\ \A t \in Token, g \in Files :
             backup'[t][g] = IF Moves(F) /\ t = backupToken /\ g \in F THEN disk[g] ELSE backup[t][g]
    BY <2>0, Moving
  <2>. QED
    BY <2>1, <2>2
<1>6. /\ cursor'.file = f /\ cursor'.content = live[f] /\ cursor'.content # Absent
      /\ cursor'.labelled <=> queue[1].op # "metaData"
  BY <1>1, <1>2 DEF Stored
<1>7. cursor' # NoCursor /\ BeingWritten(f)' /\ \A g : BeingWritten(g)' => g = f
  BY <1>6 DEF NoCursor, BeingWritten
<1>8. /\ ListsFit' /\ Forgotten' /\ Tokens' /\ Answered' /\ LiveToken' = LiveToken /\ Loaded' /\ AtWork'
  BY <1>1, BlockFrame
<1>9. QueueFits' /\ \A g : Queued(g)' = Queued(g)
  <2>1. \A op, g : Fitting(op, g)' = Fitting(op, g)
    BY <1>1 DEF Fitting, OpFor
  <2>. QED
    BY <1>1, <2>1 DEF Structure, QueueFits, InOrder, Queued, Has
<1>10. Closes'
  <2> SUFFICES ASSUME queue[Len(queue)].op \notin Ends
               PROVE  Len(queue) = 1 /\ queue[1].op = "metaData" /\ NoBackup' /\ disk'[MetaFile] = Absent
    BY <1>1 DEF Closes
  <2>1. Len(queue) = 1 /\ queue[1].op = "metaData" /\ NoBackup /\ disk[MetaFile] = Absent
    BY <1>1 DEF Structure, Closes
  <2>. QED
    BY <1>2, <1>5, <2>1, FilesFacts DEF NoBackup
<1>11. CursorFits'
  <2>1. disk'[f] = Absent \/ Stored(disk'[MetaFile]) = NilToken
    <3>1. backupToken = NilToken => Stored(disk[MetaFile]) = NilToken
      BY <1>2, <1>3 DEF Structure, Named
    <3>. QED
      BY <1>4, <1>5, <3>1, FilesFacts
  <2>. QED
    BY <1>1, <1>6, <2>1 DEF CursorFits
<1>12. Named'
  <2>1. f # MetaFile => disk'[MetaFile] = disk[MetaFile]
    BY <1>5, FilesFacts
  <2>. QED
    BY <1>1, <1>2, <1>3, <1>7, <2>1 DEF Structure, Named
<1>13. BackedUp'
  <2>1. ~Relabelled /\ ~Relabelled'
    BY <1>1, <1>2, <1>3, <1>6, <1>7 DEF Relabelled, Ends
  <2>2. \A t \in Token \ {backupToken} : \A g \in Files : backup'[t][g] = Absent
    BY <1>2, <1>5, <2>1 DEF Structure, BackedUp
  <2>3. \A g \in Files : Queued(g) /\ g # f =>
          (\A t \in Token : backup'[t][g] = Absent) \/ (g \in Outgoing /\ disk'[g] = Absent)
    BY <1>3, <1>5 DEF Structure, BackedUp
  <2>4. \A g \in Files : ~InDelete(g)'
    BY <1>1, <1>2 DEF InDelete
  <2>. QED
    BY <1>1, <1>7, <1>9, <2>2, <2>3, <2>4 DEF BackedUp
<1>14. Rest'
  BY <1>1, <1>2, <1>5, <1>9 DEF Structure, Rest
<1>15. TokensKnown'
  <2>1. PICK F \in SUBSET Files : F = {f}
    OBVIOUS
  <2>. QED
    BY <1>1, <1>2, <2>1, MovedTokens
<1>. QED
  BY <1>1, <1>2, <1>4, <1>8, <1>9, <1>10, <1>11, <1>12, <1>13, <1>14, <1>15 DEF Structure

LEMMA LabelStructure ==
  ASSUME Types, Types', Structure, LabelBackups
  PROVE  Structure' /\ BeingWritten(MetaFile)
<1>1. /\ queue # <<>> /\ queue[1].op = "metaData" /\ cursor # NoCursor /\ ~cursor.labelled
      /\ backupToken' = LiveToken /\ cursor' = [cursor EXCEPT !.labelled = TRUE]
      /\ UNCHANGED <<pos, left, phase, live, response, dirty, stateToCommit, toDelete, pendingCommits,
                     queue, disk, backup>>
  BY DEF LabelBackups, Running, Head1, QueueUnchanged, server, memory, files
<1>2. /\ cursor.file \in queue[1].todo /\ cursor.content = live[cursor.file]
      /\ disk[cursor.file] = Absent \/ Stored(disk[MetaFile]) = NilToken
  BY <1>1 DEF Structure, CursorFits
<1>3. /\ Loaded /\ AtWork /\ cursor.file = MetaFile /\ \A i \in DOMAIN queue : i # 1 => queue[i].op \in Ends
      /\ \A g \in Files : ~Listed(g)
  BY <1>1, <1>2, FirstBlock
<1>4. cursor'.file = MetaFile /\ cursor'.content = cursor.content /\ cursor'.labelled = TRUE /\ cursor' # NoCursor
  BY <1>1, <1>3 DEF Types, Typed, Cursor, NoCursor
<1>5. \A g : BeingWritten(g)' <=> BeingWritten(g)
  BY <1>1, <1>3, <1>4 DEF BeingWritten
<1>6. /\ ListsFit' /\ Forgotten' /\ Tokens' /\ LiveToken' = LiveToken /\ Loaded' /\ AtWork'
      /\ backupToken' = NilToken \/ Answered'
  BY <1>1, BlockFrame
<1>7. Answered'
  <2>1. backupToken \subseteq LiveToken
    BY <1>3 DEF Structure, TokensKnown
  <2>. QED
    BY <1>1, <1>6, <2>1 DEF Structure, Answered, NilToken
<1>8. QueueFits' /\ Closes' /\ \A g : Queued(g)' = Queued(g) /\ InDelete(g)' = InDelete(g)
  <2>1. \A op, g : Fitting(op, g)' = Fitting(op, g)
    BY <1>1 DEF Fitting, OpFor
  <2>2. \A i \in DOMAIN queue : queue[i].op # "delete"
    BY <1>1, <1>3 DEF Ends
  <2>. QED
    BY <1>1, <2>1, <2>2 DEF Structure, QueueFits, InOrder, Queued, Has, InDelete, Closes, NoBackup
<1>9. CursorFits' /\ Named'
  BY <1>1, <1>2, <1>3, <1>4, <1>6 DEF CursorFits, Named, BeingWritten
<1>10. BackedUp'
  <2>1. Relabelled'
    BY <1>4 DEF Relabelled, BeingWritten
  <2>. QED
    BY <1>1, <1>5, <1>8, <2>1 DEF Structure, BackedUp
<1>11. Rest'
  BY <1>1, <1>3, <1>8 DEF Structure, Rest
<1>12. TokensKnown'
  <2>1. BackupTokens' = BackupTokens
    BY <1>1 DEF BackupTokens
  <2>. QED
    BY <1>1, <1>3, <1>6, <2>1 DEF Structure, TokensKnown
<1>. QED
  BY <1>1, <1>3, <1>6, <1>7, <1>8, <1>9, <1>10, <1>11, <1>12 DEF Structure, BeingWritten

LEMMA WriteFileStructure ==
  ASSUME Types, Types', Structure, WriteFile
  PROVE  /\ Structure' /\ backup' = backup /\ cursor # NoCursor
         /\ \A g \in Files : disk'[g] = IF g = cursor.file THEN live[g] ELSE disk[g]
<1>0. cursor # NoCursor
  BY DEF WriteFile, NoCursor
<1>1. PICK f \in Files : f = cursor.file
  BY DEF Types, Typed, Cursor
<1>2. /\ queue # <<>> /\ queue[1].op \in {"messages", "state", "metaData"} /\ cursor.labelled
      /\ disk' = [disk EXCEPT ![f] = IF queue[1].op = "state" \/ live[f] = Absent THEN cursor.content ELSE live[f]]
      /\ queue' = Without({f}) /\ cursor' = NoCursor
      /\ UNCHANGED <<pos, left, phase, live, response, dirty, stateToCommit, toDelete, pendingCommits,
                     backupToken, backup>>
  BY <1>1 DEF WriteFile, Running, Head1, QueueUnchanged, server, memory
<1>3. /\ f \in queue[1].todo /\ cursor.content = live[f]
      /\ queue[1].op = "metaData" => backupToken = LiveToken
  BY <1>0, <1>1, <1>2 DEF Structure, CursorFits
<1>4. /\ Loaded /\ AtWork /\ 1 \in DOMAIN queue /\ Queued(f) /\ live[MetaFile] # Absent
      /\ queue[1].op \in {"messages", "state"} => f # MetaFile
      /\ queue[1].op = "metaData" => f = MetaFile /\ queue[1].todo \subseteq {f}
      /\ \A g \in Files : ~Listed(g)
  BY <1>2, <1>3, FirstBlock
<1>5. \A g \in Files : disk'[g] = IF g = f THEN live[g] ELSE disk[g]
  <2>1. disk' = [disk EXCEPT ![f] = live[f]]
    BY <1>2, <1>3
  <2>. QED
    BY <2>1 DEF Types, Typed, Store, Folder
<1>6. PICK F \in SUBSET Files : F = {f}
  OBVIOUS
<1>7. PICK c \in {0, 1} : Dealt(queue', queue, F, c)
  BY <1>2, <1>6, WithoutFacts DEF Types, Typed
<1>8. /\ QueueFits' /\ Closes'
      /\ \A g \in Files : Queued(g)' <=> Queued(g) /\ g # f
      /\ \A g : InDelete(g)' => InDelete(g)
      /\ queue' = <<>> => queue[1].op = "metaData" /\ NoBackup
      /\ queue[1].op = "metaData" /\ queue' # <<>> => queue'[1].op \in Ends
  <2>1. F \subseteq queue[1].todo /\ queue[1].op \notin Ends \cup {"delete"} /\ (queue[1].op = "metaData" => queue[1].todo \subseteq F)
    BY <1>2, <1>3, <1>4, <1>6 DEF Ends
  <2>2. /\ QueueFits' /\ Closes' /\ \A g \in Files : g \notin F => (Queued(g)' <=> Queued(g))
        /\ \A g \in F : Queued(g)' => g \in Outgoing /\ queue[1].op = "delete"
        /\ \A g : InDelete(g)' => InDelete(g)
        /\ queue' = <<>> => queue[1].op \in Ends \/ (queue[1].op = "metaData" /\ NoBackup)
        /\ queue[1].op \in {"metaData"} \cup Ends /\ queue' # <<>> => queue[1].op \in Ends \/ queue'[1].op \in Ends
    BY <1>2, <1>7, <2>1, DealtFits
  <2>. QED
    BY <1>6, <2>1, <2>2
<1>9. /\ ListsFit' /\ Forgotten' /\ Tokens' /\ Answered' /\ LiveToken' = LiveToken /\ Loaded' /\ AtWork'
  BY <1>2, BlockFrame
<1>10. CursorFits' /\ \A g : ~BeingWritten(g)' /\ (BeingWritten(g) <=> g = f)
  BY <1>0, <1>1, <1>2 DEF CursorFits, BeingWritten
<1>11. Stored(live[MetaFile]) = LiveToken
  BY LiveTokenTyped DEF Types
<1>12. Named'
  <2>1. CASE f = MetaFile
    BY <1>2, <1>3, <1>4, <1>5, <1>11, <2>1, FilesFacts DEF Named
  <2>2. CASE f # MetaFile
    BY <1>2, <1>4, <1>5, <1>10, <2>2, FilesFacts DEF Structure, Named
  <2>. QED
    BY <2>1, <2>2
<1>13. BackedUp'
  <2>1. queue' = <<>> => \A t \in Token : \A g \in Files : backup[t][g] = Absent
    BY <1>8 DEF NoBackup
  <2>2. ~Relabelled' => queue' = <<>> \/ ~Relabelled
    <3>1. queue[1].op # "metaData" => ~Relabelled
      BY <1>2, <1>4, <1>10 DEF Relabelled, Ends
    <3>. QED
      BY <1>8, <3>1 DEF Relabelled
  <2>. QED
    BY <1>2, <1>4, <1>8, <1>10, <2>1, <2>2 DEF Structure, BackedUp, NoBackup
<1>14. Rest'
  BY <1>2, <1>4, <1>5, <1>8 DEF Structure, Rest
<1>15. TokensKnown'
  <2>1. BackupTokens' = BackupTokens /\ (disk'[MetaFile] = disk[MetaFile] \/ disk'[MetaFile] = live[MetaFile])
    BY <1>2, <1>5, FilesFacts DEF BackupTokens
  <2>2. LiveToken \subseteq 1..pos
    BY DEF Structure, Tokens
  <2>. QED
    BY <1>2, <1>4, <1>9, <1>11, <2>1, <2>2 DEF Structure, TokensKnown
<1>. QED
  BY <1>0, <1>1, <1>2, <1>5, <1>8, <1>9, <1>10, <1>12, <1>13, <1>14, <1>15 DEF Structure

LEMMA RemoveStructure ==
  ASSUME Types, Types', Structure, RemoveBackup
  PROVE  Structure'
<1>1. /\ queue # <<>> /\ queue[1].op \in Ends
      /\ UNCHANGED <<pos, left, phase, live, response, dirty, stateToCommit, toDelete, pendingCommits,
                     cursor, backupToken, disk>>
      /\ \/ queue' = Tail(queue) /\ backup' = backup /\ BackupTokens = {}
         \/ queue' = queue /\ \E t \in Token, f \in Files : backup' = [backup EXCEPT ![t][f] = Absent]
  BY DEF RemoveBackup, Running, Head1, QueueUnchanged, server, memory, Ends, BackupTokens
<1>2. CASE queue' = queue /\ \E t \in Token, f \in Files : backup' = [backup EXCEPT ![t][f] = Absent]
  BY <1>1, <1>2, BackupShrinks
<1>3. CASE queue' = Tail(queue) /\ backup' = backup /\ BackupTokens = {}
  <2>1. Loaded /\ AtWork /\ 1 \in DOMAIN queue /\ \A f \in Files : ~Listed(f)
    BY <1>1, FirstBlock
  <2>2. PICK F \in SUBSET Files : F = queue[1].todo
    <3>1. queue[1] \in Block
      BY <2>1 DEF Types, Typed
    <3>. QED
      BY <3>1 DEF Block
  <2>3. F = {}
    BY <1>1, <2>1, <2>2 DEF Structure, QueueFits
  <2>4. queue' = Without(F)
    BY <1>3, <2>2 DEF Without, Head1
  <2>5. PICK c \in {0, 1} : Dealt(queue', queue, F, c)
    BY <1>1, <2>4, WithoutFacts DEF Types, Typed
  <2>6. QueueFits' /\ Closes' /\ \A f \in Files : (Queued(f)' <=> Queued(f)) /\ (InDelete(f)' => InDelete(f))
    BY <1>1, <2>2, <2>3, <2>5, DealtFits DEF Ends
  <2>7. /\ ListsFit' /\ Forgotten' /\ Tokens' /\ Answered' /\ LiveToken' = LiveToken /\ Loaded' /\ AtWork'
    BY <1>1, BlockFrame
  <2>8. cursor = NoCursor
    BY <1>1 DEF Structure, CursorFits, Ends
  <2>9. CursorFits' /\ Named'
    BY <1>1, <2>1, <2>8 DEF CursorFits, Structure, Named, BeingWritten
  <2>10. NoBackup /\ BackupTokens' = BackupTokens
    BY <1>3, BackupTokensFacts DEF Types, BackupTokens
  <2>11. BackedUp' /\ Rest' /\ TokensKnown'
    BY <1>1, <1>3, <2>1, <2>6, <2>7, <2>10 DEF Structure, NoBackup, BackedUp, Rest, TokensKnown
  <2>. QED
    BY <2>6, <2>7, <2>9, <2>11 DEF Structure
<1>. QED
  BY <1>1, <1>2, <1>3

LEMMA QueueStructure ==
  ASSUME Types, Types', Structure, QueueStep
  PROVE  Structure'
<1>1. ASSUME NEW r \in Rooms, DeleteFolder(r) PROVE Structure'
  BY <1>1, DeleteFolderStructure
<1>2. ASSUME NEW f \in Files, SkipFile(f) PROVE Structure'
  BY <1>2, NothingSkipped
<1>3. ASSUME NEW f \in Files, BackupFile(f) PROVE Structure'
  BY <1>3, BackupFileStructure
<1>4. CASE LabelBackups
  BY <1>4, LabelStructure
<1>5. CASE WriteFile
  BY <1>5, WriteFileStructure
<1>6. CASE RemoveBackup
  BY <1>6, RemoveStructure
<1>. QED
  BY <1>1, <1>2, <1>3, <1>4, <1>5, <1>6 DEF QueueStep

LEMMA StructureKept ==
  ASSUME ~Overlapping, Types, Types', Structure, [Next]_vars
  PROVE  Structure'
<1>1. CASE UNCHANGED vars
  <2>1. /\ UNCHANGED <<pos, left, phase, live, response, dirty, stateToCommit, toDelete, pendingCommits,
                       queue, cursor, backupToken, disk, backup>>
    BY <1>1 DEF vars, server, memory, commits, files
  <2>2. Forgotten' /\ ListsFit' /\ QueueFits' /\ Closes' /\ CursorFits' /\ Named' /\ BackedUp' /\ Rest'
    BY <2>1, SameCommit
  <2>3. LiveToken' = LiveToken /\ Loaded' = Loaded /\ BackupTokens' = BackupTokens
    BY <2>1 DEF LiveToken, Loaded, BackupTokens
  <2>4. Tokens' /\ Answered' /\ TokensKnown'
    BY <2>1, <2>3 DEF Structure, Tokens, Answered, TokensKnown
  <2>. QED
    BY <2>2, <2>4 DEF Structure
<1>2. CASE Handling
  BY <1>2, StoreRoomStructure, DeleteRoomStructure, StoreOutgoingStructure, SetTokenStructure DEF Handling
<1>. QED
  BY <1>1, <1>2, ServerStructure, OpeningStructure, ReceiveStructure, CommitStructure, QueueStructure DEF Next

LEMMA StructureHolds == ASSUME ~Overlapping PROVE Spec => [](Types /\ Structure)
<1>1. Init => Types /\ Structure
  BY InitTyped, InitStructure
<1>2. Types /\ Structure /\ [Next]_vars => (Types /\ Structure)'
  BY TypesKept, StructureKept
<1>. QED
  BY <1>1, <1>2, PTL DEF Spec

\* What the queue does to a file it changes.
LEMMA BackedUpFirst ==
  ASSUME ~Overlapping, Types, Types', Structure, Next, AtWork, Stored(disk[MetaFile]) # NilToken, phase' # "down",
         NEW f \in Files, disk[f] # Absent, disk'[f] # disk[f]
  PROVE  backup'[backupToken][f] = disk[f]
<1>1. backupToken \in Token
  BY DEF Types, Typed
<1>2. ASSUME NEW r \in Rooms, DeleteFolder(r)
      PROVE  backup'[backupToken][f] = disk[f]
  <2>1. MoveToBackup(RoomFolder(r)) /\ Moves(RoomFolder(r)) /\ RoomFolder(r) \subseteq Files
    BY <1>2, DeleteFolderStructure, RoomFilesFacts DEF DeleteFolder
  <2>. QED
    BY <1>1, <2>1, Moving DEF Types
<1>3. ASSUME NEW g \in Files, BackupFile(g)
      PROVE  backup'[backupToken][f] = disk[f]
  <2>1. MoveToBackup({g})
    BY <1>3 DEF BackupFile
  <2>. QED
    BY <1>1, <2>1, Moving DEF Types
<1>4. CASE WriteFile
  <2>1. cursor # NoCursor /\ f = cursor.file
    BY <1>4, WriteFileStructure
  <2>. QED
    BY <2>1 DEF Structure, CursorFits
<1>5. ASSUME disk' = disk PROVE FALSE
  BY <1>5
<1>6. CASE QueueStep
  <2>1. ASSUME NEW g \in Files, SkipFile(g) PROVE FALSE
    BY <2>1, <1>5 DEF SkipFile, files
  <2>2. CASE LabelBackups \/ RemoveBackup
    BY <1>5, <2>2 DEF LabelBackups, RemoveBackup, files
  <2>. QED
    BY <1>2, <1>3, <1>4, <1>6, <2>1, <2>2 DEF QueueStep
<1>7. CASE Opening
  BY <1>5, <1>7 DEF Opening, RestoreFile, LoadAfterRestore, RemoveRestoredBackup, LoadIntact, StartWipe, Wipe,
                    AtWork, files
<1>. QED
  BY <1>5, <1>6, <1>7 DEF Next, ServerEvent, ServerLeave, Open, ReceiveResponse, Handling, StoreRoom, DeleteRoom, StoreOutgoing,
     SetEventStreamToken, Commit, CommitIgnored, CommitDone, Close, Closed, Crash, files

\* If nothing is stored while a commit runs, the queue never destroys the old content of a
\* file: moveItemAtPath has put it in the backup of the token it was written with.
THEOREM OldContentIsBackedUp == ASSUME ~Overlapping PROVE Spec => BackupBeforeWrite
<1>1. ASSUME Types, Types', Structure, [Next]_vars
      PROVE  [(phase \in {"up", "closing"} /\ Stored(disk[MetaFile]) # NilToken /\ phase' # "down") =>
                \A f \in Files : (disk[f] # Absent /\ disk'[f] # disk[f])
                                   => backup'[backupToken][f] = disk[f]]_vars
  BY <1>1, BackedUpFirst DEF AtWork
<1>. QED
  BY <1>1, StructureHolds, PTL DEF BackupBeforeWrite, Spec

(***************************************************************************)
(* What the files hold, when the process does not die inside deleteAllData.*)
(***************************************************************************)
\* The content c of a file fits the token t, for a room with the events tl left at l.
Fits(l, tl, t, c) ==
  /\ l = 0 => tl \cap t \subseteq Stored(c)
  /\ l \in t => c = Absent
\* What the live data of a room have to fit: its part of the response may be still to be handled.
Due(r) == LiveToken \cup (IF r \in response.joined \cup response.left THEN {} ELSE response.to)

LiveFits ==
  Loaded => \A r \in Rooms : \A f \in RoomFiles(r) : Fits(left[r], timeline[r], Due(r), live[f])
BackupFits ==
  phase # "wiping" =>
    \A t \in Token : \A r \in Rooms : \A f \in RoomFiles(r) :
      backup[t][f] # Absent => Fits(left[r], timeline[r], t, backup[t][f])
DiskFits ==
  phase # "wiping" =>
    \A r \in Rooms : \A f \in RoomFiles(r) :
      /\ \A t \in BackupTokens : backup[t][f] = Absent => Fits(left[r], timeline[r], t, disk[f])
      /\ BackupTokens = {} => Fits(left[r], timeline[r], Stored(disk[MetaFile]), disk[f])
Sound == LiveFits /\ BackupFits /\ DiskFits

\* A file that a step leaves as the live data are fits every token there is.
LEMMA LiveFileFits ==
  ASSUME Structure', LiveFits', Loaded', NEW r \in Rooms, NEW f \in RoomFiles(r), disk'[f] = live'[f]
  PROVE  /\ \A t \in BackupTokens' : Fits(left'[r], timeline'[r], t, disk'[f])
         /\ Fits(left'[r], timeline'[r], Stored(disk'[MetaFile]), disk'[f])
<1>1. Fits(left'[r], timeline'[r], Due(r)', disk'[f])
  BY DEF LiveFits
<1>2. LiveToken' \subseteq Due(r)'
  BY DEF Due
<1>3. (\A t \in BackupTokens' : t \subseteq LiveToken') /\ Stored(disk'[MetaFile]) \subseteq LiveToken'
  BY DEF Structure, TokensKnown
<1>4. ASSUME NEW t, t \subseteq LiveToken' PROVE Fits(left'[r], timeline'[r], t, disk'[f])
  BY <1>1, <1>2, <1>4 DEF Fits
<1>. QED
  BY <1>3, <1>4

LEMMA InitSound == Init => Sound
<1> SUFFICES ASSUME Init PROVE Sound
  OBVIOUS
<1>1. ~Loaded
  BY DEF Init, Loaded
<1>2. \A t \in Token : \A f \in Files : backup[t][f] = Absent
  BY EmptyFolderFacts DEF Init
<1>3. BackupTokens = {} /\ Stored(disk[MetaFile]) = {}
  BY EmptyFolderFacts, FilesFacts, TokenFacts DEF Init, BackupTokens, NilToken
<1>4. \A r \in Rooms : \A f \in RoomFiles(r) : f \in Files
  BY RoomFilesFacts
<1>5. \A l, tl, c : Fits(l, tl, {}, c)
  BY DEF Fits
<1>. QED
  BY <1>1, <1>2, <1>3, <1>4, <1>5 DEF Sound, LiveFits, BackupFits, DiskFits

LEMMA ServerSound ==
  ASSUME Types, Structure, Sound, NEW s \in Rooms, ServerEvent(s) \/ ServerLeave(s)
  PROVE  Sound'
<1>1. /\ UNCHANGED <<phase, live, response, disk, backup>> /\ pos \in Nat
      /\ \/ timeline' = [timeline EXCEPT ![s] = @ \cup {pos + 1}] /\ left' = left
         \/ left' = [left EXCEPT ![s] = pos + 1] /\ timeline' = timeline /\ left[s] = 0
  BY MaxPosAssumption DEF ServerEvent, ServerLeave, memory, files, Types, Typed
<1>2. Loaded' = Loaded /\ LiveToken' = LiveToken /\ BackupTokens' = BackupTokens /\ \A r : Due(r)' = Due(r)
  BY <1>1 DEF Loaded, LiveToken, BackupTokens, Due
<1>3. ASSUME NEW r \in Rooms, NEW t, NEW c, t \subseteq 1..pos, Fits(left[r], timeline[r], t, c)
      PROVE  Fits(left'[r], timeline'[r], t, c)
  <2>1. pos + 1 \notin t /\ pos + 1 # 0
    BY <1>1, <1>3
  <2>2. \/ left'[r] = left[r] /\ timeline'[r] \subseteq timeline[r] \cup {pos + 1}
        \/ left'[r] = pos + 1
    BY <1>1 DEF Types, Typed
  <2>. QED
    BY <1>3, <2>1, <2>2 DEF Fits
<1>4. /\ \A r : Due(r) \subseteq 1..pos
      /\ \A t \in BackupTokens : t \subseteq 1..pos
      /\ Stored(disk[MetaFile]) \subseteq 1..pos
  BY DEF Structure, Tokens, TokensKnown, Due
<1>5. LiveFits'
  BY <1>1, <1>2, <1>3, <1>4 DEF Sound, LiveFits
<1>6. \A t \in Token : \A r \in Rooms : \A f \in RoomFiles(r) : backup[t][f] # Absent => t \in BackupTokens
  BY BackupTokensFacts, RoomFilesFacts DEF Types
<1>7. BackupFits'
  BY <1>1, <1>3, <1>4, <1>6 DEF Sound, BackupFits
<1>8. DiskFits'
  BY <1>1, <1>2, <1>3, <1>4 DEF Sound, DiskFits
<1>. QED
  BY <1>5, <1>7, <1>8 DEF Sound

\* Steps that leave the files and the homeserver alone.
LEMMA SameFiles ==
  ASSUME Sound, UNCHANGED <<timeline, left, disk, backup>>, phase = "wiping" => phase' = "wiping"
  PROVE  BackupFits' /\ DiskFits'
<1>1. BackupTokens' = BackupTokens
  BY DEF BackupTokens
<1>. QED
  BY <1>1 DEF Sound, BackupFits, DiskFits

LEMMA OpeningSound ==
  ASSUME Types, Types', Structure, Structure', Sound, Open \/ Opening
  PROVE  Sound'
<1>1. CASE Open \/ StartWipe
  <2>1. ~Loaded' /\ phase # "wiping" /\ UNCHANGED <<timeline, left, disk, backup>>
    BY <1>1 DEF Open, StartWipe, Loaded, server, files
  <2>. QED
    BY <2>1, SameFiles DEF Sound, LiveFits
<1>2. ASSUME NEW f \in Files, RestoreFile(f)
      PROVE  Sound'
  <2>1. PICK t \in Token : BackupTokens = {t} /\ disk' = [disk EXCEPT ![f] = backup[t][f]] /\ backup[t][f] # Absent
    BY <1>2 DEF RestoreFile
  <2>2. phase = "opening" /\ phase' = phase /\ UNCHANGED <<timeline, left, backup>>
    BY <1>2 DEF RestoreFile, server
  <2>3. ~Loaded' /\ BackupTokens' = BackupTokens
    BY <2>2 DEF Loaded, BackupTokens
  <2>4. \A g \in Files : backup[t][g] = Absent => disk'[g] = disk[g]
    BY <2>1 DEF Types, Typed, Store, Folder
  <2>5. \A r \in Rooms : \A g \in RoomFiles(r) : g \in Files
    BY RoomFilesFacts
  <2>. QED
    BY <2>1, <2>2, <2>3, <2>4, <2>5 DEF Sound, LiveFits, BackupFits, DiskFits
<1>3. CASE LoadAfterRestore \/ LoadIntact
  <2>1. /\ phase = "opening" /\ live' = disk /\ response' = response /\ Stored(disk[MetaFile]) # NilToken
        /\ UNCHANGED <<timeline, left, disk, backup>>
        /\ \/ BackupTokens = {}
           \/ \E t \in Token : BackupTokens = {t} /\ disk = Restored(t) /\ disk[MetaFile] = t
    BY <1>3 DEF LoadAfterRestore, LoadIntact, LoadMetaData, server, files
  <2>2. BackupFits' /\ DiskFits'
    BY <2>1, SameFiles
  <2>3. LiveToken' = Stored(disk[MetaFile]) /\ response = Idle
    BY <2>1, TokenFacts DEF LiveToken, Stored, Structure, Forgotten, AtWork
  <2>4. \A r : Due(r)' = Stored(disk[MetaFile])
    BY <2>1, <2>3, IdleFacts DEF Due, NilToken
  <2>5. ASSUME NEW r \in Rooms, NEW f \in RoomFiles(r)
        PROVE  Fits(left[r], timeline[r], Stored(disk[MetaFile]), disk[f])
    <3>1. CASE BackupTokens = {}
      BY <2>1, <3>1 DEF Sound, DiskFits
    <3>2. ASSUME NEW t \in Token, BackupTokens = {t}, disk = Restored(t), disk[MetaFile] = t
          PROVE  Fits(left[r], timeline[r], Stored(disk[MetaFile]), disk[f])
      <4>1. Stored(disk[MetaFile]) = t /\ f \in Files
        BY <3>2, TokenFacts, RoomFilesFacts
      <4>2. CASE backup[t][f] = Absent
        BY <2>1, <3>2, <4>1, <4>2 DEF Sound, DiskFits
      <4>3. CASE backup[t][f] # Absent
        <5>1. disk[f] = backup[t][f]
          BY <3>2, <4>1, <4>3 DEF Restored
        <5>. QED
          BY <2>1, <4>1, <4>3, <5>1 DEF Sound, BackupFits
      <4>. QED
        BY <4>2, <4>3
    <3>. QED
      BY <2>1, <3>1, <3>2
  <2>6. LiveFits'
    BY <2>1, <2>4, <2>5 DEF LiveFits
  <2>. QED
    BY <2>2, <2>6 DEF Sound
<1>4. CASE RemoveRestoredBackup
  <2>1. /\ UNCHANGED <<timeline, left, live, response, disk>> /\ phase = "repaired" /\ phase' \in {"repaired", "up"}
        /\ \/ backup' = backup
           \/ \E t \in Token, f \in Files : backup' = [backup EXCEPT ![t][f] = Absent]
    BY <1>4 DEF RemoveRestoredBackup, BackupTokens, server, memory
  <2>2. Loaded /\ Loaded' /\ LiveToken' = LiveToken /\ \A r : Due(r)' = Due(r)
    BY <2>1 DEF Loaded, LiveToken, Due
  <2>3. LiveFits'
    BY <2>1, <2>2 DEF Sound, LiveFits
  <2>4. \A u \in Token, g \in Files : backup'[u][g] = backup[u][g] \/ backup'[u][g] = Absent
    BY <2>1, BackupExcept DEF Types
  <2>5. BackupFits'
    <3>1. \A r \in Rooms : \A g \in RoomFiles(r) : g \in Files
      BY RoomFilesFacts
    <3>. QED
      BY <2>1, <2>4, <3>1 DEF Sound, BackupFits
  <2>6. \A f \in Files : ~Listed(f) /\ ~Queued(f)
    BY <2>1, EmptyFolderFacts DEF Structure, Forgotten, AtWork, Listed, ListedIn, Queued, Has
  <2>7. \A r \in Rooms : \A f \in RoomFiles(r) : disk'[f] = live'[f]
    BY <2>1, <2>2, <2>6, RoomFilesFacts, OutgoingFacts DEF Structure, Rest
  <2>8. DiskFits'
    BY <2>2, <2>3, <2>7, LiveFileFits DEF DiskFits
  <2>. QED
    BY <2>3, <2>5, <2>8 DEF Sound
<1>5. CASE Wipe
  <2>1. CASE phase' = "wiping"
    BY <2>1 DEF Sound, LiveFits, BackupFits, DiskFits, Loaded
  <2>2. CASE /\ live' = [EmptyFolder EXCEPT ![MetaFile] = NilToken] /\ UNCHANGED files
             /\ disk = EmptyFolder /\ BackupTokens = {}
    <3>1. response' = Idle
      BY <1>5 DEF Wipe, Structure, Forgotten, AtWork
    <3>2. live'[MetaFile] = NilToken
      BY <2>2, EmptyFolderFacts, FilesFacts DEF Folder
    <3>3. \A r : Due(r)' = {}
      BY <3>1, <3>2, TokenFacts, IdleFacts DEF Due, LiveToken, NilToken
    <3>4. \A l, tl, c : Fits(l, tl, {}, c)
      BY DEF Fits
    <3>5. NoBackup /\ BackupTokens' = {} /\ UNCHANGED <<disk, backup>>
      BY <2>2, BackupTokensFacts DEF Types, BackupTokens, files
    <3>6. Stored(disk'[MetaFile]) = {}
      BY <2>2, <3>5, EmptyFolderFacts, FilesFacts, TokenFacts DEF NilToken
    <3>7. \A r \in Rooms : \A g \in RoomFiles(r) : g \in Files
      BY RoomFilesFacts
    <3>. QED
      BY <3>3, <3>4, <3>5, <3>6, <3>7 DEF Sound, LiveFits, BackupFits, DiskFits, NoBackup
  <2>. QED
    BY <1>5, <2>1, <2>2 DEF Wipe
<1>. QED
  BY <1>1, <1>2, <1>3, <1>4, <1>5 DEF Opening

LEMMA HandlingSound ==
  ASSUME ~Overlapping, Types, Structure, Sound, ReceiveResponse \/ Handling
  PROVE  Sound'
<1>1. CASE ReceiveResponse
  <2>1. /\ phase' = phase /\ phase = "up" /\ response = Idle /\ response'.to = 1..pos
        /\ response'.joined = {r \in Rooms : left[r] = 0 /\ Unread(r) # {}}
        /\ response'.left = {r \in Rooms : left[r] > 0 /\ left[r] \notin LiveToken /\ LiveToken # NilToken}
        /\ UNCHANGED <<timeline, left, live, disk, backup>>
    BY <1>1 DEF ReceiveResponse, CanStore, OnMain, server, files
  <2>2. BackupFits' /\ DiskFits'
    BY <2>1, SameFiles
  <2>3. Loaded /\ LiveToken' = LiveToken /\ \A r : Due(r) = LiveToken
    BY <2>1, IdleFacts DEF Loaded, LiveToken, Due, NilToken
  <2>4. ASSUME NEW r \in Rooms, NEW f \in RoomFiles(r)
        PROVE  Fits(left'[r], timeline'[r], Due(r)', live'[f])
    <3>1. Fits(left[r], timeline[r], LiveToken, live[f])
      BY <2>3 DEF Sound, LiveFits
    <3>2. CASE r \in response'.joined \cup response'.left
      BY <2>1, <2>3, <3>1, <3>2 DEF Due
    <3>3. CASE r \notin response'.joined \cup response'.left /\ left[r] = 0
      <4>1. timeline[r] \subseteq LiveToken
        BY <2>1, <3>3 DEF Unread
      <4>2. 0 \notin LiveToken \cup 1..pos
        BY MaxPosAssumption DEF Structure, Tokens, Types, Typed
      <4>3. Due(r)' = LiveToken \cup 1..pos
        BY <2>1, <2>3, <3>3 DEF Due
      <4>. QED
        BY <2>1, <3>1, <3>3, <4>1, <4>2, <4>3 DEF Fits
    <3>4. CASE r \notin response'.joined \cup response'.left /\ left[r] # 0
      <4>1. left[r] > 0
        BY <3>4, MaxPosAssumption DEF Types, Typed
      <4>2. CASE left[r] \in LiveToken
        BY <2>1, <3>1, <3>4, <4>2 DEF Fits
      <4>3. CASE LiveToken = NilToken
        <5>1. live[f] = Absent
          BY <2>1, <4>3, IdleFacts, RoomFilesFacts DEF Structure, Answered
        <5>. QED
          BY <2>1, <3>4, <5>1 DEF Fits
      <4>. QED
        BY <2>1, <3>4, <4>1, <4>2, <4>3
    <3>. QED
      BY <3>2, <3>3, <3>4
  <2>. QED
    BY <2>2, <2>4 DEF Sound, LiveFits
<1>2. ASSUME NEW s \in Rooms, StoreRoom(s)
      PROVE  Sound'
  <2>1. /\ phase' = phase /\ phase = "up" /\ s \in response.joined
        /\ response' = [response EXCEPT !.joined = @ \ {s}]
        /\ UNCHANGED <<timeline, left, disk, backup>>
    BY <1>2 DEF StoreRoom, CanStore, OnMain, server, files
  <2>2. BackupFits' /\ DiskFits'
    BY <2>1, SameFiles
  <2>3. response'.to = response.to /\ response'.left = response.left /\ response'.joined = response.joined \ {s}
    BY <2>1 DEF Types, Typed, Response
  <2>4. /\ \A f \in Files : live'[f] = IF f \in RoomFiles(s) THEN New(s, f) ELSE live[f]
        /\ \A f \in RoomFiles(s) : Stored(New(s, f)) = New(s, f)
    BY <1>2, StoringRoom DEF Types
  <2>5. Loaded /\ LiveToken' = LiveToken
    BY <2>1, <2>4, FilesFacts, RoomFilesFacts DEF Loaded, LiveToken
  <2>6. /\ \A r : r # s => Due(r)' = Due(r)
        /\ Due(s) = LiveToken /\ Due(s)' \subseteq LiveToken \cup response.to
    BY <2>1, <2>3, <2>5 DEF Due
  <2>7. left[s] \notin LiveToken \cup response.to
    BY <2>1 DEF Structure, Answered
  <2>8. ASSUME NEW r \in Rooms, NEW f \in RoomFiles(r)
        PROVE  Fits(left'[r], timeline'[r], Due(r)', live'[f])
    <3>0. f \in Files /\ (r # s => f \notin RoomFiles(s)) /\ Fits(left[r], timeline[r], Due(r), live[f])
      BY <2>5, RoomFilesFacts DEF Sound, LiveFits
    <3>1. CASE r # s
      BY <2>1, <2>4, <2>6, <3>0, <3>1
    <3>2. CASE r = s
      <4>1. live'[f] = New(s, f) /\ Stored(live'[f]) = Stored(live[f]) \cup (Unread(s) \cap response.to)
        BY <2>4, <3>0, <3>2 DEF New
      <4>2. left[s] = 0 => timeline[s] \cap LiveToken \subseteq Stored(live[f])
        BY <2>6, <3>0, <3>2 DEF Fits
      <4>3. timeline[s] \cap (LiveToken \cup response.to)
              \subseteq (timeline[s] \cap LiveToken) \cup (Unread(s) \cap response.to)
        BY DEF Unread
      <4>. QED
        BY <2>1, <2>6, <2>7, <3>2, <4>1, <4>2, <4>3 DEF Fits
    <3>. QED
      BY <3>1, <3>2
  <2>. QED
    BY <2>2, <2>8 DEF Sound, LiveFits
<1>3. ASSUME NEW s \in Rooms, DeleteRoom(s)
      PROVE  Sound'
  <2>1. /\ phase' = phase /\ phase = "up" /\ s \in response.left
        /\ response' = [response EXCEPT !.left = @ \ {s}]
        /\ UNCHANGED <<timeline, left, disk, backup>>
    BY <1>3 DEF DeleteRoom, CanStore, OnMain, server, files
  <2>2. BackupFits' /\ DiskFits'
    BY <2>1, SameFiles
  <2>3. response'.to = response.to /\ response'.joined = response.joined /\ response'.left = response.left \ {s}
    BY <2>1 DEF Types, Typed, Response
  <2>4. \A f \in Files : live'[f] = IF f \in RoomFiles(s) THEN Absent ELSE live[f]
    BY <1>3, DeletingRoom DEF Types
  <2>5. Loaded /\ LiveToken' = LiveToken
    BY <2>1, <2>4, FilesFacts, RoomFilesFacts DEF Loaded, LiveToken
  <2>6. \A r : r # s => Due(r)' = Due(r)
    BY <2>1, <2>3, <2>5 DEF Due
  <2>7. left[s] # 0
    <3>1. left[s] \in response.to /\ response.to \subseteq 1..pos
      BY <2>1 DEF Structure, Answered, Tokens
    <3>. QED
      BY <3>1
  <2>8. ASSUME NEW r \in Rooms, NEW f \in RoomFiles(r)
        PROVE  Fits(left'[r], timeline'[r], Due(r)', live'[f])
    <3>0. f \in Files /\ (r # s => f \notin RoomFiles(s)) /\ Fits(left[r], timeline[r], Due(r), live[f])
      BY <2>5, RoomFilesFacts DEF Sound, LiveFits
    <3>1. CASE r # s
      BY <2>1, <2>4, <2>6, <3>0, <3>1
    <3>2. CASE r = s
      BY <2>1, <2>4, <2>7, <3>0, <3>2 DEF Fits
    <3>. QED
      BY <3>1, <3>2
  <2>. QED
    BY <2>2, <2>8 DEF Sound, LiveFits
<1>4. CASE SetEventStreamToken
  <2>1. /\ phase' = phase /\ phase = "up" /\ response.joined = {} /\ response.left = {} /\ CanStore
        /\ UNCHANGED <<timeline, left, disk, backup>>
    BY <1>4 DEF SetEventStreamToken, CanStore, OnMain, server, files
  <2>2. BackupFits' /\ DiskFits'
    BY <2>1, SameFiles
  <2>3. Loaded /\ live[MetaFile] # Absent
    BY <2>1, StoringFacts
  <2>4. /\ \A f \in Files : f # MetaFile => live'[f] = live[f]
        /\ LiveToken' = response.to /\ response'.to = NilToken
    BY <1>4, <2>3, SettingToken DEF Types
  <2>5. \A r : Due(r)' \subseteq Due(r)
    BY <2>1, <2>4 DEF Due, NilToken
  <2>6. ASSUME NEW r \in Rooms, NEW f \in RoomFiles(r)
        PROVE  Fits(left'[r], timeline'[r], Due(r)', live'[f])
    <3>1. Fits(left[r], timeline[r], Due(r), live[f]) /\ live'[f] = live[f]
      BY <2>3, <2>4, RoomFilesFacts DEF Sound, LiveFits
    <3>. QED
      BY <2>1, <2>5, <3>1 DEF Fits
  <2>. QED
    BY <2>2, <2>6 DEF Sound, LiveFits
<1>5. ASSUME NEW s \in Rooms, StoreOutgoing(s)
      PROVE  Sound'
  <2>1. /\ phase' = phase /\ phase = "up" /\ response' = response
        /\ UNCHANGED <<timeline, left, disk, backup>>
    BY <1>5 DEF StoreOutgoing, CanStore, OnMain, server, files
  <2>2. BackupFits' /\ DiskFits'
    BY <2>1, SameFiles
  <2>3. \A f \in Files : f # OutgoingFile(s) => live'[f] = live[f]
    BY <1>5, StoringOutgoing DEF Types
  <2>4. MetaFile # OutgoingFile(s) /\ \A r \in Rooms : \A f \in RoomFiles(r) : f \in Files /\ f # OutgoingFile(s)
    BY FilesFacts, RoomFilesFacts, OutgoingFacts
  <2>5. Loaded /\ LiveToken' = LiveToken
    BY <2>1, <2>3, <2>4, FilesFacts DEF Loaded, LiveToken
  <2>6. \A r : Due(r)' = Due(r)
    BY <2>1, <2>5 DEF Due
  <2>7. \A r \in Rooms : \A f \in RoomFiles(r) : live'[f] = live[f]
    BY <2>3, <2>4
  <2>. QED
    BY <2>1, <2>2, <2>5, <2>6, <2>7 DEF Sound, LiveFits
<1>. QED
  BY <1>1, <1>2, <1>3, <1>4, <1>5 DEF Handling

LEMMA CommitSound ==
  ASSUME ~CrashInWipe, Types, Structure, Sound,
         Commit \/ CommitIgnored \/ CommitDone \/ Close \/ Closed \/ Crash
  PROVE  Sound'
<1>1. CASE Closed \/ Crash
  <2>1. phase # "wiping" /\ phase' = "down" /\ UNCHANGED <<timeline, left, disk, backup>>
    BY <1>1 DEF Closed, Crash, server, files
  <2>. QED
    BY <2>1, SameFiles DEF Sound, LiveFits, Loaded
<1>2. CASE Commit \/ CommitIgnored \/ CommitDone \/ Close
  <2>1. /\ phase = "up" /\ phase' \in {"up", "closing"} /\ UNCHANGED <<timeline, left, live, disk, backup>>
        /\ response' = response \/ response' = [response EXCEPT !.commit = FALSE]
    BY <1>2 DEF Commit, CommitIgnored, CommitDone, Close, OnMain, server, memory, files
  <2>2. response'.joined = response.joined /\ response'.left = response.left /\ response'.to = response.to
    BY <2>1 DEF Types, Typed, Response
  <2>3. Loaded /\ \A r : Due(r)' = Due(r)
    BY <2>1, <2>2 DEF Loaded, Due, LiveToken
  <2>. QED
    BY <2>1, <2>3, SameFiles DEF Sound, LiveFits
<1>. QED
  BY <1>1, <1>2

\* Files move to the backup of the token they fit.
LEMMA MovingSound ==
  ASSUME Types, Types', Structure, Sound, Loaded, ~Relabelled, ~BeingWritten(MetaFile),
         NEW F \in SUBSET Files, MoveToBackup(F), UNCHANGED <<timeline, left, phase, backupToken>>
  PROVE  BackupFits' /\ DiskFits'
<1>1. /\ \A f \in Files : disk'[f] = IF Moves(F) /\ f \in F THEN Absent ELSE disk[f]
      /\ \A t \in Token, f \in Files :
              backup'[t][f] = IF Moves(F) /\ t = backupToken /\ f \in F THEN disk[f] ELSE backup[t][f]
      /\ Moves(F) => \A f \in F : backup[backupToken][f] = Absent
  BY Moving DEF Types, Moves
<1>2. /\ phase # "wiping" /\ backupToken \in Token /\ Stored(disk[MetaFile]) = backupToken
      /\ \A t \in Token \ {backupToken} : \A f \in Files : backup[t][f] = Absent
  BY DEF Loaded, Types, Typed, Structure, Named, BackedUp
<1>3. \A t \in Token : t \in BackupTokens <=> \E f \in Files : backup[t][f] # Absent
  BY BackupTokensFacts DEF Types
<1>4. \A t \in Token : t \in BackupTokens' <=> \E f \in Files : backup'[t][f] # Absent
  BY BackupTokensFacts DEF Types, BackupTokens, EmptyFolder, Typed, Folder
<1>5. BackupTokens \subseteq {backupToken} /\ BackupTokens' \subseteq {backupToken}
  <2>1. BackupTokens \subseteq Token /\ BackupTokens' \subseteq Token
    BY DEF BackupTokens
  <2>. QED
    BY <1>1, <1>2, <1>3, <1>4, <2>1
<1>6. ASSUME NEW r \in Rooms, NEW f \in RoomFiles(r), backup[backupToken][f] = Absent
      PROVE  Fits(left[r], timeline[r], backupToken, disk[f])
  BY <1>2, <1>5, <1>6 DEF Sound, DiskFits
<1>7. \A r \in Rooms : \A f \in RoomFiles(r) : f \in Files
  BY RoomFilesFacts
<1>8. BackupFits'
  <2> SUFFICES ASSUME NEW t \in Token, NEW r \in Rooms, NEW f \in RoomFiles(r), backup'[t][f] # Absent
               PROVE  Fits(left[r], timeline[r], t, backup'[t][f])
    BY DEF BackupFits
  <2>1. CASE Moves(F) /\ t = backupToken /\ f \in F
    BY <1>1, <1>6, <1>7, <2>1
  <2>2. CASE ~(Moves(F) /\ t = backupToken /\ f \in F)
    BY <1>1, <1>2, <1>7, <2>2 DEF Sound, BackupFits
  <2>. QED
    BY <2>1, <2>2
<1>9. ASSUME NEW f \in Files, backup'[backupToken][f] = Absent
      PROVE  disk'[f] = disk[f] /\ backup[backupToken][f] = Absent
  BY <1>1, <1>2, <1>9
<1>10. ASSUME NEW r \in Rooms, NEW f \in RoomFiles(r), BackupTokens' = {}
       PROVE  Fits(left[r], timeline[r], Stored(disk'[MetaFile]), disk'[f])
  <2>1. \A g \in Files : backup'[backupToken][g] = Absent
    BY <1>2, <1>4, <1>10
  <2>2. disk'[MetaFile] = disk[MetaFile] /\ disk'[f] = disk[f] /\ backup[backupToken][f] = Absent
    BY <1>7, <1>9, <2>1, FilesFacts
  <2>. QED
    BY <1>2, <1>6, <2>2
<1>11. ASSUME NEW r \in Rooms, NEW f \in RoomFiles(r), NEW t \in BackupTokens', backup'[t][f] = Absent
       PROVE  Fits(left[r], timeline[r], t, disk'[f])
  BY <1>5, <1>6, <1>7, <1>9, <1>11
<1>12. DiskFits'
  BY <1>10, <1>11 DEF DiskFits
<1>. QED
  BY <1>8, <1>12

LEMMA QueueSound ==
  ASSUME Types, Types', Structure, Structure', Sound, QueueStep
  PROVE  Sound'
<1>0. /\ queue # <<>> /\ UNCHANGED <<timeline, left, phase, live, response>> /\ Loaded /\ Loaded' /\ phase # "wiping"
      /\ \A f \in Files : ~Listed(f)
  <2>1. queue # <<>> /\ QueueUnchanged
    BY DEF QueueStep, DeleteFolder, SkipFile, BackupFile, LabelBackups, WriteFile, RemoveBackup, Running
  <2>. QED
    BY <2>1, FirstBlock DEF QueueUnchanged, server, memory, Loaded
<1>1. LiveFits'
  <2>1. \A r : Due(r)' = Due(r)
    BY <1>0 DEF Due, LiveToken
  <2>. QED
    BY <1>0, <2>1 DEF Sound, LiveFits
<1> SUFFICES BackupFits' /\ DiskFits'
  BY <1>1 DEF Sound
<1>2. ASSUME NEW r \in Rooms, DeleteFolder(r)
      PROVE  BackupFits' /\ DiskFits'
  <2>1. MoveToBackup(RoomFolder(r)) /\ queue[1].op = "delete" /\ cursor = NoCursor /\ backupToken' = backupToken
    BY <1>2, DeleteFolderStructure DEF DeleteFolder, Running, Head1
  <2>2. ~Relabelled /\ ~BeingWritten(MetaFile)
    BY <2>1 DEF Relabelled, BeingWritten, Ends
  <2>3. PICK F \in SUBSET Files : F = RoomFolder(r)
    BY RoomFilesFacts
  <2>. QED
    BY <1>0, <2>1, <2>2, <2>3, MovingSound
<1>3. ASSUME NEW f \in Files, BackupFile(f)
      PROVE  BackupFits' /\ DiskFits'
  <2>1. MoveToBackup({f}) /\ queue[1].op \notin Ends /\ cursor = NoCursor /\ backupToken' = backupToken
    BY <1>3, BackupFileStructure DEF BackupFile, Running, Head1, Ends
  <2>2. ~Relabelled /\ ~BeingWritten(MetaFile)
    BY <2>1 DEF Relabelled, BeingWritten
  <2>3. PICK F \in SUBSET Files : F = {f}
    OBVIOUS
  <2>. QED
    BY <1>0, <2>1, <2>2, <2>3, MovingSound
<1>4. CASE LabelBackups
  BY <1>0, <1>4, SameFiles DEF LabelBackups, files
<1>5. CASE WriteFile
  <2>1. /\ backup' = backup /\ cursor # NoCursor
        /\ \A g \in Files : disk'[g] = IF g = cursor.file THEN live[g] ELSE disk[g]
    BY <1>5, WriteFileStructure
  <2>2. BackupFits'
    BY <1>0, <2>1 DEF Sound, BackupFits
  <2>3. cursor.file \in queue[1].todo
    BY <2>1 DEF Structure, CursorFits
  <2>4. BackupTokens' = BackupTokens
    BY <2>1 DEF BackupTokens
  <2>5. CASE cursor.file = MetaFile
    <3>1. queue[1].op = "metaData" /\ \A i \in DOMAIN queue : i # 1 => queue[i].op \in Ends
      BY <1>0, <2>3, <2>5, FirstBlock, OutgoingFacts DEF Fitting, OpFor
    <3>2. \A f \in Files : Queued(f) => f = MetaFile
      BY <1>0, <3>1, FirstBlock DEF Structure, QueueFits, Queued, Has
    <3>3. \A r \in Rooms : \A f \in RoomFiles(r) : disk'[f] = live'[f]
      BY <1>0, <2>1, <2>5, <3>2, RoomFilesFacts, OutgoingFacts DEF Structure, Rest
    <3>. QED
      BY <1>0, <1>1, <2>2, <3>3, LiveFileFits DEF DiskFits
  <2>6. CASE cursor.file # MetaFile
    <3>1. disk'[MetaFile] = disk[MetaFile]
      BY <2>1, <2>6, FilesFacts
    <3>2. ASSUME NEW r \in Rooms, NEW f \in RoomFiles(r)
          PROVE  /\ \A t \in BackupTokens' : backup'[t][f] = Absent => Fits(left'[r], timeline'[r], t, disk'[f])
                 /\ BackupTokens' = {} => Fits(left'[r], timeline'[r], Stored(disk'[MetaFile]), disk'[f])
      <4>1. CASE f = cursor.file
        <5>1. disk'[f] = live'[f]
          BY <1>0, <2>1, <4>1, RoomFilesFacts
        <5>. QED
          BY <1>0, <1>1, <5>1, LiveFileFits
      <4>2. CASE f # cursor.file
        <5>1. disk'[f] = disk[f]
          BY <2>1, <4>2, RoomFilesFacts
        <5>. QED
          BY <1>0, <2>1, <2>4, <3>1, <5>1 DEF Sound, DiskFits
      <4>. QED
        BY <4>1, <4>2
    <3>3. DiskFits'
      BY <3>2 DEF DiskFits
    <3>. QED
      BY <2>2, <3>3
  <2>. QED
    BY <2>5, <2>6
<1>6. CASE RemoveBackup
  <2>1. /\ queue[1].op \in Ends /\ disk' = disk
        /\ \/ backup' = backup
           \/ \E t \in Token, f \in Files : backup' = [backup EXCEPT ![t][f] = Absent]
    BY <1>6 DEF RemoveBackup, Running, Head1, Ends, BackupTokens
  <2>2. \A f \in Files : ~Queued(f)
    BY <1>0, <2>1, FirstBlock
  <2>3. \A r \in Rooms : \A f \in RoomFiles(r) : disk'[f] = live'[f]
    BY <1>0, <2>1, <2>2, RoomFilesFacts, OutgoingFacts DEF Structure, Rest
  <2>4. DiskFits'
    BY <1>0, <1>1, <2>3, LiveFileFits DEF DiskFits
  <2>5. \A u \in Token, g \in Files : backup'[u][g] = backup[u][g] \/ backup'[u][g] = Absent
    BY <2>1, BackupExcept DEF Types
  <2>6. BackupFits'
    BY <1>0, <2>5, RoomFilesFacts DEF Sound, BackupFits
  <2>. QED
    BY <2>4, <2>6
<1>7. ASSUME NEW f \in Files, SkipFile(f) PROVE FALSE
  BY <1>7, NothingSkipped
<1>. QED
  BY <1>2, <1>3, <1>4, <1>5, <1>6, <1>7 DEF QueueStep

LEMMA SoundKept ==
  ASSUME ~Overlapping, ~CrashInWipe, Types, Types', Structure, Structure', Sound, [Next]_vars
  PROVE  Sound'
<1>1. CASE UNCHANGED vars
  <2>1. UNCHANGED <<timeline, left, phase, live, response, disk, backup>>
    BY <1>1 DEF vars, server, memory, files
  <2>2. Loaded' = Loaded /\ \A r : Due(r)' = Due(r)
    BY <2>1 DEF Loaded, Due, LiveToken
  <2>. QED
    BY <2>1, <2>2, SameFiles DEF Sound, LiveFits
<1>. QED
  BY <1>1, ServerSound, OpeningSound, HandlingSound, CommitSound, QueueSound DEF Next

LEMMA SoundHolds ==
  ASSUME ~Overlapping, ~CrashInWipe
  PROVE  Spec => [](Types /\ Structure /\ Sound)
<1>1. Init => Types /\ Structure /\ Sound
  BY InitTyped, InitStructure, InitSound
<1>2. Types /\ Structure /\ Sound /\ [Next]_vars => (Types /\ Structure /\ Sound)'
  BY TypesKept, StructureKept, SoundKept
<1>. QED
  BY <1>1, <1>2, PTL DEF Spec

\* What the next process recovers fits the token it recovers.
LEMMA RecoveredFits ==
  ASSUME Types, Sound, phase # "wiping", NEW r \in Rooms, NEW f \in RoomFiles(r)
  PROVE  Fits(left[r], timeline[r], DurableToken, Recovered[f])
<1>0. f \in Files /\ MetaFile \in Files
  BY FilesFacts, RoomFilesFacts
<1>1. CASE BackupTokens = {}
  <2>1. Recovered[f] = disk[f] /\ Recovered[MetaFile] = disk[MetaFile]
    BY <1>0, <1>1 DEF Recovered
  <2>2. DurableToken = Stored(disk[MetaFile])
    BY <1>1, <2>1 DEF DurableToken, Repairable
  <2>. QED
    BY <1>1, <2>1, <2>2 DEF Sound, DiskFits
<1>2. ASSUME NEW t \in Token, BackupTokens = {t}, Recovered[MetaFile] = t
      PROVE  Fits(left[r], timeline[r], DurableToken, Recovered[f])
  <2>1. (CHOOSE u \in Token : BackupTokens = {u}) = t
    BY <1>2
  <2>2. Recovered[f] = IF backup[t][f] # Absent THEN backup[t][f] ELSE disk[f]
    BY <1>0, <1>2, <2>1 DEF Recovered
  <2>3. DurableToken = t
    BY <1>2, TokenFacts DEF DurableToken, Repairable
  <2>. QED
    BY <1>2, <2>2, <2>3 DEF Sound, BackupFits, DiskFits
<1>3. CASE ~Repairable
  BY <1>3 DEF DurableToken, NilToken, Fits
<1>. QED
  BY <1>1, <1>2, <1>3 DEF Repairable

\* Whenever the process dies, the files of a room the user is in hold every event that the
\* token they are stored with covers.  Two assumptions: nothing is stored while a commit runs,
\* and the process does not die inside deleteAllData.
THEOREM NothingLost == ASSUME ~Overlapping, ~CrashInWipe PROVE Spec => []NoEventLost
<1>1. Types /\ Structure /\ Sound => NoEventLost
  BY RecoveredFits DEF NoEventLost, Fits
<1>. QED
  BY <1>1, SoundHolds, PTL

\* Whenever the process dies, a room left before the durable token has neither messages nor
\* state to come back from; nothing is said of its outgoing messages.  The assumptions are
\* the same.
THEOREM NoGhosts == ASSUME ~Overlapping, ~CrashInWipe PROVE Spec => []NoGhostRoom
<1>1. Types /\ Structure /\ Sound => NoGhostRoom
  BY RecoveredFits DEF NoGhostRoom, Fits
<1>. QED
  BY <1>1, SoundHolds, PTL
=============================================================================
