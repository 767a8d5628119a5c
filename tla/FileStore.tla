------------------------------ MODULE FileStore ------------------------------
(***************************************************************************)
(* MXFileStore: the permanent store of a session.  The main thread keeps   *)
(* the live data (MXMemoryStore) and lists what changed; a commit snapshots*)
(* the lists and queues one block per kind of file on a serial dispatch    *)
(* queue.  Each block moves the old file into the backup folder named by   *)
(* the sync token the old data belongs to, then writes the new file; the   *)
(* metadata file, which holds the sync token, comes last, and then the     *)
(* backup folder is removed.  A backup folder found when the store opens   *)
(* means that a commit was interrupted: its files are put back.            *)
(*                                                                         *)
(* A sync token is the set of the server positions it covers, a room file  *)
(* is the set of the positions whose events it holds: the homeserver sends *)
(* again everything its client's token does not cover, nothing else.       *)
(* Three of the room files are modelled.  "messages" is written from the   *)
(* live room store and "state" from the array given to storeStateForRoom   *)
(* (as account data is); deleteRoom forgets both.  "outgoingMessages",     *)
(* what the user has typed and what waits to be sent, is written from a    *)
(* live store of its own that deleteRoom keeps, as it keeps its list.      *)
(***************************************************************************)
EXTENDS Naturals, Sequences, FiniteSets

CONSTANTS
  Rooms,          \* the rooms of the account
  MaxPos,         \* BOUND: positions the homeserver's stream reaches
  Outboxes,       \* BOUND: what the outgoing messages of a room can be
  Absent,         \* no such file, or a nil object
  Overlapping,    \* may the session store data while a commit is running?
  CrashInWipe     \* may the process die inside deleteAllData?

ASSUME MaxPosAssumption == MaxPos \in Nat \ {0}
ASSUME OutboxesAssumption == Outboxes \subseteq SUBSET (1..MaxPos)
ASSUME SwitchAssumption == Overlapping \in BOOLEAN /\ CrashInWipe \in BOOLEAN
ASSUME AbsentAssumption == (\A S \in SUBSET (1..MaxPos) : Absent # S) /\ Absent \notin Rooms

Pos == 1..MaxPos
Token == {1..n : n \in 0..MaxPos}
NilToken == {}

MetaFile == <<"metaData", Absent>>
MessagesFile(r) == <<"messages", r>>
StateFile(r) == <<"state", r>>
OutgoingFile(r) == <<"outgoingMessages", r>>
RoomFiles(r) == {MessagesFile(r), StateFile(r)}   \* what /sync responses bring
RoomFolder(r) == RoomFiles(r) \cup {OutgoingFile(r)}
Files == {MetaFile} \cup UNION {RoomFolder(r) : r \in Rooms}

Content == {Absent} \cup SUBSET Pos
Folder == [Files -> Content]
EmptyFolder == [f \in Files |-> Absent]

VARIABLES
  pos,            \* homeserver: the last position of its event stream
  timeline,       \* homeserver: the positions of each room's events
  left,           \* homeserver: the position at which the user left each room
  phase,          \* "down", "opening", "repaired", "wiping", "up" or "closing"
  live,           \* the live objects: metaData's token, room stores, room states
  response,       \* the /sync response the main thread is handling
  dirty,          \* roomsToCommitForMessages, ...ForOutgoingMessages and metaDataHasChanged
  stateToCommit,  \* roomsToCommitForState
  toDelete,       \* roomsToCommitForDeletion
  pendingCommits,
  finished,       \* commits whose blocks ran, waiting for the main thread
  queue,          \* the blocks of dispatchQueue, the first one executing
  cursor,         \* the file the first block has moved away and not yet written
  backupToken,    \* backupEventStreamToken
  disk,           \* the files of the store
  backup          \* the files of the backup folder of each token

server == <<pos, timeline, left>>
memory == <<live, response, dirty, stateToCommit, toDelete>>
commits == <<pendingCommits, finished>>
files == <<disk, backup>>
vars == <<server, phase, memory, commits, queue, cursor, backupToken, files>>

(***************************************************************************)
(* Blocks of the dispatch queue and the response being handled.            *)
(***************************************************************************)
Block == [op : {"delete", "messages", "state", "metaData", "commitEnd", "closeEnd"},
          todo : SUBSET Files,
          snapshot : Folder]
Cursor == [file : Files, content : Content, labelled : BOOLEAN]
NoCursor == [file |-> MetaFile, content |-> Absent, labelled |-> FALSE]
Idle == [joined |-> {}, left |-> {}, to |-> NilToken, commit |-> FALSE]
Response == [joined : SUBSET Rooms, left : SUBSET Rooms, to : Token, commit : BOOLEAN]

LiveToken == IF live[MetaFile] = Absent THEN NilToken ELSE live[MetaFile]
Stored(content) == IF content = Absent THEN {} ELSE content

TypeOK ==
  /\ pos \in 0..MaxPos
  /\ timeline \in [Rooms -> SUBSET Pos]
  /\ left \in [Rooms -> 0..MaxPos]
  /\ phase \in {"down", "opening", "repaired", "wiping", "up", "closing"}
  /\ live \in Folder
  /\ response \in Response
  /\ dirty \subseteq Files
  /\ stateToCommit \in Folder
  /\ toDelete \subseteq Rooms
  /\ pendingCommits \in 0..2
  /\ finished \in 0..2
  /\ queue \in Seq(Block)
  /\ cursor \in Cursor
  /\ backupToken \in Token
  /\ disk \in Folder
  /\ backup \in [Token -> Folder]

\* What a process that has just started has in memory.
ForgetMemory ==
  /\ live' = EmptyFolder
  /\ response' = Idle
  /\ dirty' = {}
  /\ stateToCommit' = EmptyFolder
  /\ toDelete' = {}
  /\ pendingCommits' = 0
  /\ finished' = 0
  /\ queue' = <<>>
  /\ cursor' = NoCursor
  /\ backupToken' = NilToken

Init ==
  /\ pos = 0
  /\ timeline = [r \in Rooms |-> {}]
  /\ left = [r \in Rooms |-> 0]
  /\ phase = "down"
  /\ live = EmptyFolder
  /\ response = Idle
  /\ dirty = {}
  /\ stateToCommit = EmptyFolder
  /\ toDelete = {}
  /\ pendingCommits = 0
  /\ finished = 0
  /\ queue = <<>>
  /\ cursor = NoCursor
  /\ backupToken = NilToken
  /\ disk = EmptyFolder
  /\ backup = [t \in Token |-> EmptyFolder]

(***************************************************************************)
(* The homeserver.                                                         *)
(***************************************************************************)
\* An event is sent in a room the user is in.
ServerEvent(r) ==
  /\ pos < MaxPos /\ left[r] = 0
  /\ pos' = pos + 1
  /\ timeline' = [timeline EXCEPT ![r] = @ \cup {pos + 1}]
  /\ UNCHANGED <<left, phase, memory, commits, queue, cursor, backupToken, files>>

\* The user leaves a room (on another device); the model has no rejoin.
ServerLeave(r) ==
  /\ pos < MaxPos /\ left[r] = 0 /\ timeline[r] # {}
  /\ pos' = pos + 1
  /\ left' = [left EXCEPT ![r] = pos + 1]
  /\ UNCHANGED <<timeline, phase, memory, commits, queue, cursor, backupToken, files>>

(***************************************************************************)
(* Opening: openWithCredentials and checkStorageValidity.                  *)
(***************************************************************************)
BackupTokens == {t \in Token : backup[t] # EmptyFolder}

\* What checkStorageValidity puts back over the files when it finds one folder.
Restored(t) == [f \in Files |-> IF backup[t][f] # Absent THEN backup[t][f] ELSE disk[f]]

Open ==
  /\ phase = "down"
  /\ phase' = "opening"
  /\ UNCHANGED <<server, memory, commits, queue, cursor, backupToken, files>>

\* The backup folder has one entry: copy its files over, one by one.
RestoreFile(f) ==
  /\ phase = "opening"
  /\ \E t \in Token :
       /\ BackupTokens = {t}
       /\ backup[t][f] \notin {Absent, disk[f]}
       /\ disk' = [disk EXCEPT ![f] = backup[t][f]]
  /\ UNCHANGED <<server, phase, memory, commits, queue, cursor, backupToken, backup>>

\* loadMetaData, when the file has a token; the rooms are loaded with it.
LoadMetaData ==
  /\ Stored(disk[MetaFile]) # NilToken
  /\ live' = disk
  /\ backupToken' = disk[MetaFile]

\* Every file is back: load the metadata, whose token must name the folder.
LoadAfterRestore ==
  /\ phase = "opening"
  /\ \E t \in Token : BackupTokens = {t} /\ disk = Restored(t) /\ disk[MetaFile] = t
  /\ LoadMetaData
  /\ phase' = "repaired"
  /\ UNCHANGED <<server, response, dirty, stateToCommit, toDelete, commits, queue,
                 cursor, files>>

RemoveRestoredBackup ==
  /\ phase = "repaired"
  /\ IF BackupTokens = {}
     THEN phase' = "up" /\ UNCHANGED backup
     ELSE \E t \in BackupTokens, f \in Files :
            /\ backup[t][f] # Absent
            /\ backup' = [backup EXCEPT ![t][f] = Absent]
            /\ UNCHANGED phase
  /\ UNCHANGED <<server, memory, commits, queue, cursor, backupToken, disk>>

LoadIntact ==
  /\ phase = "opening" /\ BackupTokens = {}
  /\ LoadMetaData
  /\ phase' = "up"
  /\ UNCHANGED <<server, response, dirty, stateToCommit, toDelete, commits, queue,
                 cursor, files>>

\* No token, or a backup that cannot be put back: deleteAllData.
Invalid ==
  \/ BackupTokens = {} /\ Stored(disk[MetaFile]) = NilToken
  \/ Cardinality(BackupTokens) > 1
  \/ \E t \in Token : BackupTokens = {t} /\ disk = Restored(t) /\ disk[MetaFile] # t

StartWipe ==
  /\ phase = "opening" /\ Invalid
  /\ phase' = "wiping"
  /\ UNCHANGED <<server, memory, commits, queue, cursor, backupToken, files>>

\* The folder is removed file by file; then metaData is created and its block
\* queued.  A token that loadMetaData has read before the reset stays the name of the
\* backups until that block, the first of all, has set it again; there is no file to back
\* up with it, so that the model never keeps it.
Wipe ==
  /\ phase = "wiping"
  /\ \/ \E f \in Files :
          /\ disk[f] # Absent
          /\ disk' = [disk EXCEPT ![f] = Absent]
          /\ UNCHANGED <<backup, phase, live, queue, backupToken>>
     \/ \E t \in BackupTokens, f \in Files :
          /\ backup[t][f] # Absent
          /\ backup' = [backup EXCEPT ![t][f] = Absent]
          /\ UNCHANGED <<disk, phase, live, queue, backupToken>>
     \/ /\ disk = EmptyFolder /\ BackupTokens = {}
        /\ live' = [EmptyFolder EXCEPT ![MetaFile] = NilToken]
        /\ queue' = <<[op |-> "metaData", todo |-> {MetaFile}, snapshot |-> EmptyFolder]>>
        /\ phase' = "up"
        /\ backupToken' = NilToken
        /\ UNCHANGED files
  /\ UNCHANGED <<server, response, dirty, stateToCommit, toDelete, commits, cursor>>

(***************************************************************************)
(* The main thread: a /sync response is stored room by room, then its      *)
(* token is stored and the store committed, without leaving the thread.    *)
(* CanStore is the ASSUMPTION that Overlapping = FALSE makes: nothing in   *)
(* the code holds a response back while a commit runs.                     *)
(***************************************************************************)
OnMain == phase = "up" /\ ~response.commit
CanStore == OnMain /\ (Overlapping \/ (queue = <<>> /\ pendingCommits = 0))
Unread(r) == timeline[r] \ LiveToken

ReceiveResponse ==
  /\ CanStore /\ response = Idle /\ LiveToken # 1..pos
  /\ response' = [joined |-> {r \in Rooms : left[r] = 0 /\ Unread(r) # {}},
                  left   |-> {r \in Rooms : left[r] > 0 /\ left[r] \notin LiveToken
                                             /\ LiveToken # NilToken},
                  to |-> 1..pos, commit |-> FALSE]
  /\ UNCHANGED <<server, phase, live, dirty, stateToCommit, toDelete, commits, queue,
                 cursor, backupToken, files>>

\* Mutation of StoreRoom: the room's messages are not listed for the next commit.
StoreRoomUnlisted(r) ==
  /\ CanStore /\ r \in response.joined
  /\ LET new(f) == Stored(live[f]) \cup (Unread(r) \cap response.to)
     IN  /\ live' = [live EXCEPT ![MessagesFile(r)] = new(MessagesFile(r)),
                                 ![StateFile(r)] = new(StateFile(r))]
         /\ stateToCommit' = [stateToCommit EXCEPT ![StateFile(r)] = new(StateFile(r))]
  /\ response' = [response EXCEPT !.joined = @ \ {r}]
  /\ UNCHANGED <<server, phase, dirty, toDelete, commits, queue, cursor, backupToken, files>>

\* One joined room of the response: storeEventForRoom, storeStateForRoom.
StoreRoom(r) ==
  /\ CanStore /\ r \in response.joined
  /\ LET new(f) == Stored(live[f]) \cup (Unread(r) \cap response.to)
     IN  /\ live' = [live EXCEPT ![MessagesFile(r)] = new(MessagesFile(r)),
                                 ![StateFile(r)] = new(StateFile(r))]
         /\ stateToCommit' = [stateToCommit EXCEPT ![StateFile(r)] = new(StateFile(r))]
  /\ dirty' = dirty \cup {MessagesFile(r)}
  /\ response' = [response EXCEPT !.joined = @ \ {r}]
  /\ UNCHANGED <<server, phase, toDelete, commits, queue, cursor, backupToken, files>>

\* Mutation of DeleteRoom: the room is forgotten, its folder is not listed.
DeleteRoomUnlisted(r) ==
  /\ CanStore /\ r \in response.left
  /\ live' = [f \in Files |-> IF f \in RoomFiles(r) THEN Absent ELSE live[f]]
  /\ response' = [response EXCEPT !.left = @ \ {r}]
  /\ UNCHANGED <<server, phase, dirty, stateToCommit, toDelete, commits, queue, cursor,
                 backupToken, files>>

\* One left room of the response: deleteRoom.  The outgoing messages stay, in memory
\* and in the list of those to save.
DeleteRoom(r) ==
  /\ CanStore /\ r \in response.left
  /\ live' = [f \in Files |-> IF f \in RoomFiles(r) THEN Absent ELSE live[f]]
  /\ toDelete' = toDelete \cup {r}
  /\ dirty' = dirty \ {MessagesFile(r)}
  /\ stateToCommit' = [stateToCommit EXCEPT ![StateFile(r)] = Absent]
  /\ response' = [response EXCEPT !.left = @ \ {r}]
  /\ UNCHANGED <<server, phase, commits, queue, cursor, backupToken, files>>

\* A message to send is stored, sent, fails or is cancelled: storeOutgoingMessageForRoom
\* and its like, whether or not the room has been left since.
StoreOutgoing(r) ==
  /\ CanStore /\ \E f \in {MessagesFile(r), OutgoingFile(r)} : live[f] # Absent
  /\ \E waiting \in Outboxes : live' = [live EXCEPT ![OutgoingFile(r)] = waiting]
  /\ dirty' = dirty \cup {OutgoingFile(r)}
  /\ UNCHANGED <<server, phase, response, stateToCommit, toDelete, commits, queue, cursor,
                 backupToken, files>>

\* setEventStreamToken; the commit follows on the same thread.
SetEventStreamToken ==
  /\ CanStore /\ response.to # NilToken /\ response.joined = {} /\ response.left = {}
  /\ live' = [live EXCEPT ![MetaFile] = IF @ = Absent THEN Absent ELSE response.to]
  /\ dirty' = IF live[MetaFile] = Absent THEN dirty ELSE dirty \cup {MetaFile}
  /\ response' = [Idle EXCEPT !.commit = TRUE]
  /\ UNCHANGED <<server, phase, stateToCommit, toDelete, commits, queue, cursor,
                 backupToken, files>>

\* saveDataToFiles: a block for each list that is not empty, in this order.  The block of
\* the outgoing messages comes right after that of the messages: they are one here.
BlockIf(op, todo, snapshot) ==
  IF todo = {} THEN <<>> ELSE <<[op |-> op, todo |-> todo, snapshot |-> snapshot]>>
\* Mutation of SaveBlocks: the metadata, and its token, are saved first.
SaveMetaDataFirst ==
  BlockIf("metaData", dirty \cap {MetaFile}, EmptyFolder)
  \o BlockIf("delete", UNION {RoomFolder(r) : r \in toDelete}, EmptyFolder)
  \o BlockIf("messages", dirty \ {MetaFile}, EmptyFolder)
  \o BlockIf("state", {f \in Files : stateToCommit[f] # Absent}, stateToCommit)

SaveBlocks ==
  BlockIf("delete", UNION {RoomFolder(r) : r \in toDelete}, EmptyFolder)
  \o BlockIf("messages", dirty \ {MetaFile}, EmptyFolder)
  \o BlockIf("state", {f \in Files : stateToCommit[f] # Absent}, stateToCommit)
  \o BlockIf("metaData", dirty \cap {MetaFile}, EmptyFolder)
EndBlock(op) == <<[op |-> op, todo |-> {}, snapshot |-> EmptyFolder]>>
SaveDataToFiles(end) ==
  /\ queue' = queue \o SaveBlocks \o EndBlock(end)
  /\ dirty' = {}
  /\ stateToCommit' = EmptyFolder
  /\ toDelete' = {}

\* commitWithCompletion, by the response just handled or by anyone else.
Commit ==
  /\ phase = "up" /\ live[MetaFile] # Absent /\ pendingCommits < 2
  /\ pendingCommits' = pendingCommits + 1
  /\ SaveDataToFiles("commitEnd")
  /\ response' = [response EXCEPT !.commit = FALSE]
  /\ UNCHANGED <<server, phase, live, finished, cursor, backupToken, files>>

CommitIgnored ==
  /\ phase = "up" /\ response.commit
  /\ pendingCommits >= 2 \/ live[MetaFile] = Absent
  /\ response' = [response EXCEPT !.commit = FALSE]
  /\ UNCHANGED <<server, phase, live, dirty, stateToCommit, toDelete, commits, queue,
                 cursor, backupToken, files>>

\* Mutation of CommitDone: called back for a commit that did not take place.
CommitDoneAnyway ==
  /\ OnMain
  /\ finished' = IF finished = 0 THEN 0 ELSE finished - 1
  /\ pendingCommits' = pendingCommits - 1
  /\ UNCHANGED <<server, phase, memory, queue, cursor, backupToken, files>>

\* The block a finished commit dispatches to the main queue.
CommitDone ==
  /\ OnMain /\ finished > 0
  /\ finished' = finished - 1
  /\ pendingCommits' = pendingCommits - 1
  /\ UNCHANGED <<server, phase, memory, queue, cursor, backupToken, files>>

\* close: flush if a commit is pending, then wait for the queue.
Close ==
  /\ OnMain
  /\ phase' = "closing"
  /\ IF pendingCommits > 0
     THEN SaveDataToFiles("closeEnd")
     ELSE UNCHANGED <<queue, dirty, stateToCommit, toDelete>>
  /\ UNCHANGED <<server, live, response, commits, cursor, backupToken, files>>

Closed ==
  /\ phase = "closing" /\ queue = <<>>
  /\ phase' = "down"
  /\ ForgetMemory
  /\ UNCHANGED <<server, files>>

Crash ==
  /\ phase # "down" /\ (phase # "wiping" \/ CrashInWipe)
  /\ phase' = "down"
  /\ ForgetMemory
  /\ UNCHANGED <<server, files>>

(***************************************************************************)
(* The dispatch queue: steps of its first block.                           *)
(***************************************************************************)
Head1 == queue[1]
Running(ops) == queue # <<>> /\ Head1.op \in ops

\* The queue once the files of F have been dealt with.
Without(F) ==
  IF Head1.todo \subseteq F THEN Tail(queue)
  ELSE [queue EXCEPT ![1].todo = @ \ F]

\* Mutation of MoveToBackup: the files are written over.
WriteOver(F) == F \subseteq Files /\ UNCHANGED files

\* moveItemAtPath: nothing without a backup token, a file, or if one is there.
MoveToBackup(F) ==
  IF backupToken # NilToken /\ \A f \in F : backup[backupToken][f] = Absent
  THEN /\ disk' = [f \in Files |-> IF f \in F THEN Absent ELSE disk[f]]
       /\ backup' = [backup EXCEPT ![backupToken] =
                       [f \in Files |-> IF f \in F THEN disk[f] ELSE @[f]]]
  ELSE UNCHANGED files

QueueUnchanged == UNCHANGED <<server, phase, memory, pendingCommits>>

DeleteFolder(r) ==
  /\ Running({"delete"}) /\ RoomFolder(r) \subseteq Head1.todo
  /\ MoveToBackup(RoomFolder(r))
  /\ queue' = Without(RoomFolder(r))
  /\ QueueUnchanged /\ UNCHANGED <<finished, cursor, backupToken>>

\* The room store has been deleted since: nothing to save.
SkipFile(f) ==
  /\ Running({"messages"}) /\ f \in Head1.todo /\ cursor = NoCursor /\ live[f] = Absent
  /\ queue' = Without({f})
  /\ QueueUnchanged /\ UNCHANGED <<finished, cursor, backupToken, files>>

\* Mutation of BackupFile: it waits for an old file to back up.
BackupExisting(f) ==
  /\ Running({"messages", "state", "metaData"}) /\ f \in Head1.todo /\ cursor = NoCursor
  /\ Head1.op = "messages" => live[f] # Absent
  /\ disk[f] # Absent /\ MoveToBackup({f})
  /\ cursor' = [file |-> f,
                content |-> IF Head1.op = "state" THEN Head1.snapshot[f] ELSE Stored(live[f]),
                labelled |-> Head1.op # "metaData"]
  /\ QueueUnchanged /\ UNCHANGED <<finished, queue, backupToken>>

BackupFile(f) ==
  /\ Running({"messages", "state", "metaData"}) /\ f \in Head1.todo /\ cursor = NoCursor
  /\ Head1.op = "messages" => live[f] # Absent
  /\ MoveToBackup({f})
  /\ cursor' = [file |-> f,
                content |-> IF Head1.op = "state" THEN Head1.snapshot[f] ELSE Stored(live[f]),
                labelled |-> Head1.op # "metaData"]
  /\ QueueUnchanged /\ UNCHANGED <<finished, queue, backupToken>>

\* saveMetaData reads the live token once for the name of the next backups...
LabelBackups ==
  /\ Running({"metaData"}) /\ cursor # NoCursor /\ ~cursor.labelled
  /\ backupToken' = LiveToken
  /\ cursor' = [cursor EXCEPT !.labelled = TRUE]
  /\ QueueUnchanged /\ UNCHANGED <<finished, queue, files>>

\* ... and archives the live metadata after that.  Room stores are live too.
WriteFile ==
  /\ Running({"messages", "state", "metaData"}) /\ cursor.labelled
  /\ disk' = [disk EXCEPT ![cursor.file] =
                IF Head1.op = "state" \/ live[cursor.file] = Absent
                THEN cursor.content ELSE live[cursor.file]]
  /\ queue' = Without({cursor.file})
  /\ cursor' = NoCursor
  /\ QueueUnchanged /\ UNCHANGED <<finished, backupToken, backup>>

\* The data saving is completed: remove the backup, file by file.
RemoveBackup ==
  /\ Running({"commitEnd", "closeEnd"})
  /\ IF BackupTokens = {}
     THEN /\ queue' = Tail(queue)
          /\ finished' = IF Head1.op = "commitEnd" THEN finished + 1 ELSE finished
          /\ UNCHANGED backup
     ELSE /\ \E t \in BackupTokens, f \in Files :
               /\ backup[t][f] # Absent
               /\ backup' = [backup EXCEPT ![t][f] = Absent]
          /\ UNCHANGED <<queue, finished>>
  /\ QueueUnchanged /\ UNCHANGED <<cursor, backupToken, disk>>

QueueStep ==
  \/ \E r \in Rooms : DeleteFolder(r)
  \/ \E f \in Files : SkipFile(f) \/ BackupFile(f)
  \/ LabelBackups \/ WriteFile \/ RemoveBackup

Opening ==
  \/ \E f \in Files : RestoreFile(f)
  \/ LoadAfterRestore \/ RemoveRestoredBackup \/ LoadIntact \/ StartWipe \/ Wipe

Handling ==
  \/ \E r \in Rooms : StoreRoom(r) \/ DeleteRoom(r) \/ StoreOutgoing(r)
  \/ SetEventStreamToken

Next ==
  \/ \E r \in Rooms : ServerEvent(r) \/ ServerLeave(r)
  \/ Open \/ Opening
  \/ ReceiveResponse \/ Handling
  \/ Commit \/ CommitIgnored \/ CommitDone
  \/ Close \/ Closed \/ Crash
  \/ QueueStep

Spec == Init /\ [][Next]_vars

\* GCD runs what is queued: the store's thread and the main thread make progress.
Fairness ==
  /\ WF_vars(QueueStep)
  /\ WF_vars(CommitDone)
  /\ WF_vars(response.commit /\ (Commit \/ CommitIgnored))
  /\ WF_vars(Closed)
FairSpec == Spec /\ Fairness

(***************************************************************************)
(* What the next process finds: the files once a backup is put back, and   *)
(* the token it syncs from (none if the store has to be reset).            *)
(***************************************************************************)
Recovered == [f \in Files |->
                IF \E t \in Token : BackupTokens = {t} /\ backup[t][f] # Absent
                THEN backup[CHOOSE t \in Token : BackupTokens = {t}][f] ELSE disk[f]]
Repairable ==
  \/ BackupTokens = {}
  \/ \E t \in Token : BackupTokens = {t} /\ Recovered[MetaFile] = t
DurableToken == IF Repairable THEN Stored(Recovered[MetaFile]) ELSE NilToken

\* Safety: whenever the process dies, the files of the rooms the user is in hold
\* every event that the sync token they are stored with covers: the homeserver
\* will not send these again.
NoEventLost ==
  phase # "wiping" =>
    \A r \in Rooms : left[r] = 0 =>
      \A f \in RoomFiles(r) : timeline[r] \cap DurableToken \subseteq Stored(Recovered[f])

\* Safety: a room the user has left before the durable token has neither messages nor
\* state: the homeserver will not tell of the departure again.  Its outgoing messages are
\* another matter: the block that saves them comes after the deletion and makes the folder
\* anew, if they are listed when the room is left or change later.
NoGhostRoom ==
  phase # "wiping" =>
    \A r \in Rooms : left[r] \in DurableToken =>
      \A f \in RoomFiles(r) : Recovered[f] = Absent

\* Safety: once the queue has run and nothing is listed, the files are the live
\* data: no change is dropped between the lists, the blocks and the files.  The outgoing
\* messages of a room that the user has left are live without a file once its folder has
\* been deleted.
Kept(f) == \A r \in Rooms : f = OutgoingFile(r) => left[r] = 0
DurableAtRest ==
  (phase = "up" /\ queue = <<>> /\ dirty = {} /\ toDelete = {} /\ stateToCommit = EmptyFolder)
    => \A f \in Files : live[f] # Absent /\ Kept(f) => disk[f] = live[f]

\* Action: once the store has a token, the queue never destroys the old content
\* of a file: it is in the backup before the file changes.
BackupBeforeWrite ==
  [][(phase \in {"up", "closing"} /\ Stored(disk[MetaFile]) # NilToken /\ phase' # "down") =>
       \A f \in Files : (disk[f] # Absent /\ disk'[f] # disk[f])
                            => backup'[backupToken][f] = disk[f]]_vars

\* Liveness: with two commits pending every commit is ignored; that ends.
CommitsAcceptedAgain == pendingCommits = 2 ~> pendingCommits < 2
=============================================================================
