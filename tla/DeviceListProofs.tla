-------------------------- MODULE DeviceListProofs --------------------------
(***************************************************************************)
(* Theorems about DeviceList, for any number of users and operations: the  *)
(* two pools stay consistent whatever the callers, the network and the     *)
(* session do; downloads have their queries where none fails; and what is  *)
(* marked up to date is so, where nobody joins a query under way.  What    *)
(* needs care is downloadKeys, which most actions go through.              *)
(***************************************************************************)
EXTENDS DeviceList, TLAPS

\* The part of the types that the pools and downloads are made of.
PoolsGood == current \in Pool /\ next \in NextPool
TrackingGood ==
  /\ status \in [Users -> Status] /\ saved \in [Users -> Status]
  /\ latest \in [Users -> Ops \cup {None}]

Inv == TypeOK /\ OperationsAsked /\ NextWaitsForCurrent

\* A query for the users of its operations is a pool, and asks for them all.
LEMMA QueryFacts ==
  ASSUME NEW ops \in SUBSET Operation, NEW users \in SUBSET Users, NEW t \in Position
  PROVE  LET q == Query(ops, users, t)
         IN  q \in Pool /\ q.on /\ q.ops = ops /\ q.asked = users
<1>1. NoDevices \in [Users -> Position]
  BY MaxPosAssumption DEF NoDevices, Position
<1>. QED
  BY <1>1 DEF Query, Pool

\* The pools there are not.
LEMMA NoPoolFacts ==
  /\ NoPool \in Pool /\ NoPool.on = FALSE /\ NoPool.ops = {}
  /\ NoNextPool \in NextPool /\ NoNextPool.on = FALSE /\ NoNextPool.ops = {}
<1>1. NoDevices \in [Users -> Position] /\ 0 \in Position
  BY MaxPosAssumption DEF NoDevices, Position
<1>. QED
  BY <1>1 DEF NoPool, Pool, NoNextPool, NextPool

\* The users of operations are users, and those of a union are the union.
LEMMA UsersFacts ==
  ASSUME NEW ops \in SUBSET Operation, NEW o \in Operation
  PROVE  /\ UsersOf(ops) \in SUBSET Users
         /\ UsersOf(ops \cup {o}) = UsersOf(ops) \cup o.users
BY DEF UsersOf, Operation

\* downloadKeys: the operation it makes goes to a pool that asks for its users.
LEMMA DownloadKeysIsGood ==
  ASSUME Inv, NEW st \in [Users -> Status], NEW users \in SUBSET Users,
         NEW force \in BOOLEAN, NEW t \in Position, DownloadKeys(st, users, force, t)
  PROVE  /\ PoolsGood' /\ OperationsAsked' /\ NextWaitsForCurrent'
         /\ TrackingGood'
<1>. DEFINE toDownload == {u \in users : st[u] = "inProgress" \/ NeedsQuery(st, u, force)}
            doANewQuery == \/ \E u \in users : NeedsQuery(st, u, force)
                           \/ current.on /\ ~CurrentPoolHas(toDownload)
<1>0. /\ current \in Pool /\ next \in NextPool
      /\ saved \in [Users -> Status] /\ latest \in [Users -> Ops \cup {None}]
      /\ current.on => UsersOf(current.ops) \subseteq current.asked
      /\ next.on => current.on
  BY DEF Inv, TypeOK, OperationsAsked, NextWaitsForCurrent
<1>1. CASE toDownload = {}
  <2>1. status' = st /\ UNCHANGED <<saved, latest, pools>>
    BY <1>1 DEF DownloadKeys
  <2>. QED
    BY <1>0, <2>1 DEF PoolsGood, TrackingGood, OperationsAsked, NextWaitsForCurrent, pools, UsersOf
<1>2. CASE toDownload # {}
  <2>1. PICK o \in [id : FreeOps, users : {toDownload}] :
          /\ status' = [u \in Users |-> IF u \in toDownload THEN "inProgress" ELSE st[u]]
          /\ saved' = status'
          /\ latest' = [u \in Users |-> IF u \in toDownload THEN o.id ELSE latest[u]]
          /\ IF ~current.on
             THEN /\ current' = Query(next.ops \cup {o}, UsersOf(next.ops) \cup toDownload, t)
                  /\ next' = NoNextPool
             ELSE IF doANewQuery
             THEN next' = [on |-> TRUE, ops |-> next.ops \cup {o}] /\ UNCHANGED current
             ELSE current' = [current EXCEPT !.ops = @ \cup {o}] /\ UNCHANGED next
    BY <1>2 DEF DownloadKeys
  <2>2. o \in Operation /\ o.users = toDownload /\ o.id \in Ops
    BY DEF Operation, FreeOps
  <2>3. TrackingGood'
    BY <1>0, <2>1, <2>2 DEF TrackingGood, Status
  <2>4. CASE ~current.on
    <3>1. next.ops \in SUBSET Operation
      BY <1>0 DEF NextPool
    <3>2. UsersOf(next.ops) \in SUBSET Users
          /\ UsersOf(next.ops \cup {o}) = UsersOf(next.ops) \cup toDownload
      BY <2>2, <3>1, UsersFacts
    <3>3. current' \in Pool /\ current'.ops = next.ops \cup {o}
          /\ current'.asked = UsersOf(next.ops) \cup toDownload
      BY <2>1, <2>2, <2>4, <3>1, <3>2, QueryFacts
    <3>4. UsersOf(current'.ops) \subseteq current'.asked
      BY <3>2, <3>3
    <3>5. next' = NoNextPool
      BY <2>1, <2>4
    <3>. QED
      BY <2>3, <3>3, <3>4, <3>5, NoPoolFacts
      DEF PoolsGood, OperationsAsked, NextWaitsForCurrent, UsersOf
  <2>5. CASE current.on /\ doANewQuery
    <3>1. next' = [on |-> TRUE, ops |-> next.ops \cup {o}] /\ current' = current
      BY <2>1, <2>5
    <3>2. next' \in NextPool
      BY <1>0, <2>2, <3>1 DEF NextPool
    <3>. QED
      BY <1>0, <2>3, <2>5, <3>1, <3>2
      DEF PoolsGood, OperationsAsked, NextWaitsForCurrent, UsersOf
  <2>6. CASE current.on /\ ~doANewQuery
    <3>1. current' = [current EXCEPT !.ops = @ \cup {o}] /\ next' = next
      BY <2>1, <2>6
    <3>2. current' \in Pool /\ current'.ops = current.ops \cup {o}
          /\ current'.asked = current.asked /\ current'.on
      BY <1>0, <2>2, <2>6, <3>1 DEF Pool
    <3>3. toDownload \subseteq UsersOf(current.ops)
      BY <2>6 DEF CurrentPoolHas
    <3>4. UsersOf(current.ops \cup {o}) = UsersOf(current.ops) \cup toDownload
      BY <1>0, <2>2, UsersFacts DEF Pool
    <3>5. UsersOf(current'.ops) \subseteq current'.asked
      BY <1>0, <2>6, <3>2, <3>3, <3>4
    <3>. QED
      BY <1>0, <2>3, <3>1, <3>2, <3>5
      DEF PoolsGood, OperationsAsked, NextWaitsForCurrent, UsersOf
  <2>. QED
    BY <2>4, <2>5, <2>6
<1>. QED
  BY <1>1, <1>2

\* The first block of cryptoQueue, what it holds, and the queue without it.
LEMMA BlockFacts ==
  ASSUME queue \in Seq(Block), queue # <<>>
  PROVE  /\ Next1 \in Block /\ Tail(queue) \in Seq(Block)
         /\ Next1.op = "changes" => Next1.changed \subseteq Users /\ Next1.left \subseteq Users
         /\ Next1.op = "completed" => Next1.old \in Position /\ Next1.next \in Position
         /\ Next1.op = "success" => Next1.ops \subseteq Operation /\ Next1.served \subseteq Users
<1>1. Next1 \in Block /\ Tail(queue) \in Seq(Block)
  BY DEF Next1
<1>2. Next1.op = "changes" => Next1.changed \subseteq Users /\ Next1.left \subseteq Users
  BY <1>1 DEF Block
<1>3. Next1.op = "completed" => Next1.old \in Position /\ Next1.next \in Position
  BY <1>1 DEF Block
<1>4. Next1.op = "success" => Next1.ops \subseteq Operation /\ Next1.served \subseteq Users
  BY <1>1 DEF Block
<1>. QED
  BY <1>1, <1>2, <1>3, <1>4

\* Invalidation gives statuses.
LEMMA InvalidatedFacts ==
  ASSUME TypeOK, NEW users
  PROVE  Invalidated(users) \in [Users -> Status]
BY DEF Invalidated, TypeOK, Status

\* The pool's query is over: the next pool, if there is one, becomes a query.
LEMMA CompleteIsGood ==
  ASSUME Inv, Complete
  PROVE  /\ PoolsGood' /\ OperationsAsked' /\ NextWaitsForCurrent'
         /\ deviceToken' \in Position
<1>0. /\ current \in Pool /\ next \in NextPool /\ lastKnown \in Position /\ deviceToken \in Position
  BY DEF Inv, TypeOK
<1>1. deviceToken' \in Position
  BY <1>0 DEF Complete, Pool
<1>2. next' = NoNextPool
  BY DEF Complete
<1>3. CASE next.on
  <2>1. next.ops \in SUBSET Operation
    BY <1>0 DEF NextPool
  <2>2. UsersOf(next.ops) \in SUBSET Users
    BY <2>1 DEF UsersOf, Operation
  <2>3. current' = Query(next.ops, UsersOf(next.ops), lastKnown)
    BY <1>3 DEF Complete
  <2>4. current' \in Pool /\ current'.ops = next.ops /\ current'.asked = UsersOf(next.ops)
    BY <1>0, <2>1, <2>2, <2>3, QueryFacts
  <2>5. UsersOf(current'.ops) \subseteq current'.asked
    BY <2>4
  <2>. QED
    BY <1>1, <1>2, <2>4, <2>5, NoPoolFacts
    DEF PoolsGood, OperationsAsked, NextWaitsForCurrent, UsersOf
<1>4. CASE ~next.on
  <2>1. current' = NoPool
    BY <1>4 DEF Complete
  <2>. QED
    BY <1>1, <1>2, <2>1, NoPoolFacts
    DEF PoolsGood, OperationsAsked, NextWaitsForCurrent
<1>. QED
  BY <1>3, <1>4

\* The invariant in the next state, from its parts.
LEMMA InvFromParts ==
  ASSUME /\ pos' \in Position /\ version' \in [Users -> Position]
         /\ token' \in Position /\ durableToken' \in Position
         /\ queue' \in Seq(Block) /\ since' \in Position \X Position
         /\ TrackingGood' /\ stored' \in [Users -> Position]
         /\ deviceToken' \in Position /\ lastKnown' \in Position
         /\ PoolsGood' /\ OperationsAsked' /\ NextWaitsForCurrent'
  PROVE  Inv'
BY DEF Inv, TypeOK, TrackingGood, PoolsGood

\* The same parts, before the step; what is unchanged of them stays so.
LEMMA PartsHold ==
  ASSUME Inv
  PROVE  /\ pos \in Position /\ version \in [Users -> Position]
         /\ token \in Position /\ durableToken \in Position
         /\ queue \in Seq(Block) /\ since \in Position \X Position
         /\ status \in [Users -> Status] /\ saved \in [Users -> Status]
         /\ latest \in [Users -> Ops \cup {None}]
         /\ stored \in [Users -> Position]
         /\ deviceToken \in Position /\ lastKnown \in Position
         /\ current \in Pool /\ next \in NextPool
         /\ UNCHANGED tracking => TrackingGood'
         /\ UNCHANGED pools => PoolsGood' /\ OperationsAsked' /\ NextWaitsForCurrent'
BY DEF Inv, TypeOK, tracking, TrackingGood, pools, PoolsGood, OperationsAsked,
       NextWaitsForCurrent, UsersOf

\* The homeserver and the session's thread.
LEMMA SessionKeepsInv ==
  ASSUME Inv, (\E u \in Users : ServerChange(u)) \/ Sync \/ CommitSession
  PROVE  Inv'
<1>1. ASSUME NEW u \in Users, ServerChange(u) PROVE Inv'
  <2>1. pos' \in Position /\ version' \in [Users -> Position]
    BY <1>1, PartsHold, MaxPosAssumption DEF ServerChange, Position
  <2>. QED
    BY <1>1, <2>1, PartsHold, InvFromParts DEF ServerChange, session, keys
<1>2. CASE Sync
  <2>1. PICK left \in SUBSET Users :
          LET changed == IF token = 0 THEN {} ELSE {u \in Users : version[u] > token}
              lists == [op |-> "changes", changed |-> changed, left |-> left]
          IN  queue' = queue \o (IF changed \cup left = {} THEN <<>> ELSE <<lists>>)
                             \o <<[op |-> "completed", old |-> token, next |-> pos]>>
    BY <1>2 DEF Sync
  <2>. DEFINE changed == IF token = 0 THEN {} ELSE {u \in Users : version[u] > token}
              lists == [op |-> "changes", changed |-> changed, left |-> left]
              completed == [op |-> "completed", old |-> token, next |-> pos]
  <2>2. lists \in Block
    BY DEF Block
  <2>3. completed \in Block
    BY PartsHold DEF Block
  <2>4. queue' \in Seq(Block)
    <3>. HIDE DEF lists, completed, changed
    <3>1. (IF changed \cup left = {} THEN <<>> ELSE <<lists>>) \in Seq(Block)
      BY <2>2
    <3>2. <<completed>> \in Seq(Block)
      BY <2>3
    <3>3. queue' = queue \o (IF changed \cup left = {} THEN <<>> ELSE <<lists>>) \o <<completed>>
      BY <2>1 DEF changed, lists, completed
    <3>. QED
      BY <3>1, <3>2, <3>3, PartsHold
  <2>5. token' \in Position
    BY <1>2, PartsHold DEF Sync
  <2>. QED
    BY <1>2, <2>4, <2>5, PartsHold, InvFromParts DEF Sync, server, keys
<1>3. CASE CommitSession
  BY <1>3, PartsHold, InvFromParts DEF CommitSession, server, keys
<1>. QED
  BY <1>1, <1>2, <1>3

\* The process dies and starts again: no pool survives it.
LEMMA RestartKeepsInv ==
  ASSUME Inv, Restart
  PROVE  Inv'
<1>1. token' \in Position /\ durableToken' \in Position
  BY PartsHold, MaxPosAssumption DEF Restart, Position
<1>2. queue' \in Seq(Block) /\ since' \in Position \X Position /\ lastKnown' \in Position
  BY MaxPosAssumption DEF Restart, NoRequest, Position
<1>3. TrackingGood'
  BY PartsHold DEF Restart, TrackingGood, Status
<1>4. PoolsGood' /\ OperationsAsked' /\ NextWaitsForCurrent'
  BY NoPoolFacts DEF Restart, PoolsGood, OperationsAsked, NextWaitsForCurrent
<1>. QED
  BY <1>1, <1>2, <1>3, <1>4, PartsHold, InvFromParts DEF Restart, server, keys

\* The blocks of cryptoQueue.
LEMMA CryptoQueueKeepsInv ==
  ASSUME Inv, CryptoQueue
  PROVE  Inv'
<1>1. CASE HandleDeviceListsChanges
  <2>1. queue' \in Seq(Block)
    BY <1>1, PartsHold, BlockFacts DEF HandleDeviceListsChanges, Running
  <2>2. status' \in [Users -> Status]
    <3>1. Invalidated(Next1.changed) \in [Users -> Status]
      BY InvalidatedFacts DEF Inv
    <3>. QED
      BY <1>1, <3>1 DEF HandleDeviceListsChanges, Status
  <2>3. TrackingGood'
    BY <1>1, <2>2, PartsHold DEF HandleDeviceListsChanges, TrackingGood
  <2>. QED
    BY <1>1, <2>1, <2>3, PartsHold, InvFromParts DEF HandleDeviceListsChanges, server, session, keys
<1>2. CASE OnSyncCompleted
  <2>. DEFINE st == IF Next1.old = 0 /\ deviceToken = 0 THEN Invalidated(Users) ELSE status
  <2>1. Next1.next \in Position /\ queue' \in Seq(Block)
    BY <1>2, PartsHold, BlockFacts DEF OnSyncCompleted, Running
  <2>2. since' \in Position \X Position /\ deviceToken' \in Position /\ lastKnown' \in Position
    BY <1>2, <2>1, PartsHold DEF OnSyncCompleted
  <2>3. st \in [Users -> Status]
    BY PartsHold, InvalidatedFacts DEF Inv
  <2>4. DownloadKeys(st, Outdated(st), FALSE, Next1.next)
    BY <1>2 DEF OnSyncCompleted, RefreshOutdatedDeviceLists
  <2>5. Outdated(st) \in SUBSET Users
    BY DEF Outdated
  <2>6. PoolsGood' /\ OperationsAsked' /\ NextWaitsForCurrent' /\ TrackingGood'
    <3>. HIDE DEF st
    <3>. QED
      BY <2>1, <2>3, <2>4, <2>5, DownloadKeysIsGood
  <2>. QED
    BY <1>2, <2>1, <2>2, <2>6, PartsHold, InvFromParts DEF OnSyncCompleted, server, session
<1>3. CASE OperationsSucceed
  <2>1. queue' \in Seq(Block)
    BY <1>3, PartsHold, BlockFacts DEF OperationsSucceed, Running
  <2>2. status' \in [Users -> Status]
    BY <1>3, PartsHold DEF OperationsSucceed, Status
  <2>3. latest' \in [Users -> Ops \cup {None}]
    BY <1>3, PartsHold DEF OperationsSucceed
  <2>4. saved' \in [Users -> Status]
    BY <1>3, <2>2, PartsHold DEF OperationsSucceed
  <2>5. TrackingGood'
    BY <2>2, <2>3, <2>4 DEF TrackingGood
  <2>. QED
    BY <1>3, <2>1, <2>5, PartsHold, InvFromParts DEF OperationsSucceed, server, session, keys
<1>4. CASE OperationsFail
  <2>1. queue' \in Seq(Block)
    BY <1>4, PartsHold, BlockFacts DEF OperationsFail, Running
  <2>. QED
    BY <1>4, <2>1, PartsHold, InvFromParts DEF OperationsFail, server, session, keys
<1>. QED
  BY <1>1, <1>2, <1>3, <1>4 DEF CryptoQueue

\* The answer of /keys/changes, and the callers of the device list.
LEMMA CallersKeepInv ==
  ASSUME Inv,
         \/ KeyChanges \/ KeyChangesFails \/ (\E u \in Users : StartTracking(u))
         \/ \E users \in SUBSET Users \ {{}}, force \in BOOLEAN : Download(users, force)
  PROVE  Inv'
<1>0. NoRequest \in Position \X Position
  BY MaxPosAssumption DEF NoRequest, Position
<1>1. CASE KeyChanges
  <2>. DEFINE block == [op |-> "changes", left |-> {},
                        changed |-> {u \in Users : version[u] > since[1]}]
  <2>1. block \in Block
    BY DEF Block
  <2>2. queue' \in Seq(Block)
    <3>1. queue' = Append(queue, block)
      BY <1>1 DEF KeyChanges
    <3>. HIDE DEF block
    <3>. QED
      BY <2>1, <3>1, PartsHold
  <2>3. since[2] \in Position
    BY PartsHold
  <2>4. DownloadKeys(status, Outdated(status), FALSE, since[2])
    BY <1>1 DEF KeyChanges, RefreshOutdatedDeviceLists
  <2>5. Outdated(status) \in SUBSET Users
    BY DEF Outdated
  <2>6. PoolsGood' /\ OperationsAsked' /\ NextWaitsForCurrent' /\ TrackingGood'
    BY <2>3, <2>4, <2>5, PartsHold, DownloadKeysIsGood
  <2>. QED
    BY <1>0, <1>1, <2>2, <2>3, <2>6, PartsHold, InvFromParts DEF KeyChanges, server, session, keys
<1>2. CASE KeyChangesFails
  <2>1. status' \in [Users -> Status]
    BY <1>2, InvalidatedFacts DEF KeyChangesFails, Inv
  <2>2. TrackingGood'
    BY <1>2, <2>1, PartsHold DEF KeyChangesFails, TrackingGood
  <2>. QED
    BY <1>0, <1>2, <2>2, PartsHold, InvFromParts DEF KeyChangesFails, server, session, keys
<1>3. ASSUME NEW u \in Users, StartTracking(u) PROVE Inv'
  <2>1. TrackingGood'
    BY <1>3, PartsHold DEF StartTracking, TrackingGood, Status
  <2>. QED
    BY <1>3, <2>1, PartsHold, InvFromParts DEF StartTracking, server, session, keys
<1>4. ASSUME NEW users \in SUBSET Users \ {{}}, NEW force \in BOOLEAN, Download(users, force)
      PROVE  Inv'
  <2>1. DownloadKeys(status, users, force, lastKnown)
    BY <1>4 DEF Download
  <2>2. PoolsGood' /\ OperationsAsked' /\ NextWaitsForCurrent' /\ TrackingGood'
    BY <2>1, PartsHold, DownloadKeysIsGood
  <2>. QED
    BY <1>4, <2>2, PartsHold, InvFromParts DEF Download, server, session, keys
<1>. QED
  BY <1>1, <1>2, <1>3, <1>4

\* What the homeserver answers is about users it was asked for.
LEMMA AnswerFacts ==
  ASSUME HomeserverAnswers
  PROVE  \E served \in SUBSET current.asked :
           current' = [current EXCEPT !.stage = "answered", !.served = served,
                         !.devices = [u \in Users |-> IF u \in served THEN version[u] ELSE 0]]
<1>1. PICK served \in (IF "unreachable" \in Allowed THEN SUBSET current.asked
                       ELSE {current.asked}) :
        current' = [current EXCEPT !.stage = "answered", !.served = served,
                      !.devices = [u \in Users |-> IF u \in served THEN version[u] ELSE 0]]
  BY Zenon DEF HomeserverAnswers
<1>2. served \in SUBSET current.asked
  OBVIOUS
<1>. QED
  BY <1>1, <1>2, Zenon

\* Cancelling takes an operation from its pool, and leaves the rest as it is but for the query.
LEMMA CancelFacts ==
  ASSUME current \in Pool, next \in NextPool, NEW o, Cancel(o)
  PROVE  /\ current' \in Pool /\ current'.ops \subseteq current.ops
         /\ current'.stage \in {current.stage, "dead"}
         /\ current'.on = current.on /\ current'.asked = current.asked
         /\ current'.served = current.served /\ current'.devices = current.devices
         /\ current'.token = current.token
         /\ next' \in NextPool /\ next'.on = next.on
<1>1. ASSUME NEW stage \in {current.stage, "dead"},
             current' = [current EXCEPT !.ops = @ \ {o}, !.stage = stage], UNCHANGED next
      PROVE  /\ current' \in Pool /\ current'.ops \subseteq current.ops
             /\ current'.stage \in {current.stage, "dead"}
             /\ current'.on = current.on /\ current'.asked = current.asked
             /\ current'.served = current.served /\ current'.devices = current.devices
             /\ current'.token = current.token
             /\ next' \in NextPool /\ next'.on = next.on
  BY <1>1 DEF Pool
<1>2. ASSUME next' = [next EXCEPT !.ops = @ \ {o}], UNCHANGED current
      PROVE  next' \in NextPool /\ next'.on = next.on
  BY <1>2 DEF NextPool
<1>. QED
  BY <1>1, <1>2 DEF Cancel

\* The query of the current pool.
LEMMA NetworkKeepsInv ==
  ASSUME Inv, Network
  PROVE  Inv'
<1>1. CASE HomeserverAnswers
  <2>1. PICK served \in SUBSET current.asked :
          current' = [current EXCEPT !.stage = "answered", !.served = served,
                        !.devices = [u \in Users |-> IF u \in served THEN version[u] ELSE 0]]
    BY <1>1, AnswerFacts, Zenon
  <2>2. [u \in Users |-> IF u \in served THEN version[u] ELSE 0] \in [Users -> Position]
    BY PartsHold, MaxPosAssumption DEF Position
  <2>3. current' \in Pool /\ current'.on = current.on /\ current'.ops = current.ops
        /\ current'.asked = current.asked
    BY <2>1, <2>2, PartsHold DEF Pool
  <2>4. next' = next
    BY <1>1 DEF HomeserverAnswers
  <2>5. PoolsGood' /\ OperationsAsked' /\ NextWaitsForCurrent'
    BY <2>3, <2>4, PartsHold
    DEF Inv, PoolsGood, OperationsAsked, NextWaitsForCurrent, UsersOf
  <2>. QED
    BY <1>1, <2>5, PartsHold, InvFromParts DEF HomeserverAnswers, server, session, keys
<1>2. CASE Response
  <2>. DEFINE block == [op |-> "success", ops |-> current.ops, served |-> current.served]
  <2>1. block \in Block
    BY PartsHold DEF Block, Pool
  <2>2. queue' \in Seq(Block)
    <3>1. queue' = Append(queue, block)
      BY <1>2 DEF Response
    <3>. HIDE DEF block
    <3>. QED
      BY <2>1, <3>1, PartsHold
  <2>3. stored' \in [Users -> Position]
    BY <1>2, PartsHold DEF Response, Pool
  <2>4. Complete
    BY <1>2 DEF Response
  <2>. QED
    BY <2>2, <2>3, <2>4, PartsHold, CompleteIsGood, InvFromParts DEF Complete, server, session
<1>3. CASE QueryFails
  <2>. DEFINE block == [op |-> "failure", ops |-> current.ops]
  <2>1. block \in Block
    BY PartsHold DEF Block, Pool
  <2>2. queue' \in Seq(Block)
    <3>1. queue' = Append(queue, block)
      BY <1>3 DEF QueryFails
    <3>. HIDE DEF block
    <3>. QED
      BY <2>1, <3>1, PartsHold
  <2>3. Complete /\ stored' = stored
    BY <1>3 DEF QueryFails
  <2>. QED
    BY <2>2, <2>3, PartsHold, CompleteIsGood, InvFromParts DEF Complete, server, session
<1>. QED
  BY <1>1, <1>2, <1>3 DEF Network

\* Cancelling takes an operation from its pool, and leaves what the pool asks for.
LEMMA CancelKeepsInv ==
  ASSUME Inv, NEW o, Cancel(o)
  PROVE  Inv'
<1>1. /\ current' \in Pool /\ current'.on = current.on
      /\ current'.ops \subseteq current.ops /\ current'.asked = current.asked
      /\ next' \in NextPool /\ next'.on = next.on
  BY PartsHold, CancelFacts
<1>3. UsersOf(current'.ops) \subseteq UsersOf(current.ops)
  BY <1>1 DEF UsersOf
<1>4. PoolsGood' /\ NextWaitsForCurrent'
  BY <1>1 DEF Inv, PoolsGood, NextWaitsForCurrent
<1>5. OperationsAsked'
  BY <1>1, <1>3 DEF Inv, OperationsAsked, UsersOf
<1>. QED
  BY <1>4, <1>5, PartsHold, InvFromParts DEF Cancel, server, session, keys

\* A new account, or a session store that has been reset, is a good start.
LEMMA InitInv == Init => Inv
<1>. SUFFICES ASSUME Init PROVE Inv
  OBVIOUS
<1>1. 0 \in Position /\ 1 \in Position
  BY MaxPosAssumption DEF Position
<1>2. version \in [Users -> Position] /\ NoDevices \in [Users -> Position]
  BY <1>1 DEF Init, NoDevices
<1>3. TypeOK
  BY <1>1, <1>2, NoPoolFacts DEF Init, TypeOK, Status, NoRequest
<1>. QED
  BY <1>3, NoPoolFacts DEF Init, Inv, OperationsAsked, NextWaitsForCurrent

\* Every step keeps the invariant.
LEMMA NextKeepsInv == Inv /\ [Next]_vars => Inv'
<1>. SUFFICES ASSUME Inv, [Next]_vars PROVE Inv'
  OBVIOUS
<1>1. CASE UNCHANGED vars
  BY <1>1, PartsHold, InvFromParts DEF vars, server, session, keys
<1>2. CASE Next
  BY <1>2, SessionKeepsInv, RestartKeepsInv, CryptoQueueKeepsInv, CallersKeepInv,
     NetworkKeepsInv, CancelKeepsInv DEF Next
<1>. QED
  BY <1>1, <1>2

\* The types, the operations of the query and the order of the pools, together.
LEMMA InvHolds == Spec => []Inv
BY InitInv, NextKeepsInv, PTL DEF Spec

\* The state of MXDeviceList and of its pools keeps its types.
THEOREM DeviceTypeCorrect == Spec => []TypeOK
<1>1. Inv => TypeOK
  BY DEF Inv
<1>. QED
  BY <1>1, InvHolds, PTL

\* The assertion of MXDeviceListOperationsPool's addOperation, at all times and not
\* only when an operation is added: every operation of the pool being queried, the
\* ones that joined it included, is for users that its query asks for.
THEOREM PoolAsksForItsOperations == Spec => []OperationsAsked
<1>1. Inv => OperationsAsked
  BY DEF Inv
<1>. QED
  BY <1>1, InvHolds, PTL

\* nextQueryPool exists only behind currentQueryPool: the completion of a query, the
\* only thing that launches the next pool, is always still to come.
THEOREM NextPoolIsBehindAnother == Spec => []NextWaitsForCurrent
<1>1. Inv => NextWaitsForCurrent
  BY DEF Inv
<1>. QED
  BY <1>1, InvHolds, PTL

(***************************************************************************)
(* Downloads have a query: where a query neither fails nor is cancelled,   *)
(* every user in progress is in an operation of a pool, or of a block that *)
(* is to end it.                                                           *)
(***************************************************************************)
NoFailureWaits == \A i \in DOMAIN queue : queue[i].op # "failure"
PoolsIdle == (~current.on => current.ops = {}) /\ (~next.on => next.ops = {})
AskedFor == PoolsIdle /\ NoFailureWaits /\ InProgressHasQuery

\* A block more at the end of the queue...
LEMMA AppendFacts ==
  ASSUME NEW q \in Seq(Block), NEW b \in Block
  PROVE  /\ \A i \in DOMAIN q : i \in DOMAIN Append(q, b) /\ Append(q, b)[i] = q[i]
         /\ \A i \in DOMAIN Append(q, b) : i \in DOMAIN q \/ i = Len(q) + 1
         /\ Len(q) + 1 \in DOMAIN Append(q, b) /\ Append(q, b)[Len(q) + 1] = b
OBVIOUS

\* ... which handleSyncResponse makes of one or two.
LEMMA ConcatFacts ==
  ASSUME NEW q \in Seq(Block), NEW a \in Block, NEW b \in Block
  PROVE  /\ q \o <<>> \o <<b>> = Append(q, b)
         /\ q \o <<a>> \o <<b>> = Append(Append(q, a), b)
<1>1. q \o <<>> = q /\ q \o <<a>> = Append(q, a)
  OBVIOUS
<1>2. Append(q, a) \in Seq(Block)
  OBVIOUS
<1>3. \A r \in Seq(Block) : r \o <<b>> = Append(r, b)
  OBVIOUS
<1>. QED
  BY <1>1, <1>2, <1>3

\* ... and a block less at its start.
LEMMA TailFacts ==
  ASSUME NEW q \in Seq(Block), q # <<>>
  PROVE  /\ \A i \in DOMAIN Tail(q) : i \in Nat /\ i > 0 /\ i + 1 \in DOMAIN q /\ Tail(q)[i] = q[i + 1]
         /\ \A i \in DOMAIN q : i = 1 \/ (i - 1 \in DOMAIN Tail(q) /\ Tail(q)[i - 1] = q[i])
         /\ 1 \in DOMAIN q
OBVIOUS

\* The operations whose end is in the queue.
LEMMA InBlocksFacts ==
  \A o : o \in InBlocks <=>
    \E i \in DOMAIN queue : queue[i].op \in {"success", "failure"} /\ o \in queue[i].ops
BY DEF InBlocks

\* The same after a step.
LEMMA InBlocksFactsPrime ==
  \A o : o \in InBlocks' <=>
    \E i \in DOMAIN queue' : queue'[i].op \in {"success", "failure"} /\ o \in queue'[i].ops
BY DEF InBlocks

\* The queue grows at its end, shrinks at its start, or is as it was; the operations in it follow.
LEMMA QueueKeepsOperations ==
  ASSUME queue \in Seq(Block),
         \/ UNCHANGED queue
         \/ \E b \in Block : queue' = Append(queue, b)
         \/ queue # <<>> /\ Next1.op \in {"changes", "completed"} /\ queue' = Tail(queue)
  PROVE  InBlocks \subseteq InBlocks'
<1>1. CASE UNCHANGED queue
  BY <1>1 DEF InBlocks
<1>2. CASE \E b \in Block : queue' = Append(queue, b)
  BY <1>2, AppendFacts, InBlocksFacts, InBlocksFactsPrime
<1>3. CASE queue # <<>> /\ Next1.op \in {"changes", "completed"} /\ queue' = Tail(queue)
  <2>1. ASSUME NEW o \in InBlocks PROVE o \in InBlocks'
    <3>1. PICK i \in DOMAIN queue : queue[i].op \in {"success", "failure"} /\ o \in queue[i].ops
      BY <2>1, InBlocksFacts
    <3>2. i # 1
      BY <1>3, <3>1 DEF Next1
    <3>3. i - 1 \in DOMAIN queue' /\ queue'[i - 1] = queue[i]
      BY <1>3, <3>1, <3>2, TailFacts
    <3>. QED
      BY <3>1, <3>3, InBlocksFactsPrime
  <2>. QED
    BY <2>1
<1>. QED
  BY <1>1, <1>2, <1>3

\* downloadKeys drops no operation, and whoever becomes a user in progress gets one.
LEMMA DownloadKeysAsks ==
  ASSUME Inv, PoolsIdle, NEW st \in [Users -> Status], NEW users \in SUBSET Users,
         NEW force \in BOOLEAN, NEW t \in Position, DownloadKeys(st, users, force, t)
  PROVE  /\ PoolsIdle'
         /\ current.ops \cup next.ops \subseteq current'.ops \cup next'.ops
         /\ \A u \in Users : status'[u] = "inProgress" =>
              \/ st[u] = "inProgress" /\ latest'[u] = latest[u]
              \/ \E o \in current'.ops \cup next'.ops : o.id = latest'[u] /\ u \in o.users
<1>. DEFINE toDownload == {u \in users : st[u] = "inProgress" \/ NeedsQuery(st, u, force)}
            doANewQuery == \/ \E u \in users : NeedsQuery(st, u, force)
                           \/ current.on /\ ~CurrentPoolHas(toDownload)
<1>1. CASE toDownload = {}
  <2>1. status' = st /\ UNCHANGED <<saved, latest, pools>>
    BY <1>1 DEF DownloadKeys
  <2>. QED
    BY <2>1 DEF PoolsIdle, pools
<1>2. CASE toDownload # {}
  <2>1. PICK o \in [id : FreeOps, users : {toDownload}] :
          /\ status' = [u \in Users |-> IF u \in toDownload THEN "inProgress" ELSE st[u]]
          /\ saved' = status'
          /\ latest' = [u \in Users |-> IF u \in toDownload THEN o.id ELSE latest[u]]
          /\ IF ~current.on
             THEN /\ current' = Query(next.ops \cup {o}, UsersOf(next.ops) \cup toDownload, t)
                  /\ next' = NoNextPool
             ELSE IF doANewQuery
             THEN next' = [on |-> TRUE, ops |-> next.ops \cup {o}] /\ UNCHANGED current
             ELSE current' = [current EXCEPT !.ops = @ \cup {o}] /\ UNCHANGED next
    BY <1>2 DEF DownloadKeys
  <2>2. /\ o \in current'.ops \cup next'.ops /\ PoolsIdle'
        /\ current.ops \cup next.ops \subseteq current'.ops \cup next'.ops
    <3>1. CASE ~current.on
      BY <2>1, <3>1 DEF PoolsIdle, Query, NoNextPool
    <3>2. CASE current.on /\ doANewQuery
      BY <2>1, <3>2 DEF PoolsIdle
    <3>3. CASE current.on /\ ~doANewQuery
      BY <2>1, <3>3, PartsHold DEF PoolsIdle, Pool
    <3>. QED
      BY <3>1, <3>2, <3>3
  <2>3. o.users = toDownload
    OBVIOUS
  <2>4. ASSUME NEW u \in Users, status'[u] = "inProgress"
        PROVE  \/ st[u] = "inProgress" /\ latest'[u] = latest[u]
               \/ o.id = latest'[u] /\ u \in o.users
    BY <2>1, <2>3, <2>4
  <2>. QED
    BY <2>2, <2>4
<1>. QED
  BY <1>1, <1>2

\* A step that keeps operations and starts no download.
LEMMA AskedForStays ==
  ASSUME AskedFor, PoolsIdle', NoFailureWaits', Operations \subseteq Operations',
         \A u \in Users : status'[u] = "inProgress" =>
           status[u] = "inProgress" /\ latest'[u] = latest[u]
  PROVE  AskedFor'
BY DEF AskedFor, InProgressHasQuery

\* A step that refreshes or downloads.
LEMMA DownloadKeepsAskedFor ==
  ASSUME Inv, AskedFor, NoFailureWaits', InBlocks \subseteq InBlocks',
         NEW st \in [Users -> Status], NEW users \in SUBSET Users,
         NEW force \in BOOLEAN, NEW t \in Position, DownloadKeys(st, users, force, t),
         \A u \in Users : st[u] = "inProgress" => status[u] = "inProgress"
  PROVE  AskedFor'
<1>1. /\ PoolsIdle'
      /\ current.ops \cup next.ops \subseteq current'.ops \cup next'.ops
      /\ \A u \in Users : status'[u] = "inProgress" =>
           \/ st[u] = "inProgress" /\ latest'[u] = latest[u]
           \/ \E o \in current'.ops \cup next'.ops : o.id = latest'[u] /\ u \in o.users
  BY DownloadKeysAsks DEF AskedFor
<1>2. Operations \subseteq Operations' /\ current'.ops \cup next'.ops \subseteq Operations'
  BY <1>1 DEF Operations
<1>. QED
  BY <1>1, <1>2 DEF AskedFor, InProgressHasQuery

\* The blocks of cryptoQueue.
LEMMA CryptoQueueKeepsAskedFor ==
  ASSUME Inv, AskedFor, CryptoQueue
  PROVE  AskedFor'
<1>1. queue \in Seq(Block) /\ queue # <<>> /\ queue' = Tail(queue)
  BY PartsHold DEF CryptoQueue, Running, HandleDeviceListsChanges, OnSyncCompleted,
                   OperationsSucceed, OperationsFail
<1>2. NoFailureWaits'
  BY <1>1, TailFacts DEF AskedFor, NoFailureWaits
<1>3. CASE HandleDeviceListsChanges
  <2>1. Operations \subseteq Operations' /\ PoolsIdle'
    <3>1. InBlocks \subseteq InBlocks'
      BY <1>1, <1>3, QueueKeepsOperations DEF HandleDeviceListsChanges, Running
    <3>. QED
      BY <1>3, <3>1 DEF HandleDeviceListsChanges, pools, Operations, AskedFor, PoolsIdle
  <2>2. ASSUME NEW u \in Users, status'[u] = "inProgress"
        PROVE  status[u] = "inProgress" /\ latest'[u] = latest[u]
    BY <1>3, <2>2, PartsHold DEF HandleDeviceListsChanges, Invalidated
  <2>. QED
    BY <1>2, <2>1, <2>2, AskedForStays
<1>4. CASE OnSyncCompleted
  <2>. DEFINE st == IF Next1.old = 0 /\ deviceToken = 0 THEN Invalidated(Users) ELSE status
  <2>1. Next1.next \in Position
    BY <1>1, <1>4, BlockFacts DEF OnSyncCompleted, Running
  <2>2. st \in [Users -> Status]
    BY PartsHold, InvalidatedFacts DEF Inv
  <2>3. DownloadKeys(st, Outdated(st), FALSE, Next1.next) /\ Outdated(st) \in SUBSET Users
    BY <1>4 DEF OnSyncCompleted, RefreshOutdatedDeviceLists, Outdated
  <2>4. InBlocks \subseteq InBlocks'
    BY <1>1, <1>4, QueueKeepsOperations DEF OnSyncCompleted, Running
  <2>5. \A u \in Users : st[u] = "inProgress" => status[u] = "inProgress"
    BY DEF Invalidated
  <2>. HIDE DEF st
  <2>. QED
    BY <1>2, <2>1, <2>2, <2>3, <2>4, <2>5, DownloadKeepsAskedFor
<1>5. CASE OperationsSucceed
  <2>. DEFINE mine(u) == \E o \in Next1.ops : o.id = latest[u] /\ u \in o.users
  <2>1. /\ UNCHANGED <<current, next>>
        /\ status' = [u \in Users |->
                       IF status[u] # "inProgress" \/ u \notin UsersOf(Next1.ops) THEN status[u]
                       ELSE IF u \notin Next1.served THEN "unreachable"
                       ELSE IF mine(u) THEN "upToDate" ELSE status[u]]
        /\ latest' = [u \in Users |-> IF u \in Next1.served /\ mine(u) THEN None ELSE latest[u]]
    BY <1>5 DEF OperationsSucceed, pools
  <2>2. PoolsIdle'
    BY <2>1 DEF AskedFor, PoolsIdle
  <2>3. ASSUME NEW u \in Users, status'[u] = "inProgress"
        PROVE  \E o \in Operations' : o.id = latest'[u] /\ u \in o.users
    <3>1. status[u] = "inProgress" /\ (u \in UsersOf(Next1.ops) => u \in Next1.served /\ ~mine(u))
      BY <2>1, <2>3
    <3>2. ~mine(u)
      BY <3>1 DEF UsersOf
    <3>3. latest'[u] = latest[u]
      BY <2>1, <3>2
    <3>4. PICK o \in Operations : o.id = latest[u] /\ u \in o.users
      BY <3>1 DEF AskedFor, InProgressHasQuery
    <3>5. o \notin Next1.ops
      BY <3>2, <3>4
    <3>6. o \in Operations'
      <4>1. CASE o \in InBlocks
        <5>1. PICK i \in DOMAIN queue : queue[i].op \in {"success", "failure"} /\ o \in queue[i].ops
          BY <4>1, InBlocksFacts
        <5>2. i - 1 \in DOMAIN queue' /\ queue'[i - 1] = queue[i]
          BY <1>1, <3>5, <5>1, TailFacts DEF Next1
        <5>. QED
          BY <5>1, <5>2, InBlocksFactsPrime DEF Operations
      <4>2. CASE o \notin InBlocks
        BY <2>1, <3>4, <4>2 DEF Operations
      <4>. QED
        BY <4>1, <4>2
    <3>. QED
      BY <3>3, <3>4, <3>6
  <2>. QED
    BY <1>2, <2>2, <2>3 DEF AskedFor, InProgressHasQuery
<1>6. CASE OperationsFail
  BY <1>1, <1>6, TailFacts DEF OperationsFail, Running, Next1, AskedFor, NoFailureWaits
<1>. QED
  BY <1>3, <1>4, <1>5, <1>6 DEF CryptoQueue

\* The pool's operations go to a block, and those of the next pool to the current one.
LEMMA NetworkKeepsAskedFor ==
  ASSUME Inv, AskedFor, Network, "failure" \notin Allowed, "cancel" \notin Allowed
  PROVE  AskedFor'
<1>1. CASE HomeserverAnswers
  <2>1. current'.ops = current.ops /\ current'.on = current.on /\ next' = next
    BY <1>1, PartsHold DEF HomeserverAnswers, Pool
  <2>2. UNCHANGED <<queue, status, latest>>
    BY <1>1 DEF HomeserverAnswers, tracking
  <2>3. Operations \subseteq Operations' /\ PoolsIdle' /\ NoFailureWaits'
    BY <2>1, <2>2, QueueKeepsOperations, PartsHold
    DEF Operations, AskedFor, PoolsIdle, NoFailureWaits
  <2>. QED
    BY <2>2, <2>3, AskedForStays
<1>2. CASE Response
  <2>. DEFINE block == [op |-> "success", ops |-> current.ops, served |-> current.served]
  <2>1. block \in Block /\ queue \in Seq(Block) /\ queue' = Append(queue, block)
    BY <1>2, PartsHold DEF Block, Pool, Response
  <2>2. current.ops \cup InBlocks \subseteq InBlocks'
    <3>1. InBlocks \subseteq InBlocks'
      BY <2>1, QueueKeepsOperations
    <3>2. ASSUME NEW o \in current.ops PROVE o \in InBlocks'
      <4>1. block.op = "success" /\ o \in block.ops
        OBVIOUS
      <4>. HIDE DEF block
      <4>. QED
        BY <2>1, <4>1, AppendFacts, InBlocksFactsPrime
    <3>. QED
      BY <3>1, <3>2
  <2>3. NoFailureWaits'
    <3>1. block.op # "failure"
      OBVIOUS
    <3>. HIDE DEF block
    <3>. QED
      BY <2>1, <3>1, AppendFacts DEF AskedFor, NoFailureWaits
  <2>4. next.ops \subseteq current'.ops /\ PoolsIdle'
    BY <1>2 DEF Response, Complete, Query, NoPool, NoNextPool, AskedFor, PoolsIdle
  <2>5. Operations \subseteq Operations'
    BY <2>2, <2>4 DEF Operations
  <2>6. UNCHANGED <<status, latest>>
    BY <1>2 DEF Response, Complete, tracking
  <2>. QED
    BY <2>3, <2>4, <2>5, <2>6, AskedForStays
<1>3. CASE QueryFails
  BY <1>3 DEF QueryFails
<1>. QED
  BY <1>1, <1>2, <1>3 DEF Network

\* The session's thread, the callers and a restart.
LEMMA OthersKeepAskedFor ==
  ASSUME Inv, AskedFor,
         \/ \E u \in Users : ServerChange(u) \/ StartTracking(u)
         \/ Sync \/ CommitSession \/ Restart \/ KeyChanges \/ KeyChangesFails
         \/ \E users \in SUBSET Users \ {{}}, force \in BOOLEAN : Download(users, force)
  PROVE  AskedFor'
<1>1. ASSUME UNCHANGED <<queue, pools, latest>>,
             \A u \in Users : status'[u] = "inProgress" => status[u] = "inProgress"
      PROVE  AskedFor'
  BY <1>1, QueueKeepsOperations, PartsHold, AskedForStays
  DEF pools, Operations, AskedFor, PoolsIdle, NoFailureWaits
<1>2. ASSUME NEW u \in Users, ServerChange(u) \/ StartTracking(u) PROVE AskedFor'
  BY <1>1, <1>2, PartsHold DEF ServerChange, StartTracking, tracking
<1>3. CASE CommitSession
  BY <1>1, <1>3 DEF CommitSession, tracking
<1>4. CASE KeyChangesFails
  BY <1>1, <1>4, PartsHold DEF KeyChangesFails, Invalidated
<1>5. CASE Sync
  <2>1. UNCHANGED <<status, latest, current, next>>
    BY <1>5 DEF Sync, tracking, pools
  <2>2. PICK left \in SUBSET Users :
          LET changed == IF token = 0 THEN {} ELSE {u \in Users : version[u] > token}
              lists == [op |-> "changes", changed |-> changed, left |-> left]
          IN  queue' = queue \o (IF changed \cup left = {} THEN <<>> ELSE <<lists>>)
                             \o <<[op |-> "completed", old |-> token, next |-> pos]>>
    BY <1>5 DEF Sync
  <2>. DEFINE changed == IF token = 0 THEN {} ELSE {u \in Users : version[u] > token}
              lists == [op |-> "changes", changed |-> changed, left |-> left]
              completed == [op |-> "completed", old |-> token, next |-> pos]
  <2>3. lists \in Block /\ completed \in Block
        /\ lists.op # "failure" /\ completed.op # "failure"
    BY PartsHold DEF Block
  <2>4. queue' = Append(queue, completed) \/ queue' = Append(Append(queue, lists), completed)
    <3>. HIDE DEF lists, completed, changed
    <3>1. queue' = queue \o (IF changed \cup left = {} THEN <<>> ELSE <<lists>>) \o <<completed>>
      BY <2>2 DEF changed, lists, completed
    <3>. QED
      BY <2>3, <3>1, PartsHold, ConcatFacts
  <2>5. NoFailureWaits' /\ InBlocks \subseteq InBlocks'
    <3>. HIDE DEF lists, completed, changed
    <3>1. \A b \in Block : Append(queue, b) \in Seq(Block)
      BY PartsHold
    <3>2. \A i \in DOMAIN queue : i \in DOMAIN queue' /\ queue'[i] = queue[i]
      BY <2>3, <2>4, <3>1, AppendFacts, PartsHold
    <3>3. \A i \in DOMAIN queue' : i \in DOMAIN queue \/ queue'[i] \in {lists, completed}
      BY <2>3, <2>4, <3>1, AppendFacts, PartsHold
    <3>. QED
      BY <2>3, <3>2, <3>3, InBlocksFacts, InBlocksFactsPrime DEF AskedFor, NoFailureWaits
  <2>. QED
    BY <2>1, <2>5, AskedForStays DEF Operations, AskedFor, PoolsIdle
<1>6. CASE Restart
  <2>1. \A u \in Users : status'[u] # "inProgress"
    BY <1>6, PartsHold DEF Restart
  <2>2. PoolsIdle' /\ NoFailureWaits'
    BY <1>6 DEF Restart, PoolsIdle, NoPool, NoNextPool, NoFailureWaits
  <2>. QED
    BY <2>1, <2>2 DEF AskedFor, InProgressHasQuery
<1>7. CASE KeyChanges
  <2>. DEFINE block == [op |-> "changes", left |-> {},
                        changed |-> {u \in Users : version[u] > since[1]}]
  <2>1. block \in Block /\ block.op # "failure"
    BY DEF Block
  <2>2. queue' = Append(queue, block)
    BY <1>7 DEF KeyChanges
  <2>3. NoFailureWaits' /\ InBlocks \subseteq InBlocks'
    <3>. HIDE DEF block
    <3>. QED
      BY <2>1, <2>2, AppendFacts, QueueKeepsOperations, PartsHold DEF AskedFor, NoFailureWaits
  <2>4. DownloadKeys(status, Outdated(status), FALSE, since[2])
        /\ Outdated(status) \in SUBSET Users /\ since[2] \in Position
    BY <1>7, PartsHold DEF KeyChanges, RefreshOutdatedDeviceLists, Outdated
  <2>. QED
    BY <2>3, <2>4, PartsHold, DownloadKeepsAskedFor
<1>8. ASSUME NEW users \in SUBSET Users \ {{}}, NEW force \in BOOLEAN, Download(users, force)
      PROVE  AskedFor'
  <2>1. DownloadKeys(status, users, force, lastKnown) /\ UNCHANGED queue
    BY <1>8 DEF Download
  <2>2. NoFailureWaits' /\ InBlocks \subseteq InBlocks'
    BY <2>1, QueueKeepsOperations, PartsHold DEF AskedFor, NoFailureWaits
  <2>. QED
    BY <2>1, <2>2, PartsHold, DownloadKeepsAskedFor
<1>. QED
  BY <1>2, <1>3, <1>4, <1>5, <1>6, <1>7, <1>8

\* A download in progress is never forgotten: it is in a pool, or a block that ends it is on its
\* way, however callers join, users leave, homeservers do not answer and the process dies.  A query
\* that fails, or that is cancelled, leaves its users in progress: the code looks no further.
THEOREM DownloadsHaveQueries ==
  ASSUME "failure" \notin Allowed, "cancel" \notin Allowed
  PROVE  Spec => []InProgressHasQuery
<1>1. Init => AskedFor
  BY NoPoolFacts DEF Init, AskedFor, PoolsIdle, NoFailureWaits, InProgressHasQuery
<1>2. Inv /\ AskedFor /\ [Next]_vars => AskedFor'
  <2>. SUFFICES ASSUME Inv, AskedFor, [Next]_vars PROVE AskedFor'
    OBVIOUS
  <2>1. CASE UNCHANGED vars
    BY <2>1 DEF vars, pools, tracking, AskedFor, PoolsIdle, NoFailureWaits, InProgressHasQuery,
                Operations, InBlocks
  <2>2. CASE Next
    <3>1. ~ \E o \in current.ops \cup next.ops : Cancel(o)
      BY DEF Cancel
    <3>. QED
      BY <2>2, <3>1, CryptoQueueKeepsAskedFor, NetworkKeepsAskedFor, OthersKeepAskedFor
      DEF Next
  <2>. QED
    BY <2>1, <2>2
<1>3. AskedFor => InProgressHasQuery
  BY DEF AskedFor
<1>. QED
  BY <1>1, <1>2, <1>3, InvHolds, PTL DEF Spec

(***************************************************************************)
(* Up to date means what the client was told.  Nobody joins a query that   *)
(* is under way and nobody leaves, for the code is wrong then; and no token *)
(* reaches the disk that the device lists have not seen, nor is lost alone.*)
(***************************************************************************)
Undisturbed == {"join", "leave", "lag", "reset"} \cap Allowed = {}

\* A device list starts with an initial sync, and nothing is asked of /keys/changes.
Started ==
  /\ since = NoRequest
  /\ deviceToken = 0 => lastKnown = 0 /\ current.token = 0
  /\ token = 0 => deviceToken = 0 /\ (\A i \in DOMAIN queue : queue[i].op # "completed")
  /\ \A i \in DOMAIN queue : queue[i].op = "completed" /\ queue[i].old = 0 => deviceToken = 0

Positions ==
  /\ \A u \in Users : version[u] > 0 /\ version[u] <= pos
  /\ durableToken <= token /\ token <= pos

\* Only the first sync has no token to start from; the changes that a sync brought are followed
\* by its end, which refreshes.
QueueShape ==
  /\ \A i \in DOMAIN queue : queue[i].op = "completed" => queue[i].next # 0
  /\ \A i, j \in DOMAIN queue :
       i < j /\ queue[i].op = "completed" /\ queue[j].op = "completed" => queue[j].old # 0
  /\ \A i \in DOMAIN queue : queue[i].op = "changes" =>
       queue[i].left = {} /\ i + 1 \in DOMAIN queue /\ queue[i + 1].op = "completed"

\* The client has taken note of what the token on disk covers.
DurableTold == \A u \in Users : version[u] <= durableToken => Told(u)

\* The store never goes back: what a query brings is no older than what is stored.
AnswersFit ==
  \A u \in Users :
    /\ stored[u] <= version[u]
    /\ current.stage = "answered" /\ u \in current.served =>
         stored[u] <= current.devices[u] /\ current.devices[u] <= version[u]

\* If these operations succeed, u becomes up to date.
Ends(ops, u) ==
  /\ status[u] = "inProgress" /\ Told(u)
  /\ \E o \in ops : o.id = latest[u] /\ u \in o.users

\* A query's answer that will make a user up to date has its last devices...
AnswerFresh ==
  \A u \in Users : current.stage = "answered" /\ u \in current.served /\ Ends(current.ops, u) =>
    current.devices[u] = version[u]

\* ... and so has the store when a block is to do so.
BlockFresh ==
  \A u \in Users : \A i \in DOMAIN queue :
    queue[i].op = "success" /\ u \in queue[i].served /\ Ends(queue[i].ops, u) =>
      stored[u] = version[u]

\* What a new process would find is up to date with the token it would find.
SavedFresh ==
  \A u \in Users : saved[u] = "upToDate" /\ version[u] <= durableToken => stored[u] = version[u]

\* Until a status is saved again, the end of the sync that changed it is to come.
SavedSoon ==
  \A u \in Users : saved[u] = "upToDate" /\ status[u] # "upToDate" =>
    status[u] = "pending" /\ \E i \in DOMAIN queue : queue[i].op = "completed"

Noted == Started /\ Positions /\ QueueShape /\ DurableTold
Claims == AnswersFit /\ Fresh /\ AnswerFresh /\ BlockFresh
Saved == SavedFresh /\ SavedSoon
FreshInv == Noted /\ Claims /\ Saved

\* What ends a query was waiting before the step.
NoNewSuccess ==
  \A i \in DOMAIN queue' : queue'[i].op = "success" => \E j \in DOMAIN queue : queue'[i] = queue[j]

\* What u's last change still needs to be told is told only by the block that tells it.
LEMMA ToldBefore ==
  ASSUME queue \in Seq(Block), Started, UNCHANGED <<version, token>>,
         \/ UNCHANGED queue
         \/ \E b \in Block : queue' = Append(queue, b)
         \/ queue # <<>> /\ queue' = Tail(queue),
         NEW u \in Users, Told(u)',
         queue # <<>> /\ queue' = Tail(queue) =>
           /\ Next1.op = "changes" => u \notin Next1.changed
           /\ Next1.op = "completed" => Next1.old # 0
  PROVE  Told(u)
<1>0. version[u] <= token /\ since = NoRequest
  BY DEF Told, Started
<1>1. ASSUME NEW i \in DOMAIN queue
      PROVE  /\ queue[i].op = "changes" => u \notin queue[i].changed
             /\ queue[i].op = "completed" => queue[i].old # 0
  <2>1. CASE queue' = queue
    BY <2>1 DEF Told
  <2>2. CASE \E b \in Block : queue' = Append(queue, b)
    <3>1. i \in DOMAIN queue' /\ queue'[i] = queue[i]
      BY <2>2, AppendFacts
    <3>. QED
      BY <3>1 DEF Told
  <2>3. CASE queue # <<>> /\ queue' = Tail(queue)
    <3>1. CASE i = 1
      BY <2>3, <3>1 DEF Next1
    <3>2. CASE i # 1
      <4>1. i - 1 \in DOMAIN queue' /\ queue'[i - 1] = queue[i]
        BY <2>3, <3>2, TailFacts
      <4>. QED
        BY <4>1 DEF Told
    <3>. QED
      BY <3>1, <3>2
  <2>. QED
    BY <2>1, <2>2, <2>3
<1>. QED
  BY <1>0, <1>1 DEF Told

\* Who was told stays so until something new comes.
LEMMA ToldAfter ==
  ASSUME UNCHANGED <<version, token, since>>,
         \A i \in DOMAIN queue' : queue'[i].op \in {"changes", "completed"} =>
           \E j \in DOMAIN queue : queue'[i] = queue[j],
         NEW u \in Users, Told(u)
  PROVE  Told(u)'
BY DEF Told

\* The order of the queue survives the end of its first block...
LEMMA TailKeepsShape ==
  ASSUME queue \in Seq(Block), QueueShape, queue # <<>>, queue' = Tail(queue)
  PROVE  /\ QueueShape' /\ NoNewSuccess
         /\ \A i \in DOMAIN queue' : \E j \in DOMAIN queue : queue'[i] = queue[j]
<1>1. /\ \A i \in DOMAIN queue' :
           i \in Nat /\ i > 0 /\ i + 1 \in DOMAIN queue /\ queue'[i] = queue[i + 1]
      /\ \A i \in DOMAIN queue : i = 1 \/ (i - 1 \in DOMAIN queue' /\ queue'[i - 1] = queue[i])
  BY TailFacts
<1>2. ASSUME NEW i \in DOMAIN queue', queue'[i].op = "completed" PROVE queue'[i].next # 0
  BY <1>1, <1>2 DEF QueueShape
<1>3. ASSUME NEW i \in DOMAIN queue', NEW j \in DOMAIN queue', i < j,
             queue'[i].op = "completed", queue'[j].op = "completed"
      PROVE  queue'[j].old # 0
  <2>1. i + 1 \in DOMAIN queue /\ j + 1 \in DOMAIN queue /\ i + 1 < j + 1
        /\ queue'[i] = queue[i + 1] /\ queue'[j] = queue[j + 1]
    BY <1>1, <1>3
  <2>. QED
    BY <1>3, <2>1 DEF QueueShape
<1>4. ASSUME NEW i \in DOMAIN queue', queue'[i].op = "changes"
      PROVE  queue'[i].left = {} /\ i + 1 \in DOMAIN queue' /\ queue'[i + 1].op = "completed"
  <2>1. i \in Nat /\ i > 0 /\ i + 1 \in DOMAIN queue /\ queue'[i] = queue[i + 1]
    BY <1>1
  <2>2. queue[i + 1].left = {} /\ (i + 1) + 1 \in DOMAIN queue
        /\ queue[(i + 1) + 1].op = "completed"
    BY <1>4, <2>1 DEF QueueShape
  <2>3. (i + 1) + 1 # 1 /\ ((i + 1) + 1) - 1 = i + 1
    BY <2>1
  <2>4. i + 1 \in DOMAIN queue' /\ queue'[i + 1] = queue[(i + 1) + 1]
    BY <1>1, <2>2, <2>3
  <2>. QED
    BY <2>1, <2>2, <2>4
<1>5. \A i \in DOMAIN queue' : \E j \in DOMAIN queue : queue'[i] = queue[j]
  BY <1>1
<1>. QED
  BY <1>2, <1>3, <1>4, <1>5 DEF QueueShape, NoNewSuccess

\* ... and a block of results at its end.
LEMMA ResultsKeepShape ==
  ASSUME queue \in Seq(Block), QueueShape, NEW b \in Block, b.op \in {"success", "failure"},
         queue' = Append(queue, b)
  PROVE  /\ QueueShape'
         /\ \A i \in DOMAIN queue' : (\E j \in DOMAIN queue : queue'[i] = queue[j]) \/ queue'[i] = b
<1>1. /\ \A i \in DOMAIN queue : i \in DOMAIN queue' /\ queue'[i] = queue[i]
      /\ \A i \in DOMAIN queue' : i \in DOMAIN queue \/ i = Len(queue) + 1
      /\ queue'[Len(queue) + 1] = b
  BY AppendFacts
<1>2. \A i \in DOMAIN queue' : queue'[i].op \in {"changes", "completed"} =>
        i \in DOMAIN queue /\ queue'[i] = queue[i]
  BY <1>1
<1>. QED
  BY <1>1, <1>2 DEF QueueShape

\* Steps that are nothing to the stream: results of queries come and go.
LEMMA NotedStays ==
  ASSUME queue \in Seq(Block), Noted,
         UNCHANGED <<pos, version, token, durableToken, since, lastKnown>>,
         \/ UNCHANGED queue
         \/ \E b \in Block : b.op \in {"success", "failure"} /\ queue' = Append(queue, b)
         \/ queue # <<>> /\ Next1.op \in {"success", "failure"} /\ queue' = Tail(queue),
         deviceToken' = deviceToken \/ (current.token # 0 /\ deviceToken' # 0),
         current'.token \in {current.token, lastKnown, 0}
  PROVE  Noted'
<1>1. /\ QueueShape'
      /\ \A i \in DOMAIN queue' : queue'[i].op \in {"changes", "completed"} =>
           \E j \in DOMAIN queue : queue'[i] = queue[j]
  <2>1. CASE UNCHANGED queue
    BY <2>1 DEF Noted, QueueShape
  <2>2. CASE \E b \in Block : b.op \in {"success", "failure"} /\ queue' = Append(queue, b)
    BY <2>2, ResultsKeepShape DEF Noted
  <2>3. CASE queue # <<>> /\ Next1.op \in {"success", "failure"} /\ queue' = Tail(queue)
    BY <2>3, TailKeepsShape DEF Noted
  <2>. QED
    BY <2>1, <2>2, <2>3
<1>2. DurableTold'
  BY <1>1, ToldAfter DEF Noted, DurableTold
<1>3. Started'
  BY <1>1 DEF Noted, Started
<1>4. Positions'
  BY DEF Noted, Positions
<1>. QED
  BY <1>1, <1>2, <1>3, <1>4 DEF Noted

\* A step after which nobody who was told is newly up to date, or in progress.
LEMMA ClaimsStay ==
  ASSUME Claims, AnswersFit', UNCHANGED stored, NoNewSuccess,
         current'.stage = "answered" =>
           /\ current.stage = "answered" /\ current'.ops \subseteq current.ops
           /\ current'.served = current.served /\ current'.devices = current.devices,
         \A u \in Users : Told(u)' => version'[u] = version[u],
         \A u \in Users : Told(u)' /\ status'[u] = "upToDate" =>
           (status[u] = "upToDate" /\ Told(u)) \/ stored[u] = version[u],
         \A u \in Users : Told(u)' /\ status'[u] = "inProgress" =>
           status[u] = "inProgress" /\ Told(u) /\ latest'[u] = latest[u]
  PROVE  Claims'
<1>1. Fresh'
  BY DEF Claims, Fresh
<1>2. AnswerFresh'
  BY DEF Claims, AnswerFresh, Ends
<1>3. BlockFresh'
  BY DEF Claims, BlockFresh, Ends, NoNewSuccess
<1>. QED
  BY <1>1, <1>2, <1>3 DEF Claims

\* downloadKeys, for users that are not in progress: whoever needs it gets an operation of its own,
\* in a query that is not sent yet or only now.
AsksAnew(st, users, t) ==
  \E D \in SUBSET users :
    /\ \A u \in Users : status'[u] = IF u \in D THEN "inProgress" ELSE st[u]
    /\ \A u \in D : \A o \in Operations : o.id # latest'[u]
    /\ \A u \in Users \ D : latest'[u] = latest[u]
    /\ (D = {} /\ saved' = saved) \/ saved' = status'
    /\ current' = current \/ (current'.stage = "sent" /\ current'.token = t)
    /\ \A u \in users : st[u] = "pending" => u \in D

\* The code does so: it never takes the query under way for such users.
LEMMA DownloadKeysAsksAnew ==
  ASSUME Inv, NEW st \in [Users -> Status], NEW users \in SUBSET Users, NEW force \in BOOLEAN,
         NEW t \in Position, DownloadKeys(st, users, force, t),
         \A u \in users : st[u] # "inProgress"
  PROVE  AsksAnew(st, users, t)
<1>. DEFINE toDownload == {u \in users : st[u] = "inProgress" \/ NeedsQuery(st, u, force)}
            doANewQuery == \/ \E u \in users : NeedsQuery(st, u, force)
                           \/ current.on /\ ~CurrentPoolHas(toDownload)
<1>0. \A u \in users : st[u] = "pending" => u \in toDownload
  BY DEF NeedsQuery
<1>1. CASE toDownload = {}
  <2>1. status' = st /\ UNCHANGED <<saved, latest, pools>>
    BY <1>1 DEF DownloadKeys
  <2>. QED
    BY <1>0, <1>1, <2>1 DEF pools, AsksAnew
<1>2. CASE toDownload # {}
  <2>1. PICK o \in [id : FreeOps, users : {toDownload}] :
          /\ status' = [u \in Users |-> IF u \in toDownload THEN "inProgress" ELSE st[u]]
          /\ saved' = status'
          /\ latest' = [u \in Users |-> IF u \in toDownload THEN o.id ELSE latest[u]]
          /\ IF ~current.on
             THEN /\ current' = Query(next.ops \cup {o}, UsersOf(next.ops) \cup toDownload, t)
                  /\ next' = NoNextPool
             ELSE IF doANewQuery
             THEN next' = [on |-> TRUE, ops |-> next.ops \cup {o}] /\ UNCHANGED current
             ELSE current' = [current EXCEPT !.ops = @ \cup {o}] /\ UNCHANGED next
    BY <1>2 DEF DownloadKeys
  <2>2. doANewQuery
    BY <1>2
  <2>3. current' = current \/ (current'.stage = "sent" /\ current'.token = t)
    BY <2>1, <2>2 DEF Query
  <2>4. \A p \in Operations : p.id # o.id
    BY DEF FreeOps
  <2>5. \A u \in Users : status'[u] = IF u \in toDownload THEN "inProgress" ELSE st[u]
    BY <2>1
  <2>6. \A u \in toDownload : \A p \in Operations : p.id # latest'[u]
    BY <2>1, <2>4
  <2>7. \A u \in Users \ toDownload : latest'[u] = latest[u]
    BY <2>1
  <2>8. toDownload \in SUBSET users
    OBVIOUS
  <2>9. saved' = status'
    BY <2>1
  <2>. HIDE DEF toDownload, doANewQuery
  <2>. QED
    BY <1>0, <2>3, <2>5, <2>6, <2>7, <2>8, <2>9 DEF AsksAnew
<1>. QED
  BY <1>1, <1>2

\* A download changes nothing of what is claimed of others, and claims nothing of its own.
LEMMA DownloadKeepsClaims ==
  ASSUME Inv, Claims, NEW st \in [Users -> Status], NEW users \in SUBSET Users,
         NEW force \in BOOLEAN, NEW t \in Position, DownloadKeys(st, users, force, t),
         \A u \in users : st[u] # "inProgress",
         NoNewSuccess, UNCHANGED <<stored, version>>,
         \A u \in Users : st[u] \in {"upToDate", "inProgress"} /\ Told(u)' =>
           Told(u) /\ status[u] = st[u]
  PROVE  Claims'
<1>1. PICK D \in SUBSET users :
        /\ \A u \in Users : status'[u] = IF u \in D THEN "inProgress" ELSE st[u]
        /\ \A u \in D : \A o \in Operations : o.id # latest'[u]
        /\ \A u \in Users \ D : latest'[u] = latest[u]
        /\ (D = {} /\ saved' = saved) \/ saved' = status'
        /\ current' = current \/ (current'.stage = "sent" /\ current'.token = t)
        /\ \A u \in users : st[u] = "pending" => u \in D
  <2>1. AsksAnew(st, users, t)
    BY DownloadKeysAsksAnew
  <2>. QED
    BY <2>1 DEF AsksAnew
<1>2. ASSUME NEW ops, ops \subseteq Operations, NEW u \in Users, Ends(ops, u)'
      PROVE  Ends(ops, u)
  <2>1. PICK o \in ops : o.id = latest'[u] /\ u \in o.users
    BY <1>2 DEF Ends
  <2>2. status'[u] = "inProgress" /\ Told(u)'
    BY <1>2 DEF Ends
  <2>3. u \notin D
    BY <1>1, <1>2, <2>1
  <2>4. status[u] = "inProgress" /\ Told(u) /\ latest'[u] = latest[u]
    BY <1>1, <2>2, <2>3
  <2>. QED
    BY <2>1, <2>4 DEF Ends
<1>3. AnswersFit'
  BY <1>1 DEF Claims, AnswersFit
<1>4. Fresh'
  BY <1>1 DEF Claims, Fresh
<1>5. AnswerFresh'
  BY <1>1, <1>2 DEF Claims, AnswerFresh, Operations
<1>6. BlockFresh'
  <2>1. SUFFICES ASSUME NEW u \in Users, NEW i \in DOMAIN queue', queue'[i].op = "success",
                        u \in queue'[i].served, Ends(queue[i].ops, u)'
                 PROVE  stored'[u] = version'[u]
    BY DEF BlockFresh
  <2>2. PICK j \in DOMAIN queue : queue'[i] = queue[j]
    BY <2>1 DEF NoNewSuccess
  <2>3. queue[j].ops \subseteq Operations
    BY <2>1, <2>2, InBlocksFacts DEF Operations
  <2>4. Ends(queue[j].ops, u)
    BY <1>2, <2>1, <2>2, <2>3 DEF Ends
  <2>. QED
    BY <2>1, <2>2, <2>4 DEF Claims, BlockFresh
<1>. QED
  BY <1>3, <1>4, <1>5, <1>6 DEF Claims

\* The homeserver, and callers that start to track a user.
LEMMA ServerKeepsFresh ==
  ASSUME Inv, FreshInv, NEW u \in Users, ServerChange(u) \/ StartTracking(u)
  PROVE  FreshInv'
<1>1. NoNewSuccess
  BY DEF ServerChange, StartTracking, NoNewSuccess
<1>2. CASE ServerChange(u)
  <2>1. /\ version' = [version EXCEPT ![u] = pos + 1] /\ pos' = pos + 1
        /\ UNCHANGED <<token, durableToken, queue, since, status, saved, stored, deviceToken,
                       lastKnown, latest, current, next>>
    BY <1>2 DEF ServerChange, session, tracking, keys, pools
  <2>2. /\ version'[u] = pos + 1
        /\ \A v \in Users : v # u => version'[v] = version[v]
    BY <2>1, PartsHold
  <2>3. Positions' /\ pos + 1 > token /\ pos + 1 > durableToken
    <3>1. /\ pos \in Nat /\ token \in Nat /\ durableToken \in Nat
          /\ durableToken <= token /\ token <= pos
      BY PartsHold DEF FreshInv, Noted, Positions, Position
    <3>2. ASSUME NEW v \in Users PROVE version'[v] > 0 /\ version'[v] <= pos + 1
      <4>1. version[v] \in Nat /\ version[v] > 0 /\ version[v] <= pos
        BY PartsHold DEF FreshInv, Noted, Positions, Position
      <4>. QED
        BY <2>2, <3>1, <4>1
    <3>. QED
      BY <2>1, <3>1, <3>2 DEF Positions
  <2>4. \A v \in Users : Told(v)' => v # u /\ Told(v) /\ version'[v] = version[v]
    BY <2>1, <2>2, <2>3, PartsHold DEF Told, Position
  <2>5. DurableTold'
    <3>1. ASSUME NEW v \in Users, version'[v] <= durableToken' PROVE Told(v)'
      <4>1. v # u
        <5>1. pos + 1 > durableToken
          BY <2>3
        <5>2. pos \in Nat /\ durableToken \in Nat
          BY PartsHold DEF Position
        <5>. QED
          BY <2>1, <2>2, <3>1, <5>1, <5>2
      <4>2. Told(v) /\ version'[v] = version[v]
        BY <2>1, <2>2, <3>1, <4>1 DEF FreshInv, Noted, DurableTold
      <4>. QED
        BY <2>1, <4>2 DEF Told
    <3>. QED
      BY <3>1 DEF DurableTold
  <2>6. AnswersFit'
    <3>1. ASSUME NEW v \in Users PROVE version[v] <= version'[v]
      <4>1. version[v] \in Nat /\ pos \in Nat /\ version[v] <= pos
        BY PartsHold DEF FreshInv, Noted, Positions, Position
      <4>. QED
        BY <2>2, <4>1
    <3>2. \A v \in Users : stored[v] \in Nat /\ version[v] \in Nat /\ version'[v] \in Nat
                           /\ current.devices[v] \in Nat
      BY <2>1, <2>2, PartsHold DEF Pool, Position
    <3>. QED
      BY <2>1, <3>1, <3>2 DEF FreshInv, Claims, AnswersFit
  <2>7. Claims'
    BY <1>1, <2>1, <2>4, <2>6, ClaimsStay DEF FreshInv
  <2>8. Started' /\ QueueShape'
    BY <2>1 DEF FreshInv, Noted, Started, QueueShape
  <2>9. SavedFresh'
    BY <2>1, <2>2, <2>3, PartsHold DEF FreshInv, Saved, SavedFresh, Position
  <2>10. SavedSoon'
    BY <2>1 DEF FreshInv, Saved, SavedSoon
  <2>. QED
    BY <2>3, <2>5, <2>7, <2>8, <2>9, <2>10 DEF FreshInv, Noted, Saved
<1>3. CASE StartTracking(u)
  <2>1. /\ UNCHANGED <<pos, version, token, durableToken, queue, since, saved, stored, deviceToken,
                       lastKnown, latest, current, next>>
        /\ status[u] = "notTracked" /\ status' = [status EXCEPT ![u] = "pending"]
    BY <1>3 DEF StartTracking, server, session, keys, pools
  <2>2. Noted'
    BY <2>1, PartsHold, NotedStays DEF FreshInv
  <2>3. \A v \in Users : status'[v] = status[v] \/ (v = u /\ status'[v] = "pending")
    BY <2>1, PartsHold
  <2>4. \A v \in Users : Told(v)' => Told(v)
    BY <2>1 DEF Told
  <2>5. AnswersFit'
    BY <2>1 DEF FreshInv, Claims, AnswersFit
  <2>6. Claims'
    BY <1>1, <2>1, <2>3, <2>4, <2>5, ClaimsStay DEF FreshInv
  <2>7. saved[u] # "upToDate"
    BY <2>1 DEF FreshInv, Saved, SavedSoon
  <2>8. Saved'
    BY <2>1, <2>3, <2>7 DEF FreshInv, Saved, SavedFresh, SavedSoon
  <2>. QED
    BY <2>2, <2>6, <2>8 DEF FreshInv
<1>. QED
  BY <1>2, <1>3

\* What handleSyncResponse queues: the changes since its token, if there are any, and its end.
LEMMA SyncQueues ==
  ASSUME Inv, Undisturbed, Sync
  PROVE  \E changed \in SUBSET Users :
           LET lists == [op |-> "changes", changed |-> changed, left |-> {}]
               completed == [op |-> "completed", old |-> token, next |-> pos]
           IN  /\ token # 0 => changed = {u \in Users : version[u] > token}
               /\ \A i \in DOMAIN queue : i \in DOMAIN queue' /\ queue'[i] = queue[i]
               /\ \A i \in DOMAIN queue' :
                    \/ i \in DOMAIN queue
                    \/ queue'[i] = completed /\ \A j \in DOMAIN queue' : j <= i
                    \/ /\ queue'[i] = lists
                       /\ i + 1 \in DOMAIN queue' /\ queue'[i + 1] = completed
               /\ \E i \in DOMAIN queue' : queue'[i] = completed
               /\ changed # {} => \E i \in DOMAIN queue' : queue'[i] = lists
<1>. DEFINE changed == IF token = 0 THEN {} ELSE {u \in Users : version[u] > token}
            lists == [op |-> "changes", changed |-> changed, left |-> {}]
            completed == [op |-> "completed", old |-> token, next |-> pos]
<1>1. queue' = queue \o (IF changed = {} THEN <<>> ELSE <<lists>>) \o <<completed>>
  BY DEF Sync, Undisturbed
<1>2. lists \in Block /\ completed \in Block
  BY PartsHold DEF Block
<1>3. changed \in SUBSET Users /\ (token # 0 => changed = {u \in Users : version[u] > token})
  OBVIOUS
<1>4. /\ \A i \in DOMAIN queue : i \in DOMAIN queue' /\ queue'[i] = queue[i]
      /\ \A i \in DOMAIN queue' :
           \/ i \in DOMAIN queue
           \/ queue'[i] = completed /\ \A j \in DOMAIN queue' : j <= i
           \/ queue'[i] = lists /\ i + 1 \in DOMAIN queue' /\ queue'[i + 1] = completed
      /\ \E i \in DOMAIN queue' : queue'[i] = completed
      /\ changed # {} => \E i \in DOMAIN queue' : queue'[i] = lists
  <2>. HIDE DEF changed, lists, completed
  <2>0. queue \in Seq(Block)
    BY PartsHold
  <2>1. CASE changed = {}
    <3>1. queue' = Append(queue, completed)
      BY <1>1, <1>2, <2>0, <2>1
    <3>2. \A j \in DOMAIN queue' : j <= Len(queue) + 1
      BY <1>2, <2>0, <3>1
    <3>. QED
      BY <1>2, <2>0, <2>1, <3>1, <3>2, AppendFacts
  <2>2. CASE changed # {}
    <3>1. queue' = Append(Append(queue, lists), completed)
      BY <1>1, <1>2, <2>0, <2>2, ConcatFacts
    <3>2. Append(queue, lists) \in Seq(Block) /\ Len(Append(queue, lists)) = Len(queue) + 1
          /\ Len(queue) \in Nat
      BY <1>2, <2>0
    <3>3. \A j \in DOMAIN queue' : j <= Len(queue) + 2
      BY <1>2, <2>0, <3>1
    <3>4. /\ \A i \in DOMAIN queue : i \in DOMAIN queue' /\ queue'[i] = queue[i]
          /\ \A i \in DOMAIN queue' : i \in DOMAIN queue \/ i = Len(queue) + 1 \/ i = Len(queue) + 2
          /\ Len(queue) + 1 \in DOMAIN queue' /\ queue'[Len(queue) + 1] = lists
          /\ Len(queue) + 2 \in DOMAIN queue' /\ queue'[Len(queue) + 2] = completed
          /\ (Len(queue) + 1) + 1 = Len(queue) + 2
      BY <1>2, <2>0, <3>1, <3>2, AppendFacts
    <3>. QED
      BY <3>3, <3>4
  <2>. QED
    BY <2>1, <2>2
<1>. HIDE DEF changed
<1>. QED
  BY <1>3, <1>4

\* A sync: whoever changed since the token is to be told of it.
LEMMA SyncKeepsFresh ==
  ASSUME Inv, FreshInv, Undisturbed, Sync
  PROVE  FreshInv'
<1>0. /\ UNCHANGED <<pos, version, durableToken, since, status, saved, latest, stored, deviceToken,
                     lastKnown, current, next>>
      /\ token' = pos /\ token < pos
  BY DEF Sync, server, tracking, keys, pools
<1>1. PICK changed \in SUBSET Users :
        LET lists == [op |-> "changes", changed |-> changed, left |-> {}]
            completed == [op |-> "completed", old |-> token, next |-> pos]
        IN  /\ token # 0 => changed = {u \in Users : version[u] > token}
            /\ \A i \in DOMAIN queue : i \in DOMAIN queue' /\ queue'[i] = queue[i]
            /\ \A i \in DOMAIN queue' :
                 \/ i \in DOMAIN queue
                 \/ queue'[i] = completed /\ \A j \in DOMAIN queue' : j <= i
                 \/ /\ queue'[i] = lists
                    /\ i + 1 \in DOMAIN queue' /\ queue'[i + 1] = completed
            /\ \E i \in DOMAIN queue' : queue'[i] = completed
            /\ changed # {} => \E i \in DOMAIN queue' : queue'[i] = lists
  BY SyncQueues
<1>. DEFINE lists == [op |-> "changes", changed |-> changed, left |-> {}]
            completed == [op |-> "completed", old |-> token, next |-> pos]
<1>2. /\ lists.op = "changes" /\ lists.changed = changed /\ lists.left = {}
      /\ completed.op = "completed" /\ completed.old = token /\ completed.next = pos
  OBVIOUS
<1>3. /\ token # 0 => changed = {u \in Users : version[u] > token}
      /\ \A i \in DOMAIN queue : i \in DOMAIN queue' /\ queue'[i] = queue[i]
      /\ \A i \in DOMAIN queue' :
           \/ i \in DOMAIN queue
           \/ queue'[i] = completed /\ \A j \in DOMAIN queue' : j <= i
           \/ queue'[i] = lists /\ i + 1 \in DOMAIN queue' /\ queue'[i + 1] = completed
      /\ \E i \in DOMAIN queue' : queue'[i] = completed
      /\ changed # {} => \E i \in DOMAIN queue' : queue'[i] = lists
  BY <1>1
<1>. HIDE DEF lists, completed
<1>4. pos \in Nat /\ token \in Nat /\ durableToken \in Nat /\ pos # 0
      /\ \A u \in Users : version[u] \in Nat /\ version[u] # 0
  BY <1>0, PartsHold DEF Position, FreshInv, Noted, Positions
<1>5. DOMAIN queue \subseteq Nat /\ DOMAIN queue' \subseteq Nat
  <2>1. queue' \in Seq(Block)
    BY SessionKeepsInv DEF Inv, TypeOK
  <2>. QED
    BY <2>1, PartsHold
<1>6. ASSUME NEW u \in Users, Told(u)' PROVE Told(u)
  <2>1. token # 0
    BY <1>2, <1>3, <1>6 DEF Told
  <2>2. u \notin changed
    BY <1>2, <1>3, <1>6 DEF Told
  <2>3. version[u] <= token
    BY <1>3, <1>4, <2>1, <2>2
  <2>. QED
    BY <1>0, <1>3, <1>6, <2>3 DEF Told
<1>7. Started'
  <2>1. ASSUME NEW i \in DOMAIN queue', queue'[i].op = "completed", queue'[i].old = 0
        PROVE  deviceToken = 0
    BY <1>2, <1>3, <2>1 DEF FreshInv, Noted, Started
  <2>. QED
    BY <1>0, <1>4, <2>1 DEF FreshInv, Noted, Started
<1>8. Positions'
  BY <1>0, <1>4 DEF FreshInv, Noted, Positions
<1>9. QueueShape'
  <2>1. \A i \in DOMAIN queue' : queue'[i].op = "completed" => queue'[i].next # 0
    BY <1>2, <1>3, <1>4 DEF FreshInv, Noted, QueueShape
  <2>2. ASSUME NEW i \in DOMAIN queue', NEW j \in DOMAIN queue', i < j,
               queue'[i].op = "completed", queue'[j].op = "completed"
        PROVE  queue'[j].old # 0
    <3>1. i \in DOMAIN queue
      BY <1>2, <1>3, <1>5, <2>2
    <3>2. token # 0
      BY <1>3, <2>2, <3>1 DEF FreshInv, Noted, Started
    <3>3. CASE j \in DOMAIN queue
      BY <1>3, <2>2, <3>1, <3>3 DEF FreshInv, Noted, QueueShape
    <3>4. CASE j \notin DOMAIN queue
      BY <1>2, <1>3, <2>2, <3>2, <3>4
    <3>. QED
      BY <3>3, <3>4
  <2>3. ASSUME NEW i \in DOMAIN queue', queue'[i].op = "changes"
        PROVE  queue'[i].left = {} /\ i + 1 \in DOMAIN queue' /\ queue'[i + 1].op = "completed"
    BY <1>2, <1>3, <2>3 DEF FreshInv, Noted, QueueShape
  <2>. QED
    BY <2>1, <2>2, <2>3 DEF QueueShape
<1>10. DurableTold'
  <2>1. SUFFICES ASSUME NEW u \in Users, version[u] <= durableToken PROVE Told(u)'
    BY <1>0 DEF DurableTold
  <2>2. Told(u)
    BY <2>1 DEF FreshInv, Noted, DurableTold
  <2>3. token # 0 /\ version[u] <= token /\ version[u] <= token'
    BY <1>0, <1>4, <2>1 DEF FreshInv, Noted, Positions
  <2>4. u \notin changed
    BY <1>3, <1>4, <2>3
  <2>. QED
    BY <1>0, <1>2, <1>3, <2>2, <2>3, <2>4 DEF Told
<1>11. Claims'
  <2>1. NoNewSuccess
    BY <1>2, <1>3 DEF NoNewSuccess
  <2>2. AnswersFit'
    BY <1>0 DEF FreshInv, Claims, AnswersFit
  <2>. QED
    BY <1>0, <1>6, <2>1, <2>2, ClaimsStay DEF FreshInv
<1>12. Saved'
  <2>1. SavedFresh'
    BY <1>0 DEF FreshInv, Saved, SavedFresh
  <2>2. SavedSoon'
    BY <1>0, <1>2, <1>3 DEF FreshInv, Saved, SavedSoon
  <2>. QED
    BY <2>1, <2>2 DEF Saved
<1>. QED
  BY <1>7, <1>8, <1>9, <1>10, <1>11, <1>12 DEF FreshInv, Noted

\* The session's store is committed, once cryptoQueue has caught up; or the process dies.
LEMMA DiskKeepsFresh ==
  ASSUME Inv, FreshInv, Undisturbed, CommitSession \/ Restart
  PROVE  FreshInv'
<1>0. \A u \in Users : version[u] \in Nat /\ version[u] # 0
  BY PartsHold DEF Position, FreshInv, Noted, Positions
<1>1. CASE CommitSession
  <2>1. /\ UNCHANGED <<pos, version, token, queue, since, status, saved, latest, stored,
                       deviceToken, lastKnown, current, next>>
        /\ durableToken' = token
    BY <1>1 DEF CommitSession, server, tracking, keys, pools
  <2>2. \A i \in DOMAIN queue : queue[i].op \notin {"changes", "completed"}
    BY <1>1 DEF CommitSession, Undisturbed
  <2>3. \A u \in Users : version[u] <= token => Told(u)
    BY <2>2 DEF Told, FreshInv, Noted, Started
  <2>4. \A u \in Users : Told(u)' <=> Told(u)
    BY <2>1 DEF Told
  <2>5. Started' /\ QueueShape' /\ DurableTold'
    BY <2>1, <2>3, <2>4 DEF FreshInv, Noted, Started, QueueShape, DurableTold
  <2>6. Positions'
    BY <2>1, PartsHold DEF FreshInv, Noted, Positions, Position
  <2>7. Claims'
    <3>1. NoNewSuccess /\ AnswersFit'
      BY <2>1 DEF NoNewSuccess, FreshInv, Claims, AnswersFit
    <3>. QED
      BY <2>1, <2>4, <3>1, ClaimsStay DEF FreshInv
  <2>8. SavedFresh'
    <3>1. SUFFICES ASSUME NEW u \in Users, saved[u] = "upToDate", version[u] <= token
                   PROVE  stored[u] = version[u]
      BY <2>1 DEF SavedFresh
    <3>2. status[u] = "upToDate"
      BY <2>2, <3>1 DEF FreshInv, Saved, SavedSoon
    <3>. QED
      BY <2>3, <3>1, <3>2 DEF FreshInv, Claims, Fresh
  <2>9. SavedSoon'
    BY <2>1 DEF FreshInv, Saved, SavedSoon
  <2>. QED
    BY <2>5, <2>6, <2>7, <2>8, <2>9 DEF FreshInv, Noted, Saved
<1>2. CASE Restart
  <2>1. PICK t \in {0, durableToken} :
          /\ t = 0 => deviceToken = 0
          /\ token' = t /\ durableToken' = t
    BY <1>2 DEF Restart, Undisturbed
  <2>2. /\ UNCHANGED <<pos, version, saved, stored, deviceToken>>
        /\ queue' = <<>> /\ since' = NoRequest /\ lastKnown' = 0
        /\ status' = [u \in Users |-> IF saved[u] \in {"inProgress", "unreachable"} THEN "pending"
                                      ELSE saved[u]]
        /\ current' = NoPool /\ next' = NoNextPool
    BY <1>2 DEF Restart, server, keys
  <2>3. \A u \in Users : version'[u] <= token' /\ saved[u] = "upToDate" => stored[u] = version[u]
    BY <1>0, <2>1, <2>2 DEF FreshInv, Saved, SavedFresh
  <2>4. Started' /\ QueueShape' /\ DurableTold'
    BY <2>1, <2>2 DEF Started, QueueShape, DurableTold, Told, NoPool
  <2>5. Positions'
    BY <2>1, <2>2, PartsHold DEF FreshInv, Noted, Positions, Position
  <2>6. current'.stage = "sent"
    BY <2>2 DEF NoPool
  <2>7. \A u \in Users : status'[u] # "inProgress" /\
                         (status'[u] = "upToDate" => saved[u] = "upToDate")
    BY <2>2
  <2>8. AnswersFit'
    BY <2>2, <2>6 DEF FreshInv, Claims, AnswersFit
  <2>9. Fresh' /\ AnswerFresh' /\ BlockFresh'
    BY <2>2, <2>3, <2>6, <2>7 DEF Fresh, AnswerFresh, BlockFresh, Told
  <2>10. SavedFresh' /\ SavedSoon'
    BY <2>1, <2>2, <2>3, <2>7 DEF SavedFresh, SavedSoon
  <2>. QED
    BY <2>4, <2>5, <2>8, <2>9, <2>10 DEF FreshInv, Noted, Claims, Saved
<1>. QED
  BY <1>1, <1>2

\* The answer of the homeserver brings the devices as they are.
LEMMA AnswerKeepsFresh ==
  ASSUME Inv, FreshInv, HomeserverAnswers
  PROVE  FreshInv'
<1>1. PICK served \in SUBSET current.asked :
        current' = [current EXCEPT !.stage = "answered", !.served = served,
                      !.devices = [u \in Users |-> IF u \in served THEN version[u] ELSE 0]]
  BY AnswerFacts, Zenon
<1>2. /\ UNCHANGED <<pos, version, token, durableToken, queue, since, status, saved, latest, stored,
                     deviceToken, lastKnown>>
  BY DEF HomeserverAnswers, server, session, tracking, keys
<1>3. /\ current'.token = current.token /\ current'.served = served
      /\ \A u \in Users : u \in served => current'.devices[u] = version[u]
  BY <1>1, PartsHold DEF Pool
<1>4. Noted'
  BY <1>2, <1>3, PartsHold, NotedStays DEF FreshInv
<1>5. \A u \in Users : Told(u)' <=> Told(u)
  BY <1>2 DEF Told
<1>6. AnswersFit'
  <2>1. \A u \in Users : version[u] <= version[u]
    BY PartsHold DEF Position
  <2>. QED
    BY <1>2, <1>3, <2>1 DEF FreshInv, Claims, AnswersFit
<1>7. Fresh' /\ BlockFresh'
  BY <1>2, <1>5 DEF FreshInv, Claims, Fresh, BlockFresh, Ends
<1>8. AnswerFresh'
  BY <1>2, <1>3 DEF AnswerFresh
<1>9. Saved'
  BY <1>2 DEF FreshInv, Saved, SavedFresh, SavedSoon
<1>. QED
  BY <1>4, <1>6, <1>7, <1>8, <1>9 DEF FreshInv, Claims

\* What follows a query, whatever its outcome, is nothing to the stream.
LEMMA CompleteIsNoted ==
  ASSUME Inv, Noted, Complete, NEW b \in Block, b.op \in {"success", "failure"},
         queue' = Append(queue, b)
  PROVE  Noted' /\ current'.stage = "sent"
<1>1. UNCHANGED <<pos, version, token, durableToken, since, lastKnown>>
  BY DEF Complete, server, session
<1>2. current'.stage = "sent" /\ current'.token \in {lastKnown, 0}
  BY DEF Complete, Query, NoPool
<1>3. deviceToken' = deviceToken \/ (current.token # 0 /\ deviceToken' # 0)
  BY DEF Complete
<1>. QED
  BY <1>1, <1>2, <1>3, PartsHold, NotedStays

\* A queue cannot grow and shrink at once.
LEMMA AppendIsNoTail ==
  ASSUME NEW q \in Seq(Block), NEW b \in Block, q # <<>>
  PROVE  Append(q, b) # Tail(q)
<1>1. Len(q) \in Nat /\ DOMAIN q = 1..Len(q)
  OBVIOUS
<1>2. (Len(q) + 1) + 1 \notin DOMAIN q
  BY <1>1
<1>. QED
  BY <1>2, AppendFacts, TailFacts

\* The answer is stored, and its operations are to be told.
LEMMA ResponseKeepsFresh ==
  ASSUME Inv, FreshInv, Response
  PROVE  FreshInv'
<1>. DEFINE block == [op |-> "success", ops |-> current.ops, served |-> current.served]
<1>0. /\ block \in Block /\ block.op = "success"
      /\ block.ops = current.ops /\ block.served = current.served
  BY PartsHold DEF Block, Pool
<1>1. /\ queue' = Append(queue, block) /\ Complete
      /\ stored' = [u \in Users |-> IF u \in current.served THEN current.devices[u] ELSE stored[u]]
      /\ current.stage = "answered"
      /\ UNCHANGED <<version, token, durableToken, since, status, saved, latest>>
  BY DEF Response, Complete, server, session, tracking
<1>. HIDE DEF block
<1>2. Noted' /\ current'.stage = "sent"
  BY <1>0, <1>1, CompleteIsNoted DEF FreshInv
<1>3. ASSUME NEW u \in Users, Told(u)' PROVE Told(u)
  <2>1. queue # <<>> /\ queue' = Tail(queue) => FALSE
    BY <1>0, <1>1, PartsHold, AppendIsNoTail
  <2>. QED
    BY <1>0, <1>1, <1>3, <2>1, PartsHold, ToldBefore DEF FreshInv, Noted
<1>4. \A u \in Users : /\ stored'[u] <= version[u]
                       /\ stored[u] = version[u] => stored'[u] = version[u]
  <2>1. \A u \in Users : stored[u] \in Nat /\ version[u] \in Nat /\ current.devices[u] \in Nat
    BY PartsHold DEF Pool, Position
  <2>. QED
    BY <1>1, <2>1 DEF FreshInv, Claims, AnswersFit
<1>5. AnswersFit'
  BY <1>1, <1>2, <1>4 DEF AnswersFit
<1>6. Fresh'
  BY <1>1, <1>3, <1>4 DEF FreshInv, Claims, Fresh
<1>7. AnswerFresh'
  BY <1>2 DEF AnswerFresh
<1>8. BlockFresh'
  <2>1. SUFFICES ASSUME NEW u \in Users, NEW i \in DOMAIN queue', queue'[i].op = "success",
                        u \in queue'[i].served, Ends(queue[i].ops, u)'
                 PROVE  stored'[u] = version'[u]
    BY DEF BlockFresh
  <2>2. Ends(queue'[i].ops, u)
    BY <1>1, <1>3, <2>1 DEF Ends
  <2>3. CASE i \in DOMAIN queue
    <3>1. queue'[i] = queue[i]
      BY <1>0, <1>1, <2>3, PartsHold, AppendFacts
    <3>. QED
      BY <1>1, <1>4, <2>1, <2>2, <2>3, <3>1 DEF FreshInv, Claims, BlockFresh
  <2>4. CASE i = Len(queue) + 1
    <3>1. queue'[i] = block
      BY <1>0, <1>1, <2>4, PartsHold, AppendFacts
    <3>2. current.devices[u] = version[u] /\ u \in current.served
      BY <1>0, <1>1, <2>1, <2>2, <3>1 DEF FreshInv, Claims, AnswerFresh
    <3>. QED
      BY <1>1, <3>2
  <2>. QED
    BY <1>0, <1>1, <2>3, <2>4, PartsHold, AppendFacts
<1>9. Saved'
  <2>1. SavedFresh'
    BY <1>1, <1>4 DEF FreshInv, Saved, SavedFresh
  <2>2. SavedSoon'
    BY <1>0, <1>1, PartsHold, AppendFacts DEF FreshInv, Saved, SavedSoon
  <2>. QED
    BY <2>1, <2>2 DEF Saved
<1>. QED
  BY <1>2, <1>5, <1>6, <1>7, <1>8, <1>9 DEF FreshInv, Claims

\* A query that fails, or an operation that is cancelled, ends nothing.
LEMMA FailureKeepsFresh ==
  ASSUME Inv, FreshInv, QueryFails \/ \E o : Cancel(o)
  PROVE  FreshInv'
<1>1. CASE QueryFails
  <2>. DEFINE block == [op |-> "failure", ops |-> current.ops]
  <2>0. block \in Block /\ block.op = "failure"
    BY PartsHold DEF Block, Pool
  <2>1. /\ queue' = Append(queue, block) /\ Complete
        /\ UNCHANGED <<version, token, durableToken, since, status, saved, latest, stored>>
    BY <1>1 DEF QueryFails, Complete, server, session, tracking
  <2>. HIDE DEF block
  <2>2. Noted' /\ current'.stage = "sent"
    BY <2>0, <2>1, CompleteIsNoted DEF FreshInv
  <2>3. ASSUME NEW u \in Users, Told(u)' PROVE Told(u)
    <3>1. queue # <<>> /\ queue' = Tail(queue) => FALSE
      BY <2>0, <2>1, PartsHold, AppendIsNoTail
    <3>. QED
      BY <2>0, <2>1, <2>3, <3>1, PartsHold, ToldBefore DEF FreshInv, Noted
  <2>4. NoNewSuccess
    BY <2>0, <2>1, PartsHold, AppendFacts DEF NoNewSuccess
  <2>5. AnswersFit'
    BY <2>1, <2>2 DEF FreshInv, Claims, AnswersFit
  <2>6. Claims'
    BY <2>1, <2>2, <2>3, <2>4, <2>5, ClaimsStay DEF FreshInv
  <2>7. Saved'
    BY <2>0, <2>1, PartsHold, AppendFacts DEF FreshInv, Saved, SavedFresh, SavedSoon
  <2>. QED
    BY <2>2, <2>6, <2>7 DEF FreshInv
<1>2. ASSUME NEW o, Cancel(o) PROVE FreshInv'
  <2>1. UNCHANGED <<pos, version, token, durableToken, queue, since, status, saved, latest, stored,
                    deviceToken, lastKnown>>
    BY <1>2 DEF Cancel, server, session, tracking, keys
  <2>2. /\ current'.ops \subseteq current.ops /\ current'.stage \in {current.stage, "dead"}
        /\ current'.served = current.served /\ current'.devices = current.devices
        /\ current'.token = current.token
    BY <1>2, PartsHold, CancelFacts
  <2>3. Noted'
    BY <2>1, <2>2, PartsHold, NotedStays DEF FreshInv
  <2>4. \A u \in Users : Told(u)' <=> Told(u)
    BY <2>1 DEF Told
  <2>5. NoNewSuccess /\ AnswersFit'
    BY <2>1, <2>2 DEF NoNewSuccess, FreshInv, Claims, AnswersFit
  <2>6. Claims'
    BY <2>1, <2>2, <2>4, <2>5, ClaimsStay DEF FreshInv
  <2>7. Saved'
    BY <2>1 DEF FreshInv, Saved, SavedFresh, SavedSoon
  <2>. QED
    BY <2>3, <2>6, <2>7 DEF FreshInv
<1>. QED
  BY <1>1, <1>2

\* What is saved in a step that saves the statuses fits the token on disk.
LEMMA SavingIsFresh ==
  ASSUME Fresh', DurableTold', saved' = status'
  PROVE  Saved'
BY DEF Fresh, DurableTold, Saved, SavedFresh, SavedSoon

\* A caller of downloadKeys, for users that nobody is downloading.
LEMMA DownloadKeepsFresh ==
  ASSUME Inv, FreshInv, Undisturbed,
         NEW users \in SUBSET Users, NEW force \in BOOLEAN, Download(users, force)
  PROVE  FreshInv'
<1>1. /\ UNCHANGED <<pos, version, token, durableToken, queue, since, stored, deviceToken, lastKnown>>
      /\ DownloadKeys(status, users, force, lastKnown)
      /\ \A u \in users : status[u] # "inProgress"
  BY DEF Download, Undisturbed, server, session, keys
<1>2. \A u \in Users : Told(u)' <=> Told(u)
  BY <1>1 DEF Told
<1>3. NoNewSuccess
  BY <1>1 DEF NoNewSuccess
<1>4. AsksAnew(status, users, lastKnown)
  BY <1>1, PartsHold, DownloadKeysAsksAnew
<1>5. PICK D \in SUBSET users :
        /\ \A u \in Users : status'[u] = IF u \in D THEN "inProgress" ELSE status[u]
        /\ (D = {} /\ saved' = saved) \/ saved' = status'
        /\ current' = current \/ (current'.stage = "sent" /\ current'.token = lastKnown)
  BY <1>4 DEF AsksAnew
<1>6. Noted'
  BY <1>1, <1>5, PartsHold, NotedStays DEF FreshInv
<1>7. Claims'
  BY <1>1, <1>2, <1>3, PartsHold, DownloadKeepsClaims DEF FreshInv
<1>8. Saved'
  <2>1. CASE saved' = status'
    BY <1>6, <1>7, <2>1, SavingIsFresh DEF Noted, Claims
  <2>2. CASE D = {} /\ saved' = saved
    BY <1>1, <1>5, <2>2 DEF FreshInv, Saved, SavedFresh, SavedSoon
  <2>. QED
    BY <1>5, <2>1, <2>2
<1>. QED
  BY <1>6, <1>7, <1>8 DEF FreshInv

\* The changes that a sync brought.
LEMMA ChangesKeepFresh ==
  ASSUME Inv, FreshInv, HandleDeviceListsChanges
  PROVE  FreshInv'
<1>1. /\ UNCHANGED <<pos, version, token, durableToken, since, saved, latest, stored, deviceToken,
                     lastKnown, current, next>>
      /\ status' = [u \in Users |-> IF u \in Next1.left THEN "notTracked"
                                    ELSE Invalidated(Next1.changed)[u]]
      /\ queue # <<>> /\ Next1.op = "changes" /\ queue' = Tail(queue)
  BY DEF HandleDeviceListsChanges, Running, server, session, keys, pools
<1>2. queue \in Seq(Block) /\ 1 \in DOMAIN queue /\ Next1 = queue[1]
  BY <1>1, PartsHold, TailFacts DEF Next1
<1>3. Next1.left = {} /\ \E i \in DOMAIN queue' : queue'[i].op = "completed"
  <2>1. Next1.left = {} /\ 1 + 1 \in DOMAIN queue /\ queue[1 + 1].op = "completed"
    BY <1>1, <1>2 DEF FreshInv, Noted, QueueShape
  <2>2. (1 + 1) - 1 \in DOMAIN queue' /\ queue'[(1 + 1) - 1] = queue[1 + 1]
    BY <1>1, <1>2, <2>1, TailFacts
  <2>. QED
    BY <2>1, <2>2
<1>4. /\ QueueShape' /\ NoNewSuccess
      /\ \A i \in DOMAIN queue' : \E j \in DOMAIN queue : queue'[i] = queue[j]
  BY <1>1, <1>2, TailKeepsShape DEF FreshInv, Noted
<1>5. \A u \in Users : \/ u \notin Next1.changed /\ status'[u] = status[u]
                       \/ status'[u] \in {"pending", "notTracked"} /\
                          (status'[u] = "pending" \/ status[u] = "notTracked")
  BY <1>1, <1>3 DEF Invalidated
<1>6. ASSUME NEW u \in Users, Told(u)', u \notin Next1.changed PROVE Told(u)
  BY <1>1, <1>2, <1>6, ToldBefore DEF FreshInv, Noted
<1>7. Noted'
  <2>1. Started' /\ Positions'
    BY <1>1, <1>4 DEF FreshInv, Noted, Started, Positions
  <2>2. DurableTold'
    BY <1>1, <1>4, ToldAfter DEF FreshInv, Noted, DurableTold
  <2>. QED
    BY <1>4, <2>1, <2>2 DEF Noted
<1>8. Claims'
  <2>1. AnswersFit'
    BY <1>1 DEF FreshInv, Claims, AnswersFit
  <2>. QED
    BY <1>1, <1>4, <1>5, <1>6, <2>1, ClaimsStay DEF FreshInv
<1>9. Saved'
  <2>1. SavedFresh'
    BY <1>1 DEF FreshInv, Saved, SavedFresh
  <2>2. SavedSoon'
    BY <1>1, <1>3, <1>5 DEF FreshInv, Saved, SavedSoon
  <2>. QED
    BY <2>1, <2>2 DEF Saved
<1>. QED
  BY <1>7, <1>8, <1>9 DEF FreshInv

\* The end of a sync: whoever is pending is asked for.
LEMMA CompletedKeepsFresh ==
  ASSUME Inv, FreshInv, OnSyncCompleted
  PROVE  FreshInv'
<1>. DEFINE st == IF Next1.old = 0 /\ deviceToken = 0 THEN Invalidated(Users) ELSE status
<1>1. /\ UNCHANGED <<pos, version, token, durableToken, stored>>
      /\ queue # <<>> /\ Next1.op = "completed" /\ queue' = Tail(queue)
      /\ since' = IF Next1.old = 0 /\ deviceToken # 0 THEN <<deviceToken, Next1.next>> ELSE since
      /\ deviceToken' = Next1.next /\ lastKnown' = Next1.next
      /\ DownloadKeys(st, Outdated(st), FALSE, Next1.next)
  BY DEF OnSyncCompleted, Running, RefreshOutdatedDeviceLists, server, session
<1>2. queue \in Seq(Block) /\ 1 \in DOMAIN queue /\ Next1 = queue[1]
      /\ Next1.next \in Position
  BY <1>1, PartsHold, TailFacts, BlockFacts DEF Next1
<1>3. Next1.next # 0 /\ (Next1.old = 0 => deviceToken = 0) /\ token # 0
  BY <1>1, <1>2 DEF FreshInv, Noted, Started, QueueShape
<1>4. since' = since
  BY <1>1, <1>3
<1>5. /\ QueueShape' /\ NoNewSuccess
      /\ \A i \in DOMAIN queue' : \E j \in DOMAIN queue : queue'[i] = queue[j]
  BY <1>1, <1>2, TailKeepsShape DEF FreshInv, Noted
<1>6. \A i \in DOMAIN queue' : queue'[i].op = "completed" => queue'[i].old # 0
  <2>1. ASSUME NEW i \in DOMAIN queue', queue'[i].op = "completed" PROVE queue'[i].old # 0
    <3>1. i \in Nat /\ i > 0 /\ i + 1 \in DOMAIN queue /\ queue'[i] = queue[i + 1]
      BY <1>1, <1>2, TailFacts
    <3>2. 1 < i + 1
      BY <3>1
    <3>. QED
      BY <1>1, <1>2, <2>1, <3>1, <3>2 DEF FreshInv, Noted, QueueShape
  <2>. QED
    BY <2>1
<1>7. Noted'
  <2>1. Started'
    BY <1>1, <1>3, <1>4, <1>6 DEF FreshInv, Noted, Started
  <2>2. Positions'
    BY <1>1 DEF FreshInv, Noted, Positions
  <2>3. DurableTold'
    BY <1>1, <1>4, <1>5, ToldAfter DEF FreshInv, Noted, DurableTold
  <2>. QED
    BY <1>5, <2>1, <2>2, <2>3 DEF Noted
<1>8. /\ st \in [Users -> Status]
      /\ \A u \in Users : st[u] = status[u] \/ (st[u] = "pending" /\ status[u] # "notTracked")
      /\ Next1.old = 0 => \A u \in Users : st[u] \in {"pending", "notTracked"}
      /\ Next1.old # 0 => st = status
  BY <1>3, PartsHold, InvalidatedFacts DEF Inv, Invalidated
<1>. HIDE DEF st
<1>9. /\ Outdated(st) \in SUBSET Users
      /\ \A u \in Users : u \in Outdated(st) <=> st[u] = "pending"
  BY DEF Outdated
<1>10. ASSUME NEW u \in Users, st[u] \in {"upToDate", "inProgress"}, Told(u)'
       PROVE  Told(u) /\ status[u] = st[u]
  <2>1. Next1.old # 0 /\ status[u] = st[u]
    BY <1>8, <1>10
  <2>. QED
    BY <1>1, <1>2, <1>10, <2>1, ToldBefore DEF FreshInv, Noted
<1>11. Claims'
  BY <1>1, <1>2, <1>5, <1>8, <1>9, <1>10, DownloadKeepsClaims DEF FreshInv
<1>12. Saved'
  <2>1. AsksAnew(st, Outdated(st), Next1.next)
    BY <1>1, <1>2, <1>8, <1>9, DownloadKeysAsksAnew
  <2>2. PICK D \in SUBSET Outdated(st) :
          /\ \A u \in Users : status'[u] = IF u \in D THEN "inProgress" ELSE st[u]
          /\ (D = {} /\ saved' = saved) \/ saved' = status'
          /\ \A u \in Outdated(st) : st[u] = "pending" => u \in D
    BY <2>1 DEF AsksAnew
  <2>3. CASE saved' = status'
    BY <1>7, <1>11, <2>3, SavingIsFresh DEF Noted, Claims
  <2>4. CASE D = {} /\ saved' = saved
    <3>1. \A u \in Users : status'[u] = status[u] /\ status[u] # "pending"
      BY <1>8, <1>9, <2>2, <2>4
    <3>. QED
      BY <1>1, <2>4, <3>1 DEF FreshInv, Saved, SavedFresh, SavedSoon
  <2>. QED
    BY <2>2, <2>3, <2>4
<1>. QED
  BY <1>7, <1>11, <1>12 DEF FreshInv

\* The results of a query: its operations make up to date the users that no newer one downloads.
LEMMA SuccessKeepsFresh ==
  ASSUME Inv, FreshInv, OperationsSucceed \/ OperationsFail
  PROVE  FreshInv'
<1>0. /\ UNCHANGED <<pos, version, token, durableToken, since, stored, deviceToken, lastKnown,
                     current, next>>
      /\ queue # <<>> /\ Next1.op \in {"success", "failure"} /\ queue' = Tail(queue)
  BY DEF OperationsSucceed, OperationsFail, Running, server, session, keys, pools
<1>1. queue \in Seq(Block) /\ 1 \in DOMAIN queue /\ Next1 = queue[1]
  BY <1>0, PartsHold, TailFacts DEF Next1
<1>2. Noted'
  BY <1>0, <1>1, NotedStays DEF FreshInv
<1>3. NoNewSuccess /\ AnswersFit'
  BY <1>0, <1>1, TailKeepsShape DEF FreshInv, Noted, Claims, AnswersFit
<1>4. ASSUME NEW u \in Users, Told(u)' PROVE Told(u)
  BY <1>0, <1>1, <1>4, ToldBefore DEF FreshInv, Noted
<1>5. (\E i \in DOMAIN queue : queue[i].op = "completed") =>
        \E i \in DOMAIN queue' : queue'[i].op = "completed"
  <2>1. ASSUME NEW i \in DOMAIN queue, queue[i].op = "completed"
        PROVE  i - 1 \in DOMAIN queue' /\ queue'[i - 1].op = "completed"
    <3>1. i # 1
      BY <1>0, <1>1, <2>1
    <3>2. i = 1 \/ (i - 1 \in DOMAIN Tail(queue) /\ Tail(queue)[i - 1] = queue[i])
      BY <1>0, <1>1, TailFacts
    <3>. QED
      BY <1>0, <2>1, <3>1, <3>2
  <2>. QED
    BY <2>1
<1>6. CASE OperationsSucceed
  <2>. DEFINE mine(u) == \E o \in Next1.ops : o.id = latest[u] /\ u \in o.users
  <2>1. /\ Next1.op = "success"
        /\ status' = [u \in Users |->
                       IF status[u] # "inProgress" \/ u \notin UsersOf(Next1.ops) THEN status[u]
                       ELSE IF u \notin Next1.served THEN "unreachable"
                       ELSE IF mine(u) THEN "upToDate" ELSE status[u]]
        /\ latest' = [u \in Users |-> IF u \in Next1.served /\ mine(u) THEN None ELSE latest[u]]
        /\ saved' = IF Next1.ops = {} THEN saved ELSE status'
    BY <1>6 DEF OperationsSucceed, Running
  <2>2. \A u \in Users : mine(u) => u \in UsersOf(Next1.ops)
    BY DEF UsersOf
  <2>3. ASSUME NEW u \in Users, status'[u] = "inProgress"
        PROVE  status[u] = "inProgress" /\ latest'[u] = latest[u]
    <3>1. status[u] = "inProgress" /\ ~(u \in Next1.served /\ mine(u))
      BY <2>1, <2>2, <2>3
    <3>. QED
      BY <2>1, <3>1
  <2>4. ASSUME NEW u \in Users, Told(u)', status'[u] = "upToDate"
        PROVE  (status[u] = "upToDate" /\ Told(u)) \/ stored[u] = version[u]
    <3>1. CASE status[u] = "upToDate"
      BY <1>4, <2>4, <3>1
    <3>2. CASE status[u] # "upToDate"
      <4>1. status[u] = "inProgress" /\ u \in Next1.served /\ mine(u)
        BY <2>1, <2>4, <3>2
      <4>2. Ends(Next1.ops, u)
        BY <1>4, <2>4, <4>1 DEF Ends
      <4>. QED
        BY <1>1, <2>1, <4>1, <4>2 DEF FreshInv, Claims, BlockFresh
    <3>. QED
      BY <3>1, <3>2
  <2>5. Claims'
    BY <1>0, <1>3, <1>4, <2>3, <2>4, ClaimsStay DEF FreshInv
  <2>6. Saved'
    <3>1. CASE Next1.ops = {}
      <4>1. \A u \in Users : status'[u] = status[u]
        BY <2>1, <3>1 DEF UsersOf
      <4>. QED
        BY <1>0, <1>5, <2>1, <3>1, <4>1 DEF FreshInv, Saved, SavedFresh, SavedSoon
    <3>2. CASE Next1.ops # {}
      BY <1>2, <2>1, <2>5, <3>2, SavingIsFresh DEF Noted, Claims
    <3>. QED
      BY <3>1, <3>2
  <2>. QED
    BY <1>2, <2>5, <2>6 DEF FreshInv
<1>7. CASE OperationsFail
  <2>1. UNCHANGED <<status, saved, latest>>
    BY <1>7 DEF OperationsFail, tracking
  <2>2. Claims'
    BY <1>0, <1>3, <1>4, <2>1, ClaimsStay DEF FreshInv
  <2>3. Saved'
    BY <1>0, <1>5, <2>1 DEF FreshInv, Saved, SavedFresh, SavedSoon
  <2>. QED
    BY <1>2, <2>2, <2>3 DEF FreshInv
<1>. QED
  BY <1>6, <1>7

\* Devices marked up to date are those of the last change that the client was told of, however
\* callers force downloads, queries fail or are cancelled, homeservers do not answer and the
\* process dies: for any users and operations, if nobody joins a query under way or leaves, and
\* the device lists have seen what the token on disk covers.
THEOREM UpToDateIsFresh ==
  ASSUME Undisturbed
  PROVE  Spec => []Fresh
<1>1. Init => FreshInv
  <2>. SUFFICES ASSUME Init PROVE FreshInv
    OBVIOUS
  <2>1. /\ pos = 1 /\ version = [u \in Users |-> 1] /\ token = 0 /\ durableToken = 0
        /\ queue = <<>> /\ since = NoRequest /\ deviceToken = 0 /\ stored = NoDevices
        /\ status = [u \in Users |-> "notTracked"] /\ saved = status /\ lastKnown = 0
        /\ current = NoPool
    BY DEF Init, Undisturbed
  <2>2. current.stage = "sent" /\ current.token = 0 /\ DOMAIN queue = {}
    BY <2>1 DEF NoPool
  <2>3. Noted
    BY <2>1, <2>2 DEF Noted, Started, Positions, QueueShape, DurableTold
  <2>4. Claims
    BY <2>1, <2>2 DEF Claims, AnswersFit, Fresh, AnswerFresh, BlockFresh, NoDevices
  <2>5. Saved
    BY <2>1, <2>2 DEF Saved, SavedFresh, SavedSoon
  <2>. QED
    BY <2>3, <2>4, <2>5 DEF FreshInv
<1>2. Inv /\ FreshInv /\ [Next]_vars => FreshInv'
  <2>. SUFFICES ASSUME Inv, FreshInv, [Next]_vars PROVE FreshInv'
    OBVIOUS
  <2>1. CASE UNCHANGED vars
    <3>1. UNCHANGED <<pos, version, token, durableToken, queue, since, status, saved, latest, stored,
                      deviceToken, lastKnown, current, next>>
      BY <2>1 DEF vars, server, session, tracking, keys, pools
    <3>2. \A u \in Users : Told(u)' <=> Told(u)
      BY <3>1 DEF Told
    <3>3. Noted'
      BY <3>1, PartsHold, NotedStays DEF FreshInv
    <3>4. Claims'
      BY <3>1, <3>2 DEF FreshInv, Claims, AnswersFit, Fresh, AnswerFresh, BlockFresh, Ends
    <3>5. Saved'
      BY <3>1 DEF FreshInv, Saved, SavedFresh, SavedSoon
    <3>. QED
      BY <3>3, <3>4, <3>5 DEF FreshInv
  <2>2. CASE Next
    <3>1. ~KeyChanges /\ ~KeyChangesFails
      BY DEF KeyChanges, KeyChangesFails, FreshInv, Noted, Started
    <3>. QED
      BY <2>2, <3>1, ServerKeepsFresh, SyncKeepsFresh, DiskKeepsFresh, AnswerKeepsFresh,
         ResponseKeepsFresh, FailureKeepsFresh, DownloadKeepsFresh, ChangesKeepFresh,
         CompletedKeepsFresh, SuccessKeepsFresh
      DEF Next, Network, CryptoQueue
  <2>. QED
    BY <2>1, <2>2
<1>3. FreshInv => Fresh
  BY DEF FreshInv, Claims
<1>. QED
  BY <1>1, <1>2, <1>3, InvHolds, PTL DEF Spec
=============================================================================
