----------------------------- MODULE DeviceList -----------------------------
(***************************************************************************)
(* MXDeviceList, its MXDeviceListOperationsPool and the hooks of MXCrypto  *)
(* that feed them: the client's copy of the devices of other users.  The   *)
(* /sync tells which users changed; they are invalidated, then downloaded  *)
(* with one /keys/query at a time, the current pool, while what is asked   *)
(* for meanwhile gathers in the next pool.  Everything runs in blocks of   *)
(* the serial cryptoQueue, which the session's thread feeds.               *)
(*                                                                         *)
(* The devices of a user are the position of the homeserver's stream at    *)
(* which they changed last; a sync token is a position, 0 stands for nil.  *)
(***************************************************************************)
EXTENDS Naturals, Sequences, FiniteSets

CONSTANTS
  Users,
  Ops,        \* BOUND: MXDeviceListOperations alive at once
  None,       \* nil
  MaxPos,     \* BOUND: positions of the homeserver's stream
  MaxBlocks,  \* BOUND: blocks waiting in cryptoQueue when a sync or a caller comes
  Allowed     \* what may happen besides the plain course (see Possible)

\* "unreachable": a user's homeserver does not answer; "failure": a query fails;
\* "cancel": a caller cancels its operation; "chunk": queries are made in chunks,
\* so cancelling one only drops its callbacks; "join": a caller asks for a user
\* whose download is in progress; "leave": a user leaves the last shared room;
\* "lag": the session's token reaches the disk before cryptoQueue caught up;
\* "crash": the process dies; "reset": and then finds the session's store empty, but
\* not that of crypto.
Possible == {"unreachable", "failure", "cancel", "chunk", "join", "leave", "lag", "reset",
             "crash"}

ASSUME MaxPosAssumption == MaxPos \in Nat \ {0} /\ MaxBlocks \in Nat
ASSUME OpsAssumption == None \notin Ops
ASSUME AllowedAssumption == Allowed \subseteq Possible

Position == 0..MaxPos
Status == {"notTracked", "pending", "inProgress", "unreachable", "upToDate"}

\* The query of the current pool: on the network, answered by the homeserver with
\* the devices of the users in served, or cancelled without a callback to come.
Operation == [id : Ops, users : SUBSET Users]
Pool == [on : BOOLEAN, ops : SUBSET Operation, asked : SUBSET Users, token : Position,
         stage : {"sent", "answered", "dead"}, served : SUBSET Users,
         devices : [Users -> Position]]
NoDevices == [u \in Users |-> 0]
NoPool == [on |-> FALSE, ops |-> {}, asked |-> {}, token |-> 0, stage |-> "sent",
           served |-> {}, devices |-> NoDevices]
NextPool == [on : BOOLEAN, ops : SUBSET Operation]
NoNextPool == [on |-> FALSE, ops |-> {}]
NoRequest == <<0, 0>>

Block == [op : {"changes"}, changed : SUBSET Users, left : SUBSET Users]
           \cup [op : {"completed"}, old : Position, next : Position]
           \cup [op : {"success"}, ops : SUBSET Operation, served : SUBSET Users]
           \cup [op : {"failure"}, ops : SUBSET Operation]

VARIABLES
  pos,           \* homeserver: the end of its stream
  version,       \* homeserver: where the devices of each user changed last
  token,         \* the session's store.eventStreamToken
  durableToken,  \* the same, on disk
  queue,         \* cryptoQueue: what the session and answered queries have put there
  since,         \* the /keys/changes request of an initial sync, from and to
  status,        \* deviceTrackingStatus
  saved,         \* the same, in the crypto store
  stored,        \* the devices in the crypto store
  deviceToken,   \* deviceSyncToken, in the crypto store
  lastKnown,     \* lastKnownSyncToken
  latest,        \* keyDownloadsInProgressByUser
  current,       \* currentQueryPool
  next           \* nextQueryPool

server == <<pos, version>>
session == <<token, durableToken>>
tracking == <<status, saved, latest>>
pools == <<current, next>>
keys == <<stored, deviceToken>>
vars == <<server, session, queue, since, tracking, keys, lastKnown, pools>>

TypeOK ==
  /\ pos \in Position /\ version \in [Users -> Position]
  /\ token \in Position /\ durableToken \in Position
  /\ queue \in Seq(Block)
  /\ since \in Position \X Position
  /\ status \in [Users -> Status] /\ saved \in [Users -> Status]
  /\ stored \in [Users -> Position]
  /\ deviceToken \in Position /\ lastKnown \in Position
  /\ latest \in [Users -> Ops \cup {None}]
  /\ current \in Pool /\ next \in NextPool

\* A new account, whose users have devices; the stream has begun.  Or a session
\* store that has been reset, beside a crypto store that follows the users.
Init ==
  /\ pos = 1 /\ version = [u \in Users |-> 1]
  /\ token = 0 /\ durableToken = 0
  /\ queue = <<>> /\ since = NoRequest
  /\ \/ deviceToken = 0 /\ stored = NoDevices /\ status = [u \in Users |-> "notTracked"]
     \/ /\ "reset" \in Allowed
        /\ deviceToken = 1 /\ stored = version /\ status = [u \in Users |-> "upToDate"]
  /\ saved = status
  /\ lastKnown = 0
  /\ latest = [u \in Users |-> None]
  /\ current = NoPool /\ next = NoNextPool

(***************************************************************************)
(* downloadKeys, when the statuses have become st, lastKnownSyncToken      *)
(* lastToken.                                                              *)
(***************************************************************************)
InBlocks == UNION {IF queue[i].op \in {"success", "failure"} THEN queue[i].ops ELSE {} :
                     i \in DOMAIN queue}
Operations == current.ops \cup next.ops \cup InBlocks
FreeOps == Ops \ ({o.id : o \in Operations} \cup {latest[u] : u \in Users})
UsersOf(ops) == UNION {o.users : o \in ops}

\* Mutation of Query: the position after the last known one.
QueryAhead(ops, users, lastToken) ==
  [on |-> TRUE, ops |-> ops, asked |-> users, token |-> lastToken + 1,
   stage |-> "sent", served |-> {}, devices |-> NoDevices]

\* startCurrentPoolQuery, for a pool with these operations.
Query(ops, users, lastToken) ==
  [on |-> TRUE, ops |-> ops, asked |-> users, token |-> lastToken,
   stage |-> "sent", served |-> {}, devices |-> NoDevices]

NeedsQuery(st, u, force) ==
  st[u] # "inProgress" /\ (force \/ st[u] \notin {"upToDate", "unreachable"})

\* Mutation of CurrentPoolHas: any query under way will do.
CurrentPoolWillDo(users) == users \subseteq Users

\* Does the current pool have all the users?  If not, a new query is made.
CurrentPoolHas(users) == users \subseteq UsersOf(current.ops)

DownloadKeys(st, users, force, lastToken) ==
  LET toDownload == {u \in users : st[u] = "inProgress" \/ NeedsQuery(st, u, force)}
      doANewQuery == \/ \E u \in users : NeedsQuery(st, u, force)
                     \/ current.on /\ ~CurrentPoolHas(toDownload)
  IN  IF toDownload = {} THEN status' = st /\ UNCHANGED <<saved, latest, pools>>
      ELSE /\ status' = [u \in Users |-> IF u \in toDownload THEN "inProgress" ELSE st[u]]
           /\ saved' = status'
           /\ \E o \in [id : FreeOps, users : {toDownload}] :
                /\ latest' = [u \in Users |-> IF u \in toDownload THEN o.id ELSE latest[u]]
                /\ IF ~current.on
                   THEN /\ current' = Query(next.ops \cup {o}, UsersOf(next.ops) \cup toDownload,
                                            lastToken)
                        /\ next' = NoNextPool
                   ELSE IF doANewQuery
                   THEN next' = [on |-> TRUE, ops |-> next.ops \cup {o}] /\ UNCHANGED current
                   ELSE current' = [current EXCEPT !.ops = @ \cup {o}] /\ UNCHANGED next

Outdated(st) == {u \in Users : st[u] = "pending"}
RefreshOutdatedDeviceLists(st, lastToken) == DownloadKeys(st, Outdated(st), FALSE, lastToken)

Invalidated(users) ==
  [u \in Users |-> IF u \in users /\ status[u] # "notTracked" THEN "pending" ELSE status[u]]

(***************************************************************************)
(* The homeserver and the session.                                         *)
(***************************************************************************)
ServerChange(u) ==
  /\ pos < MaxPos
  /\ pos' = pos + 1
  /\ version' = [version EXCEPT ![u] = pos + 1]
  /\ UNCHANGED <<session, queue, since, tracking, keys, lastKnown, pools>>

\* handleSyncResponse: what it hands to crypto, then the new token.
Sync ==
  /\ token < pos /\ Len(queue) <= MaxBlocks /\ FreeOps # {}
  /\ \E left \in (IF "leave" \in Allowed THEN {{}} \cup {{u} : u \in Users} ELSE {{}}) :
       LET changed == IF token = 0 THEN {} ELSE {u \in Users : version[u] > token}
           lists == [op |-> "changes", changed |-> changed, left |-> left]
       IN  queue' = queue \o (IF changed \cup left = {} THEN <<>> ELSE <<lists>>)
                          \o <<[op |-> "completed", old |-> token, next |-> pos]>>
  /\ token' = pos
  /\ UNCHANGED <<server, durableToken, since, tracking, keys, lastKnown, pools>>

\* The commit of the session's store: on another thread than cryptoQueue.
CommitSession ==
  /\ durableToken # token
  /\ "lag" \in Allowed \/ (\A i \in DOMAIN queue : queue[i].op \notin {"changes", "completed"})
  /\ durableToken' = token
  /\ UNCHANGED <<server, token, queue, since, tracking, keys, lastKnown, pools>>

\* Mutation of Restart: the downloads of the last process are not reset.
RestartInProgress ==
  /\ "crash" \in Allowed
  /\ token' = durableToken /\ UNCHANGED durableToken
  /\ queue' = <<>> /\ since' = NoRequest /\ lastKnown' = 0
  /\ status' = saved
  /\ latest' = [u \in Users |-> None]
  /\ current' = NoPool /\ next' = NoNextPool
  /\ UNCHANGED <<server, saved, keys>>

\* The process dies; MXDeviceList's init.
Restart ==
  /\ "crash" \in Allowed
  /\ \E t \in {0, durableToken} :
       /\ t = 0 => deviceToken = 0 \/ "reset" \in Allowed
       /\ token' = t /\ durableToken' = t
  /\ queue' = <<>> /\ since' = NoRequest /\ lastKnown' = 0
  /\ status' = [u \in Users |-> IF saved[u] \in {"inProgress", "unreachable"} THEN "pending"
                                ELSE saved[u]]
  /\ latest' = [u \in Users |-> None]
  /\ current' = NoPool /\ next' = NoNextPool
  /\ UNCHANGED <<server, saved, keys>>

(***************************************************************************)
(* Blocks of cryptoQueue.                                                  *)
(***************************************************************************)
Next1 == queue[1]
Running(op) == queue # <<>> /\ Next1.op = op

\* handleDeviceListsChanges: invalidate the changed users, forget those who left.
HandleDeviceListsChanges ==
  /\ Running("changes")
  /\ status' = [u \in Users |-> IF u \in Next1.left THEN "notTracked"
                                ELSE Invalidated(Next1.changed)[u]]
  /\ queue' = Tail(queue)
  /\ UNCHANGED <<server, session, since, saved, latest, keys, lastKnown, pools>>

\* After an initial sync ask for the changes since deviceSyncToken, or invalidate
\* everyone; then refresh.
OnSyncCompleted ==
  /\ Running("completed")
  /\ since' = IF Next1.old = 0 /\ deviceToken # 0 THEN <<deviceToken, Next1.next>> ELSE since
  /\ deviceToken' = Next1.next
  /\ lastKnown' = Next1.next
  /\ RefreshOutdatedDeviceLists(IF Next1.old = 0 /\ deviceToken = 0 THEN Invalidated(Users)
                                ELSE status, Next1.next)
  /\ queue' = Tail(queue)
  /\ UNCHANGED <<server, session, stored>>

\* The answer of /keys/changes: its invalidations are queued behind the refresh.
KeyChanges ==
  /\ since # NoRequest
  /\ queue' = Append(queue, [op |-> "changes", left |-> {},
                             changed |-> {u \in Users : version[u] > since[1]}])
  /\ since' = NoRequest
  /\ lastKnown' = since[2]
  /\ RefreshOutdatedDeviceLists(status, since[2])
  /\ UNCHANGED <<server, session, keys>>

KeyChangesFails ==
  /\ since # NoRequest /\ "failure" \in Allowed
  /\ status' = Invalidated(Users)
  /\ since' = NoRequest
  /\ UNCHANGED <<server, session, queue, saved, latest, keys, lastKnown, pools>>

\* startTrackingDeviceList, for a member of an encrypted room.
StartTracking(u) ==
  /\ status[u] = "notTracked"
  /\ status' = [status EXCEPT ![u] = "pending"]
  /\ UNCHANGED <<server, session, queue, since, saved, latest, keys, lastKnown, pools>>

\* downloadKeys, for anyone else: a room about to encrypt, a verification...  One
\* free operation is left for the refresh of the next sync.
Download(users, force) ==
  /\ Cardinality(FreeOps) > 1 /\ Len(queue) <= MaxBlocks + 1
  /\ "join" \in Allowed \/ (\A u \in users : status[u] # "inProgress")
  /\ \E u \in users : status[u] = "inProgress" \/ NeedsQuery(status, u, force)
  /\ DownloadKeys(status, users, force, lastKnown)
  /\ UNCHANGED <<server, session, queue, since, keys, lastKnown>>

(***************************************************************************)
(* Queries.                                                                *)
(***************************************************************************)
HomeserverAnswers ==
  /\ current.on /\ current.stage = "sent"
  /\ \E served \in (IF "unreachable" \in Allowed THEN SUBSET current.asked
                    ELSE {current.asked}) :
       current' = [current EXCEPT !.stage = "answered", !.served = served,
                                  !.devices = [u \in Users |-> IF u \in served THEN version[u]
                                                               ELSE 0]]
  /\ UNCHANGED <<server, session, queue, since, tracking, keys, lastKnown, next>>

\* Mutation of Complete: the next pool is not launched.
CompleteAndStop ==
  /\ deviceToken' = IF current.token = 0 THEN deviceToken ELSE current.token
  /\ current' = NoPool
  /\ UNCHANGED <<server, session, since, tracking, lastKnown, next>>

\* The pool's query is over, whatever its outcome: on to the next pool.
Complete ==
  /\ deviceToken' = IF current.token = 0 THEN deviceToken ELSE current.token
  /\ current' = IF next.on THEN Query(next.ops, UsersOf(next.ops), lastKnown)
                 ELSE NoPool
  /\ next' = NoNextPool
  /\ UNCHANGED <<server, session, since, tracking, lastKnown>>

\* Store the devices; the operations get their results in a block of their own.
Response ==
  /\ current.on /\ current.stage = "answered"
  /\ stored' = [u \in Users |-> IF u \in current.served THEN current.devices[u] ELSE stored[u]]
  /\ queue' = Append(queue, [op |-> "success", ops |-> current.ops, served |-> current.served])
  /\ Complete

QueryFails ==
  /\ current.on /\ current.stage # "dead"
  /\ "failure" \in Allowed \/ ("cancel" \in Allowed /\ current.ops = {})
  /\ queue' = Append(queue, [op |-> "failure", ops |-> current.ops])
  /\ Complete
  /\ UNCHANGED stored

\* MXDeviceListOperation cancel: the query is cancelled with its last operation.
Cancel(o) ==
  /\ "cancel" \in Allowed
  /\ \/ /\ o \in current.ops
        /\ current' = [current EXCEPT !.ops = @ \ {o},
                                      !.stage = IF current.ops = {o} /\ "chunk" \in Allowed
                                                THEN "dead" ELSE @]
        /\ UNCHANGED next
     \/ o \in next.ops /\ next' = [next EXCEPT !.ops = @ \ {o}] /\ UNCHANGED current
  /\ UNCHANGED <<server, session, queue, since, tracking, keys, lastKnown>>

\* Mutations of OperationsSucceed: an older operation ends a newer download...
OlderOperationsSucceed ==
  /\ Running("success")
  /\ status' = [u \in Users |->
                  IF status[u] # "inProgress" \/ u \notin UsersOf(Next1.ops) THEN status[u]
                  ELSE IF u \notin Next1.served THEN "unreachable" ELSE "upToDate"]
  /\ saved' = IF Next1.ops = {} THEN saved ELSE status'
  /\ queue' = Tail(queue)
  /\ UNCHANGED <<server, session, since, latest, keys, lastKnown, pools>>

\* ... or users whose homeserver did not answer stay as they are.
ServedOperationsSucceed ==
  /\ Running("success")
  /\ LET mine(u) == \E o \in Next1.ops : o.id = latest[u] /\ u \in o.users
     IN  status' = [u \in Users |-> IF status[u] = "inProgress" /\ u \in Next1.served /\ mine(u)
                                    THEN "upToDate" ELSE status[u]]
  /\ saved' = IF Next1.ops = {} THEN saved ELSE status'
  /\ queue' = Tail(queue)
  /\ UNCHANGED <<server, session, since, latest, keys, lastKnown, pools>>

\* The success blocks that downloadKeys gave to the operations of a pool.
OperationsSucceed ==
  /\ Running("success")
  /\ LET mine(u) == \E o \in Next1.ops : o.id = latest[u] /\ u \in o.users
     IN  /\ status' = [u \in Users |->
                         IF status[u] # "inProgress" \/ u \notin UsersOf(Next1.ops) THEN status[u]
                         ELSE IF u \notin Next1.served THEN "unreachable"
                         ELSE IF mine(u) THEN "upToDate" ELSE status[u]]
         /\ latest' = [u \in Users |-> IF u \in Next1.served /\ mine(u) THEN None
                                       ELSE latest[u]]
  /\ saved' = IF Next1.ops = {} THEN saved ELSE status'
  /\ queue' = Tail(queue)
  /\ UNCHANGED <<server, session, since, keys, lastKnown, pools>>

\* Their failure blocks: those of the callers of downloadKeys.
OperationsFail ==
  /\ Running("failure")
  /\ queue' = Tail(queue)
  /\ UNCHANGED <<server, session, since, tracking, keys, lastKnown, pools>>

CryptoQueue ==
  \/ HandleDeviceListsChanges \/ OnSyncCompleted \/ OperationsSucceed \/ OperationsFail
Network == HomeserverAnswers \/ Response \/ QueryFails

Next ==
  \/ \E u \in Users : ServerChange(u) \/ StartTracking(u)
  \/ Sync \/ CommitSession \/ Restart
  \/ CryptoQueue \/ Network \/ KeyChanges \/ KeyChangesFails
  \/ \E users \in SUBSET Users \ {{}}, force \in BOOLEAN : Download(users, force)
  \/ \E o \in current.ops \cup next.ops : Cancel(o)

Spec == Init /\ [][Next]_vars

\* cryptoQueue runs its blocks, and a query ends.  Where failures are not allowed, as in
\* the run of DownloadsEnd, this assumes that the homeserver answers it: the users of a
\* query that fails, or times out, stay in progress.
Fairness == WF_vars(CryptoQueue) /\ WF_vars(Network)
FairSpec == Spec /\ Fairness

(***************************************************************************)
(* Properties.                                                             *)
(***************************************************************************)
\* The client has been told of u's last change, and has taken note.
Told(u) ==
  /\ version[u] <= token /\ since = NoRequest
  /\ \A i \in DOMAIN queue : queue[i].op = "changes" => u \notin queue[i].changed
  /\ \A i \in DOMAIN queue : queue[i].op = "completed" => queue[i].old # 0

\* Safety: devices marked up to date are those of the last change that the client
\* was told of: "we didn't get any new invalidations since this download started:
\* this user's device list is now up to date".
Fresh == \A u \in Users : status[u] = "upToDate" /\ Told(u) => stored[u] = version[u]

\* Safety: a download in progress is in a pool, or its result is on its way.
InProgressHasQuery ==
  \A u \in Users : status[u] = "inProgress" =>
    \E o \in Operations : o.id = latest[u] /\ u \in o.users

\* Safety: every operation of the pool being queried gets the users it is for:
\* the NSParameterAssert of addOperation.
OperationsAsked == current.on => UsersOf(current.ops) \subseteq current.asked

\* Safety: a pool waits only behind another, so that one is there to launch it.
NextWaitsForCurrent == next.on => current.on

\* Liveness: a download comes to an end.
DownloadsEnd == \A u \in Users : status[u] = "inProgress" ~> status[u] # "inProgress"

=============================================================================
