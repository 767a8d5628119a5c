-------------------------- MODULE MegolmEncryption --------------------------
(***************************************************************************)
(* MXMegolmEncryption of one room: the outbound session that encrypts what *)
(* this device sends, its rotation, the sharing of its key with the other  *)
(* devices of the room, and the messages that wait for it.  Everything     *)
(* runs on cryptoQueue; only the requests leave it.                        *)
(*                                                                         *)
(* A session is a ratchet: it encrypts with its index and moves on, and a  *)
(* device that has its key at an index reads what follows.  Every call     *)
(* works on a copy of the session, unarchived from the crypto store.  A    *)
(* user has one device.  The messages come from the queue of MXRoom, which *)
(* promises (see OutgoingMessages) to hand over one at a time, but for     *)
(* those that cancelSendingOperation has taken out of it.                  *)
(***************************************************************************)
EXTENDS RoomMessages, Sequences, FiniteSets, FiniteSetsExt

CONSTANTS
  Devices,             \* the devices of the other users
  MaxSession,          \* BOUND: outbound sessions
  MaxEvents,           \* BOUND: what happens besides encrypting and succeeding
  RotationPeriodMsgs   \* sessionRotationPeriodMsgs, 100 in the code

ASSUME MegolmAssumption ==
  MaxSession \in Nat \ {0} /\ MaxEvents \in Nat /\ RotationPeriodMsgs \in Nat \ {0}

Ensure == 0                  \* the call of ensureEncryptionInRoom
Calls == Msgs \cup {Ensure}  \* and those of encryptEventContent
Sessions == 1..MaxSession
Index == 0..MaxMsg
Never == MaxMsg + 1          \* no index: the key has not been sent

\* MXOutboundSessionInfo.  Only the id and the ratchet are in the store.
Outbound == [id : {0} \cup Sessions, index : Index]
NoSession == [id |-> 0, index |-> 0]
SessionInfo == [id : {0} \cup Sessions, index : Index, useCount : Index]

\* "devices": the users' devices are being fetched; "olm": waits for /keys/claim;
\* "send": the key is on its way; "ready", "failed": the blocks to be called.
Stage == {"idle", "devices", "olm", "send", "ready", "failed"}
Call == [stage : Stage, users : SUBSET Devices, session : SessionInfo,
         shareMap : SUBSET Devices,    \* devices to share with
         targets : SUBSET Devices,     \* those with an Olm session
         inProgress : SUBSET Devices,  \* devicesInProgress: their /keys/claim is under way
         claim : SUBSET Devices]       \* the request made by this very call
NoCall == [stage |-> "idle", users |-> {}, session |-> [id |-> 0, index |-> 0, useCount |-> 0],
           shareMap |-> {}, targets |-> {}, inProgress |-> {}, claim |-> {}]

VARIABLES
  room,        \* the members' devices, as the client knows them
  stored,      \* the outbound session in the crypto store
  created,     \* sessions created so far
  shared,      \* MXRealmSharedOutboundSession: index at which a device got a session
  olm,         \* devices with which there is an Olm session
  claiming,    \* ensureOlmSessionsInProgress
  calls,
  pending,     \* pendingEncryptions
  answer,      \* which block of encryptEventContent has been called for a message
  cancelled,   \* messages cancelSendingOperation has taken out of the queue of the room
  cipher,      \* the session and the index each message was encrypted with
  keys,        \* the lowest index at which a device has received a session
  overlapped,  \* history: what was under way when a call came
  unmarked,    \* history: keys delivered by a request that failed for the client
  events       \* so many disturbances have happened (see Disturb)

store == <<stored, created, shared, olm>>
messages == <<answer, cancelled>>
history == <<overlapped, unmarked>>
vars == <<room, store, claiming, calls, pending, messages, cipher, keys, history, events>>

TypeOK ==
  /\ room \in SUBSET Devices
  /\ stored \in Outbound /\ created \in 0..MaxSession
  /\ shared \in [Sessions -> [Devices -> Index \cup {Never}]]
  /\ olm \in SUBSET Devices /\ claiming \in SUBSET Devices
  /\ calls \in [Calls -> Call]
  /\ pending \in Seq(Msgs)
  /\ answer \in [Msgs -> {"unasked", "waiting", "encrypted", "failed"}]
  /\ cancelled \in SUBSET Msgs
  /\ cipher \in [Msgs -> Outbound]
  /\ keys \in [Devices -> [Sessions -> Index \cup {Never}]]
  /\ overlapped \in SUBSET {"share", "encryption"}
  /\ unmarked \in SUBSET (Devices \X Sessions)
  /\ events \in 0..MaxEvents

Init ==
  /\ room \in SUBSET Devices
  /\ stored = NoSession /\ created = 0
  /\ shared = [s \in Sessions |-> [d \in Devices |-> Never]]
  /\ olm = {} /\ claiming = {}
  /\ calls = [c \in Calls |-> NoCall]
  /\ pending = <<>>
  /\ answer = [m \in Msgs |-> "unasked"] /\ cancelled = {}
  /\ cipher = [m \in Msgs |-> NoSession]
  /\ keys = [d \in Devices |-> [s \in Sessions |-> Never]]
  /\ overlapped = {} /\ unmarked = {} /\ events = 0

\* Changes of the members, sessions that get old or are discarded, cancellations, calls
\* of ensureEncryptionInRoom, failures, restarts.
Disturb == events < MaxEvents /\ events' = events + 1

\* The members of the room change.
MembersChange ==
  /\ Disturb
  /\ room' \in SUBSET Devices \ {room}
  /\ UNCHANGED <<store, claiming, calls, pending, messages, cipher, keys, history>>

(***************************************************************************)
(* The two entries.  The users are read on the main thread, and the call   *)
(* is on cryptoQueue next.                                                 *)
(***************************************************************************)
Asked == [NoCall EXCEPT !.stage = "devices", !.users = room]

UnderWay(cs) == \E c \in cs : calls[c].stage # "idle"
Overlaps(c) ==
  (IF UnderWay(Calls) THEN {"share"} ELSE {})
    \cup (IF UnderWay(Msgs) /\ c # Ensure THEN {"encryption"} ELSE {})

\* The queue of the room runs the block of its next message.
EncryptEventContent(m) ==
  /\ answer[m] = "unasked"
  /\ \A n \in Msgs : n < m => answer[n] # "unasked" /\ (answer[n] = "waiting" => n \in cancelled)
  /\ answer' = [answer EXCEPT ![m] = "waiting"]
  /\ calls' = [calls EXCEPT ![m] = Asked]
  /\ pending' = Append(pending, m)
  /\ overlapped' = overlapped \cup Overlaps(m)
  /\ UNCHANGED <<room, store, claiming, cancelled, cipher, keys, unmarked, events>>

\* The message leaves the queue, its encryption goes on.
CancelSendingOperation(m) ==
  /\ Disturb
  /\ answer[m] = "waiting" /\ m \notin cancelled
  /\ cancelled' = cancelled \cup {m}
  /\ UNCHANGED <<room, store, claiming, calls, pending, answer, cipher, keys, history>>

EnsureEncryptionInRoom ==
  /\ Disturb
  /\ calls[Ensure].stage = "idle" /\ calls[Ensure].claim = {}
  /\ calls' = [calls EXCEPT ![Ensure] = Asked]
  /\ overlapped' = overlapped \cup Overlaps(Ensure)
  /\ UNCHANGED <<room, store, claiming, pending, messages, cipher, keys, unmarked>>

\* A block of cryptoQueue runs to its end before the next one.
QueueFree == \A c \in Calls : calls[c].stage \notin {"ready", "failed"}

(***************************************************************************)
(* ensureOutboundSession, once the devices are there, and the first part   *)
(* of shareKey.                                                            *)
(***************************************************************************)
\* outboundSession: what is in the store, in a new object.  The useCount of the object
\* that encrypts is counted up, and dropped with it.
OutboundSession == [id |-> stored.id, index |-> stored.index, useCount |-> 0]

NeedsRotation(session, old) == session.useCount >= RotationPeriodMsgs \/ old

SharedWith(id) == IF id = 0 THEN {} ELSE {d \in Devices : shared[id][d] # Never}

\* Mutation of SharedWithTooManyDevices: only a session shared with nobody in the room.
SharedWithOthersOnly(session, devices) == SharedWith(session.id) \cap devices = {}

SharedWithTooManyDevices(session, devices) == ~(SharedWith(session.id) \subseteq devices)

\* ensureOlmSessionsForDevices: claims what no other call is claiming.
AfterOlm(call) ==
  IF call.inProgress # {} THEN [call EXCEPT !.stage = "olm"]
  ELSE [call EXCEPT !.stage = IF call.targets = {} THEN "ready" ELSE "send"]

\* Mutation of ShareMap: the devices of a session restored from the store have its key.
ShareMapOfNew(session, devices) == IF session.index > 0 THEN {} ELSE devices

ShareMap(session, devices) == devices \ SharedWith(session.id)

ShareKey(c, session, devices) ==
  LET shareMap == ShareMap(session, devices)
      missing == shareMap \ olm
  IN  /\ calls' = [calls EXCEPT ![c] =
           AfterOlm([calls[c] EXCEPT !.session = session, !.shareMap = shareMap,
                       !.targets = shareMap \cap olm, !.inProgress = missing,
                       !.claim = missing \ claiming])]
      /\ claiming' = claiming \cup missing

EnsureOutboundSession(c, old) ==
  LET found == OutboundSession
      devices == calls[c].users
      rotate == found.id = 0 \/ NeedsRotation(found, old)
                  \/ SharedWithTooManyDevices(found, devices)
      new == [id |-> created + 1, index |-> 0]
  IN  /\ QueueFree /\ calls[c].stage = "devices"
      /\ rotate => created < MaxSession
      /\ stored' = IF rotate THEN new ELSE stored
      /\ created' = IF rotate THEN created + 1 ELSE created
      /\ ShareKey(c, IF rotate THEN [id |-> new.id, index |-> 0, useCount |-> 0] ELSE found,
                  devices)
      /\ IF old THEN Disturb ELSE UNCHANGED events
      /\ UNCHANGED <<room, shared, olm, pending, messages, cipher, keys, history>>

\* The download fails, or a device is not known to the user yet.
GetDevicesFails(c) ==
  /\ Disturb
  /\ QueueFree /\ calls[c].stage = "devices"
  /\ calls' = [calls EXCEPT ![c].stage = "failed"]
  /\ UNCHANGED <<room, store, claiming, pending, messages, cipher, keys, history>>

(***************************************************************************)
(* The answer of /keys/claim, broadcast to every call that waits for one   *)
(* of its devices; then the rest of shareKey.                              *)
(***************************************************************************)
Waits(c, claim) == calls[c].stage = "olm" /\ calls[c].inProgress \cap claim # {}
Awaited(claim) == UNION {calls[c].inProgress : c \in {d \in Calls : Waits(d, claim)}}

ClaimAnswered(c, got) ==
  LET claim == calls[c].claim
      notified(d) == [calls[d] EXCEPT !.inProgress = @ \ claim,
                        !.targets = @ \cup (calls[d].inProgress \cap got)]
  IN  /\ QueueFree /\ claim # {} /\ got \subseteq claim
      /\ olm' = olm \cup got
      /\ calls' = [d \in Calls |->
           LET call == IF Waits(d, claim) THEN AfterOlm(notified(d)) ELSE calls[d]
           IN  IF d = c THEN [call EXCEPT !.claim = {}] ELSE call]
      /\ claiming' = claiming \ (claim \cap Awaited(claim))
      /\ UNCHANGED <<room, stored, created, shared, pending, messages, cipher, keys, history,
                     events>>

ClaimFails(c) ==
  LET claim == calls[c].claim
  IN  /\ Disturb /\ QueueFree /\ claim # {}
      /\ calls' = [d \in Calls |->
           LET call == IF Waits(d, claim)
                         THEN [calls[d] EXCEPT !.stage = "failed", !.inProgress = {}]
                         ELSE calls[d]
           IN  IF d = c THEN [call EXCEPT !.claim = {}] ELSE call]
      /\ claiming' = IF Awaited(claim) = {} THEN claiming ELSE claiming \ claim
      /\ UNCHANGED <<room, store, pending, messages, cipher, keys, history>>

Delivered(targets, session) ==
  [d \in Devices |-> IF d \in targets
                       THEN [keys[d] EXCEPT ![session.id] = Min({@, session.index})]
                       ELSE keys[d]]

\* All of the shareMap, the devices without an Olm session included.
Marked(call) ==
  [shared EXCEPT ![call.session.id] = [d \in Devices |->
     IF d \in call.shareMap /\ @[d] = Never THEN call.session.index ELSE @[d]]]

KeySent(c) ==
  /\ QueueFree /\ calls[c].stage = "send"
  /\ keys' = Delivered(calls[c].targets, calls[c].session)
  /\ shared' = Marked(calls[c])
  /\ calls' = [calls EXCEPT ![c].stage = "ready"]
  /\ UNCHANGED <<room, stored, created, olm, claiming, pending, messages, cipher, history,
                 events>>

\* The request fails; the homeserver may have handled it.
KeyNotSent(c, lost) ==
  /\ Disturb
  /\ QueueFree /\ calls[c].stage = "send"
  /\ keys' = IF lost THEN Delivered(calls[c].targets, calls[c].session) ELSE keys
  /\ unmarked' = IF lost THEN unmarked \cup (calls[c].targets \X {calls[c].session.id})
                 ELSE unmarked
  /\ calls' = [calls EXCEPT ![c].stage = "failed"]
  /\ UNCHANGED <<room, store, claiming, pending, messages, cipher, overlapped>>

(***************************************************************************)
(* processPendingEncryptionsInSession: everything that waits, whichever    *)
(* call it came with.                                                      *)
(***************************************************************************)
Answered(outcome) ==
  [m \in Msgs |-> IF \E i \in DOMAIN pending : pending[i] = m THEN outcome ELSE answer[m]]

\* Mutations of StoreOutboundGroupSession: the ratchet is one message ahead, or is not
\* saved at all.
StoreOneAhead(session, n) == [id |-> session.id, index |-> session.index + n + 1]
StoreNothing(session, n) == stored

StoreOutboundGroupSession(session, n) ==
  IF n = 0 THEN stored ELSE [id |-> session.id, index |-> session.index + n]

EncryptPending(c) ==
  LET session == calls[c].session
  IN  /\ calls[c].stage = "ready" /\ c # Ensure
      /\ cipher' = [m \in Msgs |->
           IF \E i \in DOMAIN pending : pending[i] = m
             THEN LET i == CHOOSE i \in DOMAIN pending : pending[i] = m
                  IN  [id |-> session.id, index |-> session.index + i - 1]
             ELSE cipher[m]]
      /\ stored' = StoreOutboundGroupSession(session, Len(pending))
      /\ answer' = Answered("encrypted")
      /\ pending' = <<>>
      /\ calls' = [calls EXCEPT ![c].stage = "idle"]
      /\ UNCHANGED <<room, created, shared, olm, claiming, cancelled, keys, history, events>>

\* Mutation of FailPending: only the message of the call is told.
FailOwn(c) ==
  /\ calls[c].stage = "failed" /\ c # Ensure
  /\ answer' = [answer EXCEPT ![c] = "failed"]
  /\ pending' = <<>>
  /\ calls' = [calls EXCEPT ![c].stage = "idle"]
  /\ UNCHANGED <<room, store, claiming, cancelled, cipher, keys, history, events>>

FailPending(c) ==
  /\ calls[c].stage = "failed" /\ c # Ensure
  /\ answer' = Answered("failed")
  /\ pending' = <<>>
  /\ calls' = [calls EXCEPT ![c].stage = "idle"]
  /\ UNCHANGED <<room, store, claiming, cancelled, cipher, keys, history, events>>

EnsureEnds ==
  /\ calls[Ensure].stage \in {"ready", "failed"}
  /\ calls' = [calls EXCEPT ![Ensure].stage = "idle"]
  /\ UNCHANGED <<room, store, claiming, pending, messages, cipher, keys, history, events>>

\* reshareKey: a device asks again for a session it has been given.
ReshareKey(d, s) ==
  /\ QueueFree /\ shared[s][d] # Never
  /\ olm' = olm \cup {d}
  /\ keys' = [keys EXCEPT ![d][s] = Min({@, shared[s][d]})]
  /\ UNCHANGED <<room, stored, created, shared, claiming, calls, pending, messages, cipher,
                 history, events>>

\* discardOutboundGroupSessionForRoomWithRoomId, from the application.
DiscardOutboundGroupSession ==
  /\ Disturb
  /\ QueueFree /\ stored # NoSession
  /\ stored' = NoSession
  /\ UNCHANGED <<room, created, shared, olm, claiming, calls, pending, messages, cipher, keys,
                 history>>

\* The process ends: what is not in the store is gone.  A key on its way at that moment
\* is one whose request has just failed.
Restart ==
  /\ Disturb
  /\ \A c \in Calls : calls[c].stage # "send"
  /\ calls' = [c \in Calls |->
       [calls[c] EXCEPT !.stage = "idle", !.claim = {}, !.inProgress = {}]]
  /\ claiming' = {} /\ pending' = <<>>
  /\ answer' = [m \in Msgs |-> IF answer[m] = "waiting" THEN "failed" ELSE answer[m]]
  /\ UNCHANGED <<room, store, cancelled, cipher, keys, history>>

Work(c) ==
  \/ EnsureOutboundSession(c, FALSE)
  \/ \E got \in SUBSET calls[c].claim : ClaimAnswered(c, got)
  \/ KeySent(c) \/ EncryptPending(c) \/ FailPending(c)

Trouble(c) ==
  \/ EnsureOutboundSession(c, TRUE)
  \/ GetDevicesFails(c) \/ ClaimFails(c) \/ \E lost \in BOOLEAN : KeyNotSent(c, lost)

Next ==
  \/ \E m \in Msgs : EncryptEventContent(m) \/ CancelSendingOperation(m)
  \/ \E c \in Calls : Work(c) \/ Trouble(c)
  \/ EnsureEnds
  \/ \E d \in Devices, s \in Sessions : ReshareKey(d, s)
  \/ EnsureEncryptionInRoom \/ MembersChange \/ DiscardOutboundGroupSession \/ Restart

Spec == Init /\ [][Next]_vars

\* cryptoQueue runs its blocks, and the requests of crypto end.
FairSpec == Spec /\ WF_vars(EnsureEnds) /\ \A c \in Calls : WF_vars(Work(c))

(***************************************************************************)
(* Properties.                                                             *)
(***************************************************************************)
Ciphered == {m \in Msgs : cipher[m].id # 0}

\* MXOlmDevice.m takes a message index met twice for a replay: no two messages are
\* encrypted with the same index of a session, unless two encryptions of the room
\* have been under way at once, which takes a cancelSendingOperation.
NoIndexReuse ==
  \/ "encryption" \in overlapped
  \/ \A m, n \in Ciphered :
       m # n => <<cipher[m].id, cipher[m].index>> # <<cipher[n].id, cipher[n].index>>

\* "Determine if we have shared with anyone we shouldn't have": a device that was not in
\* the room when a message was handed over has no key that opens it, now or after a
\* reshare, unless calls have been under way at once, or the key was delivered by a
\* request that failed.
NoLeak ==
  \/ overlapped # {}
  \/ \A m \in Ciphered : \A d \in Devices \ calls[m].users :
       keys[d][cipher[m].id] > cipher[m].index \/ <<d, cipher[m].id>> \in unmarked

\* shareKey comes before processPendingEncryptions: a device that was in the room when
\* a message was handed over can open it as soon as it is encrypted, unless two
\* encryptions have been under way at once: the later one puts back the ratchet of the
\* earlier, and the next message has an index from before a key that was shared.
\* The others had no one-time key: just now, or when the session was shared with
\* someone else, in which case reshareKey sends them the key from that index.
Decryptable ==
  \/ "encryption" \in overlapped
  \/ \A m \in Ciphered : \A d \in calls[m].users :
       \/ keys[d][cipher[m].id] <= cipher[m].index
       \/ shared[cipher[m].id][d] <= cipher[m].index
       \/ d \in calls[m].shareMap \ calls[m].targets

\* Devices that are being claimed for, with no request that would end it.
Orphaned == claiming \ UNION {calls[c].claim : c \in Calls}

\* Every message handed over is encrypted or refused, whichever calls share its claims
\* and its pending list, unless a claim has been orphaned.
EncryptionEnds ==
  \A m \in Msgs : answer[m] = "waiting" ~> (answer[m] # "waiting" \/ Orphaned # {})

=============================================================================
