-------------------------- MODULE OutgoingMessages --------------------------
(***************************************************************************)
(* The sending half of MXRoom, on the main thread: the FIFO that keeps the *)
(* messages in the order they were typed while each of them is uploaded,   *)
(* encrypted and sent, and the local echoes that stand for them until the  *)
(* events come back with a /sync.                                          *)
(*                                                                         *)
(* A text is its body, all that a local echo is recognised by.  What       *)
(* MXCrypto does with a message (see MegolmEncryption) ends in one of the  *)
(* two blocks it was given.                                                *)
(***************************************************************************)
EXTENDS RoomMessages, Sequences, SequencesExt

CONSTANTS
  Texts,      \* the bodies of text messages
  MaxEvents   \* BOUND: cancellations, failures and restarts
ASSUME MaxEventsAssumption == MaxEvents \in Nat

Kinds == Texts \cup {"reaction", "media"}

Sending == {"unsent", "queued", "uploading", "encrypting", "sending", "over"}
SentState == {"encrypting", "uploading", "sending", "sent", "failed"}

VARIABLES
  kind,
  stage,      \* how far the block of each operation has come
  ordered,    \* orderedOperations
  starting,   \* operations whose block has been dispatched to the main queue
  cancelled,  \* operations that are isCancelled
  aborted,    \* those cancelled by cancelSendingOperation
  echoes,     \* outgoingMessages, in the order of the store
  told,       \* the block of the application that has been called
  inFlight,   \* requests the homeserver may yet handle
  timeline,   \* the homeserver's order of the events
  synced,     \* how many of them have come with a /sync
  early,      \* history: events that came before the answer to their request
  events      \* so many disturbances have happened (see Disturb)

queueing == <<ordered, starting, cancelled, aborted>>
server == <<inFlight, timeline>>
vars == <<kind, stage, queueing, echoes, told, server, synced, early, events>>

TypeOK ==
  /\ kind \in [Msgs -> Kinds]
  /\ stage \in [Msgs -> Sending]
  /\ ordered \in Seq(Msgs) /\ IsInjective(ordered)
  /\ starting \subseteq Msgs /\ cancelled \subseteq Msgs /\ aborted \subseteq cancelled
  /\ echoes \in Seq([msg : Msgs, state : SentState])
  /\ told \in [Msgs -> {"nothing", "sent", "failed"}]
  /\ inFlight \subseteq Msgs
  /\ timeline \in Seq(Msgs) /\ IsInjective(timeline)
  /\ synced \in 0..Len(timeline) /\ early \subseteq Msgs
  /\ events \in 0..MaxEvents

Init ==
  /\ kind \in [Msgs -> Kinds]
  /\ stage = [m \in Msgs |-> "unsent"]
  /\ ordered = <<>> /\ starting = {} /\ cancelled = {} /\ aborted = {}
  /\ echoes = <<>>
  /\ told = [m \in Msgs |-> "nothing"]
  /\ inFlight = {} /\ timeline = <<>> /\ synced = 0 /\ early = {}
  /\ events = 0

\* Cancellations, failures and restarts.
Disturb == events < MaxEvents /\ events' = events + 1

(***************************************************************************)
(* The store of outgoing messages.  A reaction has no echo.                *)
(***************************************************************************)
\* q without the first of these places, if there is one.
RemoveFrom(q, places) == IF places = {} THEN q ELSE RemoveAt(q, Min(places))

HasEcho(m) == kind[m] # "reaction"
EchoOf(m) == {i \in DOMAIN echoes : echoes[i].msg = m}

\* addOutgoingMessage (for updateOutgoingMessage, a mutation: the one there is stays).
AddOutgoingMessage(m, state) ==
  IF HasEcho(m) THEN Append(echoes, [msg |-> m, state |-> state]) ELSE echoes

RemoveOutgoingMessage(m) == RemoveFrom(echoes, EchoOf(m))

\* updateOutgoingMessage: removed if it is there, and stored at the end.
UpdateOutgoingMessage(m, state) ==
  IF HasEcho(m) THEN Append(RemoveOutgoingMessage(m), [msg |-> m, state |-> state]) ELSE echoes

(***************************************************************************)
(* preserveOperationOrder and handleNextOperationAfter.                    *)
(***************************************************************************)
\* Where the block of an operation takes its message first.
Block(m) ==
  CASE kind[m] = "reaction" -> "sending" [] kind[m] = "media" -> "uploading"
    [] OTHER -> "encrypting"

\* The operations that wait, without the first ones if they are cancelled.
SkipCancelled(q, without) ==
  LET live == {i \in DOMAIN q : q[i] \notin without}
  IN  IF live = {} THEN <<>> ELSE SubSeq(q, Min(live), Len(q))

\* Mutation of IsRunning: whichever operation ends, the next one is launched.
EndsAnyway(m) == ordered # <<>> /\ m \in Msgs

IsRunning(m) == ordered # <<>> /\ Head(ordered) = m

\* The operation of m leaves the queue, its stage being st, and the next one is launched
\* if m was the one that ran.
HandleNextOperationAfter(m, st, without) ==
  LET rest == RemoveFrom(ordered, {i \in DOMAIN ordered : ordered[i] = m})
      next == IF IsRunning(m) THEN SkipCancelled(rest, without) ELSE rest
      launched == IF IsRunning(m) /\ next # <<>> THEN {Head(next)} ELSE {}
  IN  /\ ordered' = next
      /\ stage' = [n \in Msgs |->
           IF n \in launched THEN Block(n) ELSE IF n = m THEN st ELSE stage[n]]
      /\ inFlight' = inFlight \cup {n \in launched : Block(n) = "sending"}

Send(m) ==
  /\ stage[m] = "unsent" /\ \A n \in Msgs : n < m => stage[n] # "unsent"
  /\ stage' = [stage EXCEPT ![m] = "queued"]
  /\ echoes' = AddOutgoingMessage(m, "encrypting")
  /\ ordered' = Append(ordered, m)
  /\ starting' = IF ordered = <<>> THEN starting \cup {m} ELSE starting
  /\ UNCHANGED <<kind, cancelled, aborted, told, server, synced, early, events>>

\* The block dispatched by preserveOperationOrder runs, cancelled or not.
RunFirst(m) ==
  /\ m \in starting
  /\ starting' = starting \ {m}
  /\ stage' = [stage EXCEPT ![m] = Block(m)]
  /\ inFlight' = IF Block(m) = "sending" THEN inFlight \cup {m} ELSE inFlight
  /\ UNCHANGED <<kind, ordered, cancelled, aborted, echoes, told, timeline, synced, early, events>>

\* The application cancels the MXHTTPOperation it was given.
CancelOperation(m) ==
  /\ Disturb
  /\ stage[m] \notin {"unsent", "over"} /\ m \notin cancelled
  /\ cancelled' = cancelled \cup {m}
  /\ UNCHANGED <<kind, stage, ordered, starting, aborted, echoes, told, server, synced, early>>

CancelSendingOperation(m) ==
  /\ Disturb
  /\ m \in ToSet(ordered)
  /\ cancelled' = cancelled \cup {m} /\ aborted' = aborted \cup {m}
  /\ HandleNextOperationAfter(m, stage[m], cancelled')
  /\ UNCHANGED <<kind, starting, echoes, told, timeline, synced, early>>

(***************************************************************************)
(* The steps of a block.                                                   *)
(***************************************************************************)
\* Mutation of MutateRoomOperation: the operation of the inner send stays.
KeepSecondOperation(m) == Append(ordered, m)

\* mutateRoomOperation: the operation of the inner send is in the queue, and leaves it
\* to this one.
MutateRoomOperation(m) == ordered

\* Mutation of UploadDone: a cancelled upload returns without handleNextOperationAfter.
UploadDoneOrDropped(m) ==
  /\ stage[m] = "uploading"
  /\ stage' = [stage EXCEPT ![m] = IF m \in cancelled THEN "over" ELSE "encrypting"]
  /\ echoes' = IF m \in cancelled THEN echoes ELSE UpdateOutgoingMessage(m, "encrypting")
  /\ UNCHANGED <<kind, queueing, told, server, synced, early, events>>

\* The media has been uploaded: the message itself is sent by an operation that takes
\* the place of this one.
UploadDone(m) ==
  /\ stage[m] = "uploading"
  /\ IF m \in cancelled
       THEN /\ HandleNextOperationAfter(m, "over", cancelled)
            /\ UNCHANGED echoes
       ELSE /\ stage' = [stage EXCEPT ![m] = "encrypting"]
            /\ echoes' = UpdateOutgoingMessage(m, "encrypting")
            /\ ordered' = MutateRoomOperation(m)
            /\ UNCHANGED inFlight
  /\ UNCHANGED <<kind, starting, cancelled, aborted, told, timeline, synced, early, events>>

\* onFailure.  The echo of a media whose sending ends with a cancellation is removed.
Fail(m) ==
  /\ Disturb
  /\ \/ echoes' = UpdateOutgoingMessage(m, "failed")
     \/ /\ kind[m] = "media" /\ m \in cancelled
        /\ echoes' = RemoveOutgoingMessage(m)
  /\ told' = [told EXCEPT ![m] = "failed"]
  /\ HandleNextOperationAfter(m, "over", cancelled)
  /\ UNCHANGED <<kind, starting, cancelled, aborted, timeline, synced, early>>

UploadFails(m) == stage[m] = "uploading" /\ Fail(m)
EncryptionFails(m) == stage[m] = "encrypting" /\ Fail(m)

\* A timeout, an error, a cancellation: the homeserver may handle the request yet.
RequestFails(m) == stage[m] = "sending" /\ Fail(m)

Encrypted(m) ==
  /\ stage[m] = "encrypting"
  /\ stage' = [stage EXCEPT ![m] = "sending"]
  /\ echoes' = UpdateOutgoingMessage(m, "sending")
  /\ inFlight' = inFlight \cup {m}
  /\ UNCHANGED <<kind, queueing, told, timeline, synced, early, events>>

\* onSuccess.
RequestSucceeds(m) ==
  /\ stage[m] = "sending" /\ m \in ToSet(timeline)
  /\ echoes' = UpdateOutgoingMessage(m, "sent")
  /\ told' = [told EXCEPT ![m] = "sent"]
  /\ HandleNextOperationAfter(m, "over", cancelled)
  /\ UNCHANGED <<kind, starting, cancelled, aborted, timeline, synced, early, events>>

(***************************************************************************)
(* The homeserver, and the /sync that brings an event back.                *)
(***************************************************************************)
HomeserverAccepts(m) ==
  /\ m \in inFlight
  /\ inFlight' = inFlight \ {m}
  /\ timeline' = Append(timeline, m)
  /\ UNCHANGED <<kind, stage, queueing, echoes, told, synced, early, events>>

\* pendingLocalEchoRelatedToEvent: by event id, or else the first with the same content.
SameContent(m, n) == m = n \/ (kind[m] = kind[n] /\ kind[m] \in Texts)

PendingLocalEcho(m) ==
  LET byId == {i \in EchoOf(m) : echoes[i].state = "sent"}
      byContent == {i \in DOMAIN echoes : SameContent(m, echoes[i].msg)}
  IN  IF ~HasEcho(m) THEN {} ELSE IF byId # {} THEN {Min(byId)}
      ELSE IF byContent # {} THEN {Min(byContent)} ELSE {}

LiveEvent ==
  LET m == timeline[synced + 1]
  IN  /\ synced < Len(timeline)
      /\ synced' = synced + 1
      /\ echoes' = RemoveFrom(echoes, PendingLocalEcho(m))
      /\ early' = IF told[m] = "sent" THEN early ELSE early \cup {m}
      /\ UNCHANGED <<kind, stage, queueing, told, server, events>>

\* Numbers in their order.
Ascending(S) ==
  CHOOSE p \in [1..Cardinality(S) -> S] : \A i, j \in DOMAIN p : i < j => p[i] < p[j]

\* A new process; refreshOutgoingMessages: the echoes of what is not sent, as failed.
Restart ==
  /\ Disturb
  /\ stage' = [m \in Msgs |-> IF stage[m] = "unsent" THEN "unsent" ELSE "over"]
  /\ ordered' = <<>> /\ starting' = {}
  /\ LET kept == Ascending({i \in DOMAIN echoes : echoes[i].state # "sent"})
     IN  echoes' = [k \in DOMAIN kept |-> [echoes[kept[k]] EXCEPT !.state = "failed"]]
  /\ UNCHANGED <<kind, cancelled, aborted, told, server, synced, early>>

Next ==
  \/ \E m \in Msgs :
       \/ Send(m) \/ CancelOperation(m) \/ CancelSendingOperation(m)
       \/ RunFirst(m) \/ UploadDone(m) \/ UploadFails(m)
       \/ Encrypted(m) \/ EncryptionFails(m) \/ RequestSucceeds(m) \/ RequestFails(m)
       \/ HomeserverAccepts(m)
  \/ LiveEvent \/ Restart

Spec == Init /\ [][Next]_vars

\* The main queue runs its blocks; uploads, encryptions and requests end.
FairSpec == Spec /\ \A m \in Msgs :
  /\ WF_vars(RunFirst(m)) /\ WF_vars(UploadDone(m)) /\ WF_vars(Encrypted(m))
  /\ WF_vars(HomeserverAccepts(m)) /\ WF_vars(RequestSucceeds(m))

(***************************************************************************)
(* Properties.                                                             *)
(***************************************************************************)
Position(m) == CHOOSE i \in DOMAIN timeline : timeline[i] = m

\* orderedOperations, "sent in the same order as the user typed them": messages the
\* application was told are sent, and that cancelSendingOperation has not taken out of
\* the queue, are in the room in the order of their calls, through uploads,
\* encryptions, failures, cancellations of others and restarts.
SentInOrder ==
  \A m, n \in {x \in Msgs : told[x] = "sent"} \ aborted :
    m < n => Position(m) < Position(n)

Come == ToSet(SubSeq(timeline, 1, synced))

\* Local echoes: the echo of a message that is sent is gone when its event has come with
\* a /sync, if the event came after the answer to the request; that of a message
\* whose sending failed is there to be sent again, if no other message has its text and
\* it is not a media that was cancelled.
EchoesSettled ==
  \A m \in Msgs :
    /\ told[m] = "sent" /\ m \in Come \ early => EchoOf(m) = {}
    /\ (/\ told[m] = "failed" /\ HasEcho(m) /\ m \notin Come
        /\ kind[m] = "media" => m \notin cancelled
        /\ \A n \in Msgs \ {m} : ~SameContent(m, n))
         => \E i \in EchoOf(m) : echoes[i].state = "failed"

\* "executed one after the other": every message leaves the queue, sent, failed or
\* cancelled, however those before it end.
QueueMoves == \A m \in Msgs : m \in ToSet(ordered) ~> m \notin ToSet(ordered)

=============================================================================
