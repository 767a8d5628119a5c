------------------------------- MODULE Calls -------------------------------
(***************************************************************************)
(* One call: MXCall and MXCallManager on the device of the caller and on   *)
(* each device of the user who is called.  They only meet in the events of *)
(* the signaling room, which every device reads in the same order, its own *)
(* events included, and in the connection of their call stacks.            *)
(*                                                                         *)
(* A device sends its events one after the other (see OutgoingMessages);   *)
(* an event may come back with a /sync before its request is answered.     *)
(* The application does not implement call:didEncounterError:reason:, so   *)
(* that an error hangs up.  Holding, transfers and candidates are left     *)
(* out.                                                                    *)
(***************************************************************************)
EXTENDS Naturals, Sequences, FiniteSets

CONSTANTS
  Callees,    \* the devices of the user who is called
  Caller,     \* the device that calls; also stands for nil
  Encrypted,  \* the signaling room is encrypted
  MaxEvents   \* BOUND: hang-ups of users and failures

ASSUME CallsAssumption ==
  Caller \notin Callees /\ Encrypted \in BOOLEAN /\ MaxEvents \in Nat

Parties == Callees \cup {Caller}

\* MXCallState; MXCallStateInviteExpired and MXCallStateAnsweredElseWhere are left in the
\* same block for MXCallStateEnded.
State == {"Fledgling", "WaitLocalMedia", "CreateOffer", "InviteSent", "Ringing",
          "CreateAnswer", "Connecting", "Connected", "Ended"}

\* MXCallEndReason, as far as it says how the call came to its end.
EndReason == {"Unknown", "HungUp", "Missed", "Elsewhere"}

\* known: the manager has the call.  over: the call has been Ended, and its stack with it.
Call == [state : State, timer : BOOLEAN, known : BOOLEAN, over : BOOLEAN, reason : EndReason]
Fledgling == [state |-> "Fledgling", timer |-> FALSE, known |-> FALSE, over |-> FALSE,
              reason |-> "Unknown"]

\* A select_answer is of an answer or of a reject.
Event == [type : {"invite", "answer", "reject", "hangup"}, by : Parties]
           \cup [type : {"select"}, by : {Caller}, of : {"answer", "reject"}, party : Callees]

VARIABLES
  call,
  stack,      \* what the call stack of each device is asked to do
  wants,      \* callees whose answer is queued, or tried again in a while
  ensuring,   \* callees whose answer waits for ensureEncryptionInRoom
  selected,   \* selectedAnswer of the caller
  link,       \* the callee whose answer the caller's stack has taken
  outbox,     \* what each device sends, the first being in the hands of the homeserver
  accepted,   \* devices whose first event is in the timeline of the room
  inbox,      \* events of the timeline that have not come to a device with a /sync
  overtaken,  \* history: an answer was there before that of the request of the invite
  hungUp,     \* history: there is a hang-up in the timeline
  events      \* so many disturbances have happened (see Disturb)

queue == <<outbox, accepted>>
history == <<overtaken, hungUp>>
vars == <<call, stack, wants, ensuring, selected, link, queue, inbox, history, events>>

TypeOK ==
  /\ call \in [Parties -> Call]
  /\ stack \in [Parties -> {"none", "offer", "handleOffer"}]
  /\ wants \subseteq Callees /\ ensuring \subseteq Callees
  /\ selected \in Parties /\ link \in Parties
  /\ outbox \in [Parties -> Seq(Event)] /\ accepted \subseteq Parties
  /\ \A p \in accepted : outbox[p] # <<>>
  /\ inbox \in [Parties -> Seq(Event)]
  /\ overtaken \in BOOLEAN /\ hungUp \in BOOLEAN
  /\ events \in 0..MaxEvents

Init ==
  /\ call = [p \in Parties |-> Fledgling]
  /\ stack = [p \in Parties |-> "none"]
  /\ wants = {} /\ ensuring = {}
  /\ selected = Caller /\ link = Caller
  /\ outbox = [p \in Parties |-> <<>>] /\ accepted = {}
  /\ inbox = [p \in Parties |-> <<>>]
  /\ overtaken = FALSE /\ hungUp = FALSE /\ events = 0

\* Hang-ups, failures, errors of a connection that could have stayed.
Disturb == events < MaxEvents /\ events' = events + 1

(***************************************************************************)
(* The ends of a call.                                                     *)
(***************************************************************************)
InState(c, state) == [c EXCEPT !.state = state]

SetEnded(c, reason) == [c EXCEPT !.state = "Ended", !.over = TRUE, !.reason = reason]

TerminateWithReason(c) == [SetEnded(c, "HungUp") EXCEPT !.timer = FALSE]

\* onCallAnsweredElsewhere, onCallDeclinedElsewhere.
OnCallAnsweredElsewhere(c) == [SetEnded(c, "Elsewhere") EXCEPT !.known = FALSE]

\* hangupWithReason: what is sent depends on the state; the call ends when it is sent.
HangupWithReason(p) ==
  CASE call[p].state = "Ringing" -> <<[type |-> "reject", by |-> p]>>
    [] call[p].state = "Ended" -> <<>>
    [] OTHER -> <<[type |-> "hangup", by |-> p]>>

SendEvents(p, es) == outbox' = [outbox EXCEPT ![p] = @ \o es]

\* didEncounterError.
DidEncounterError(p) == SendEvents(p, HangupWithReason(p))

\* expireCallInvite.
ExpireCallInvite(p) ==
  /\ call[p].timer
  /\ call' = [call EXCEPT ![p] = [SetEnded(@, "Missed") EXCEPT !.timer = FALSE, !.known = FALSE]]
  /\ inbox' = [inbox EXCEPT ![p] = <<>>]
  /\ UNCHANGED <<stack, wants, ensuring, selected, link, queue, history, events>>

(***************************************************************************)
(* The users.                                                              *)
(***************************************************************************)
CallWithVideo ==
  /\ call[Caller].state = "Fledgling"
  /\ call' = [call EXCEPT ![Caller].state = "WaitLocalMedia", ![Caller].known = TRUE]
  /\ stack' = [stack EXCEPT ![Caller] = "offer"]
  /\ UNCHANGED <<wants, ensuring, selected, link, queue, inbox, history, events>>

Hangup(p) ==
  /\ Disturb
  /\ HangupWithReason(p) # <<>> /\ call[p].state # "Fledgling"
  /\ SendEvents(p, HangupWithReason(p))
  /\ UNCHANGED <<call, stack, wants, ensuring, selected, link, accepted, inbox, history>>

(***************************************************************************)
(* The block of answer.                                                    *)
(***************************************************************************)
\* createAnswer: an ended stack does not call back.
CreateAnswer(p, ok) ==
  IF call[p].over THEN UNCHANGED <<outbox, events>>
  ELSE IF ok THEN SendEvents(p, <<[type |-> "answer", by |-> p]>>) /\ UNCHANGED events
  ELSE SendEvents(p, <<[type |-> "hangup", by |-> p]>>) /\ Disturb

\* Mutation of AnswerCall: the timer goes on.
AnswerCallTimed(p) ==
  /\ call' = [call EXCEPT ![p].state = "Connecting"]
  /\ \E ok \in BOOLEAN : CreateAnswer(p, ok)

\* The inner block, whatever has happened while encryption was being ensured.
AnswerCall(p) ==
  /\ call' = [call EXCEPT ![p].state = "Connecting", ![p].timer = FALSE]
  /\ \E ok \in BOOLEAN : CreateAnswer(p, ok)

CanAnswer(p) ==
  call[p].state = "Ringing" \/ (Encrypted /\ call[p].state = "CreateAnswer")

AnswerIfRinging(p) ==
  /\ CanAnswer(p)
  /\ IF Encrypted
       THEN /\ call' = [call EXCEPT ![p].state = "CreateAnswer"]
            /\ ensuring' = ensuring \cup {p}
            /\ UNCHANGED <<outbox, events>>
       ELSE AnswerCall(p) /\ UNCHANGED ensuring
  /\ UNCHANGED <<stack, selected, link, accepted, inbox, history>>

\* answer: on a call that does not ring yet, it is tried again in a short future.
Answer(p) ==
  \/ AnswerIfRinging(p) /\ call[p].state = "Ringing" /\ UNCHANGED wants
  \/ /\ call[p].state = "WaitLocalMedia" /\ wants' = wants \cup {p}
     /\ UNCHANGED <<call, stack, ensuring, selected, link, queue, inbox, history, events>>

TryAnswer(p) ==
  /\ p \in wants /\ wants' = wants \ {p}
  /\ \/ AnswerIfRinging(p)
     \/ /\ call[p].state = "Ended"
        /\ UNCHANGED <<call, stack, ensuring, selected, link, queue, inbox, history, events>>

EncryptionEnsured(p) ==
  /\ p \in ensuring
  /\ ensuring' = ensuring \ {p}
  /\ AnswerCall(p)
  /\ UNCHANGED <<stack, wants, selected, link, accepted, inbox, history>>

EncryptionFails(p) ==
  /\ Disturb
  /\ p \in ensuring
  /\ ensuring' = ensuring \ {p}
  /\ DidEncounterError(p)
  /\ UNCHANGED <<call, stack, wants, selected, link, accepted, inbox, history>>

(***************************************************************************)
(* The call stack.  It may still call back when it has been ended.         *)
(***************************************************************************)
OfferCreated ==
  /\ stack[Caller] = "offer"
  /\ stack' = [stack EXCEPT ![Caller] = "none"]
  /\ call' = [call EXCEPT ![Caller].state = "CreateOffer"]
  /\ SendEvents(Caller, <<[type |-> "invite", by |-> Caller]>>)
  /\ UNCHANGED <<wants, ensuring, selected, link, accepted, inbox, history, events>>

OfferHandled(p) ==
  /\ stack[p] = "handleOffer"
  /\ stack' = [stack EXCEPT ![p] = "none"]
  /\ call' = IF call[p].state = "Ended" THEN call ELSE [call EXCEPT ![p].state = "Ringing"]
  /\ UNCHANGED <<wants, ensuring, selected, link, queue, inbox, history, events>>

StackFails(p) ==
  /\ Disturb
  /\ stack[p] # "none"
  /\ stack' = [stack EXCEPT ![p] = "none"]
  /\ DidEncounterError(p)
  /\ UNCHANGED <<call, wants, ensuring, selected, link, accepted, inbox, history>>

\* A stack that has been ended need not answer.
StackIsSilent(p) ==
  /\ stack[p] # "none" /\ call[p].over
  /\ stack' = [stack EXCEPT ![p] = "none"]
  /\ UNCHANGED <<call, wants, ensuring, selected, link, queue, inbox, history, events>>

Linked(p) == link # Caller /\ p \in {Caller, link} /\ ~call[Caller].over /\ ~call[link].over

CallStackCallDidConnect(p) ==
  /\ call[p].state = "Connecting" /\ Linked(p)
  /\ call' = [call EXCEPT ![p].state = "Connected"]
  /\ UNCHANGED <<stack, wants, ensuring, selected, link, queue, inbox, history, events>>

\* The connection is lost, or cannot be made; once is enough.
OnError(p) ==
  /\ call[p].state \in {"Connecting", "Connected"} /\ ~call[p].over
  /\ \A i \in DOMAIN outbox[p] : outbox[p][i].type # "hangup"
  /\ DidEncounterError(p)
  /\ UNCHANGED <<call, stack, wants, ensuring, selected, link, accepted, inbox, history>>

PeerIsGone(p) ==
  IF p = Caller THEN link # Caller /\ call[link].over
  ELSE call[Caller].over \/ link \notin {Caller, p}

ConnectionLost(p) == OnError(p) /\ Disturb
ConnectionEnds(p) == PeerIsGone(p) /\ OnError(p) /\ UNCHANGED events

(***************************************************************************)
(* The requests of sendEventOfType.                                        *)
(***************************************************************************)
\* An event of a device itself is ignored, but for a hang-up; so is what comes for a call
\* that its manager does not have, or has no more.
Heeds(q, e) ==
  /\ e.by # q \/ e.type = "hangup"
  /\ call[q].known \/ (call[q].state = "Fledgling" /\ (inbox[q] # <<>> \/ e.type = "invite"))

Dequeue(p, es) == outbox' = [outbox EXCEPT ![p] = Tail(@) \o es]

\* The success block of an answer only keeps it: the next event may be sent at once.
HomeserverAccepts(p) ==
  /\ outbox[p] # <<>> /\ p \notin accepted
  /\ LET e == Head(outbox[p])
     IN  /\ inbox' = [q \in Parties |-> IF Heeds(q, e) THEN Append(inbox[q], e) ELSE inbox[q]]
         /\ hungUp' = (hungUp \/ e.type = "hangup")
  /\ IF Head(outbox[p]).type = "answer"
       THEN Dequeue(p, <<>>) /\ UNCHANGED accepted
       ELSE accepted' = accepted \cup {p} /\ UNCHANGED outbox
  /\ UNCHANGED <<call, stack, wants, ensuring, selected, link, overtaken, events>>

\* The request of the first event of a device is answered.
Sent(p, e) == p \in accepted /\ e = Head(outbox[p]) /\ accepted' = accepted \ {p}

\* The success blocks; that of the invite starts the timer.
InviteSent(e) ==
  /\ e.type = "invite" /\ Sent(Caller, e) /\ Dequeue(Caller, <<>>)
  /\ call' = [call EXCEPT ![Caller].state = "InviteSent", ![Caller].timer = TRUE]
  /\ UNCHANGED <<stack, wants, ensuring, selected, link, inbox, history, events>>

\* continueBlock of handleCallAnswer; the stack takes the answer, or does not.
AnswerSelected(e) ==
  /\ e.type = "select" /\ Sent(Caller, e) /\ e.of = "answer"
  /\ call' = [call EXCEPT ![Caller].state = "Connecting"]
  /\ \/ call[Caller].over /\ Dequeue(Caller, <<>>) /\ UNCHANGED <<selected, link, events>>
     \/ /\ ~call[Caller].over /\ Dequeue(Caller, <<>>)
        /\ link' = e.party /\ UNCHANGED <<selected, events>>
     \/ /\ Disturb
        /\ ~call[Caller].over /\ Dequeue(Caller, <<[type |-> "hangup", by |-> Caller]>>)
        /\ selected' = Caller /\ UNCHANGED link
  /\ UNCHANGED <<stack, wants, ensuring, inbox, history>>

EndSent(p, e) ==
  /\ \/ e.type \in {"hangup", "reject"}
     \/ e.type = "select" /\ e.of = "reject"
  /\ Sent(p, e) /\ Dequeue(p, <<>>)
  /\ call' = [call EXCEPT ![p] = TerminateWithReason(@)]
  /\ UNCHANGED <<stack, wants, ensuring, selected, link, inbox, history, events>>

\* Mutations of SendFails: an end that cannot be sent is forgotten; the next event is
\* taken for sent.
SendFailsQuietly(p) ==
  /\ Disturb
  /\ outbox[p] # <<>>
  /\ Dequeue(p, <<>>)
  /\ accepted' = accepted \ {p}
  /\ UNCHANGED <<call, stack, wants, ensuring, selected, link, inbox, history>>
SendFailsAhead(p) ==
  /\ Disturb
  /\ outbox[p] # <<>>
  /\ Dequeue(p, HangupWithReason(p))
  /\ UNCHANGED <<call, stack, wants, ensuring, selected, link, accepted, inbox, history>>

\* The failure blocks; the event may be in the timeline all the same.
SendFails(p) ==
  /\ Disturb
  /\ outbox[p] # <<>>
  /\ Dequeue(p, HangupWithReason(p))
  /\ accepted' = accepted \ {p}
  /\ selected' = IF Head(outbox[p]).type = "select" THEN Caller ELSE selected
  /\ UNCHANGED <<call, stack, wants, ensuring, link, inbox, history>>

(***************************************************************************)
(* The events of the room.                                                 *)
(***************************************************************************)
Reads(p, type) ==
  /\ inbox[p] # <<>> /\ Head(inbox[p]).type = type
  /\ UNCHANGED <<wants, ensuring, link, accepted, hungUp, events>>

\* What is left for a device whose manager has removed the call would be ignored.
Deliver(p) == inbox' = [inbox EXCEPT ![p] = IF call'[p].known THEN Tail(@) ELSE <<>>]

HandleCallInvite(p) ==
  /\ Reads(p, "invite")
  /\ call' = [call EXCEPT ![p] = [@ EXCEPT !.state = "WaitLocalMedia", !.known = TRUE,
                                           !.timer = TRUE]]
  /\ stack' = [stack EXCEPT ![p] = "handleOffer"]
  /\ Deliver(p)
  /\ UNCHANGED <<selected, outbox, overtaken>>

\* Mutation of MayBeSelected: there may be a selected answer already.
AnyMayBeSelected == TRUE

MayBeSelected == selected = Caller

Select(of, party) ==
  /\ selected' = party
  /\ SendEvents(Caller, <<[type |-> "select", by |-> Caller, of |-> of, party |-> party]>>)

HandleCallAnswer(p) ==
  /\ Reads(p, "answer")
  /\ IF p = Caller
       THEN IF MayBeSelected
              THEN /\ Select("answer", Head(inbox[p]).by)
                   /\ call' = [call EXCEPT ![p].timer = FALSE]
                   /\ overtaken' = (overtaken \/ call[p].state = "CreateOffer")
              ELSE UNCHANGED <<call, selected, outbox, overtaken>>
       ELSE /\ call' = IF call[p].state = "Ringing"
                         THEN [call EXCEPT ![p] = OnCallAnsweredElsewhere(@)] ELSE call
            /\ UNCHANGED <<selected, outbox, overtaken>>
  /\ Deliver(p)
  /\ UNCHANGED stack

HandleCallSelectAnswer(p) ==
  /\ Reads(p, "select")
  /\ call' = IF Head(inbox[p]).party # p THEN [call EXCEPT ![p] = OnCallAnsweredElsewhere(@)]
             ELSE call
  /\ Deliver(p)
  /\ UNCHANGED <<stack, selected, outbox, overtaken>>

\* Not even an event of this device is ignored.
HandleCallHangup(p) ==
  /\ Reads(p, "hangup")
  /\ call' = [call EXCEPT ![p] = [IF @.state # "Ended" THEN TerminateWithReason(@)
                                  ELSE @ EXCEPT !.known = FALSE]]
  /\ Deliver(p)
  /\ UNCHANGED <<stack, selected, outbox, overtaken>>

HandleCallReject(p) ==
  /\ Reads(p, "reject")
  /\ IF p = Caller
       THEN IF selected = Caller
              THEN /\ call' = [call EXCEPT ![p].timer = FALSE]
                   /\ IF call[p].state # "Ended" THEN Select("reject", Head(inbox[p]).by)
                      ELSE UNCHANGED <<selected, outbox>>
              ELSE UNCHANGED <<call, selected, outbox>>
       ELSE /\ call' = [call EXCEPT ![p] = OnCallAnsweredElsewhere(@)]
            /\ UNCHANGED <<selected, outbox>>
  /\ Deliver(p)
  /\ UNCHANGED <<stack, overtaken>>

Receive(p) ==
  \/ HandleCallInvite(p) \/ HandleCallAnswer(p)
  \/ HandleCallSelectAnswer(p) \/ HandleCallHangup(p) \/ HandleCallReject(p)

Request(p) ==
  \E e \in {outbox[p][i] : i \in DOMAIN outbox[p]} :
    \/ p = Caller /\ (InviteSent(e) \/ AnswerSelected(e))
    \/ EndSent(p, e)

Stack(p) ==
  \/ p = Caller /\ OfferCreated
  \/ OfferHandled(p) \/ StackIsSilent(p)
  \/ CallStackCallDidConnect(p) \/ ConnectionEnds(p)

System ==
  \/ \E p \in Callees : TryAnswer(p) \/ EncryptionEnsured(p)
  \/ \E p \in Parties :
       \/ ExpireCallInvite(p) \/ Stack(p)
       \/ HomeserverAccepts(p) \/ Request(p) \/ Receive(p)

Trouble ==
  \/ \E p \in Callees : EncryptionFails(p)
  \/ \E p \in Parties : StackFails(p) \/ ConnectionLost(p) \/ SendFails(p)

Users ==
  \/ CallWithVideo
  \/ \E p \in Callees : Answer(p)
  \/ \E p \in Parties : Hangup(p)

Next == Users \/ System \/ Trouble

Spec == Init /\ [][Next]_vars

(***************************************************************************)
(* Properties.                                                             *)
(***************************************************************************)
Live(p) == call[p].state \notin {"Fledgling", "Ended"}
Conversation == {"Connecting", "Connected"}

\* select_answer, "there is already a selected answer, ignore this one": however many
\* devices answer, and however answers, rejects, hang-ups and errors cross, one of
\* them at most is connected, and so is the caller with no other.
OneTalks ==
  \A p \in Callees : call[p].state = "Connected" =>
    /\ link = p
    /\ \A q \in Callees \ {p} : call[q].state # "Connected"

\* inviteExpirationTimer: a call in conversation is not missed, unless the answer came
\* before that of the request of the invite, whose block then starts the timer.
NoLateExpiry ==
  \A p \in Parties :
    call[p].timer /\ call[p].state \in Conversation => call[p].over \/ (p = Caller /\ overtaken)

\* The phones and the homeserver have nothing left to do, no step of System can be taken:
\* requests have ended, everything has come with a /sync, timers have fired, stacks have
\* connected or found out that they cannot.  System has no cycle, so that this is where
\* its steps lead.
AtRest ==
  /\ ensuring = {}
  /\ \A p \in wants : ~CanAnswer(p) /\ call[p].state # "Ended"
  /\ \A p \in Parties :
       /\ outbox[p] = <<>> /\ inbox[p] = <<>> /\ stack[p] = "none" /\ ~call[p].timer
       /\ ~(call[p].state = "Connecting" /\ Linked(p))
       /\ call[p].state \in Conversation /\ ~call[p].over => ~PeerIsGone(p)

\* No call rings or connects for ever: it is connected, in both directions, or over,
\* whatever is lost on the way and whatever the other devices do; and over on all of
\* them if one has hung up.
CallsResolve ==
  AtRest => \A p \in Parties :
    Live(p) => call[p].over \/ (~hungUp /\ call[p].state = "Connected" /\ Linked(p))

=============================================================================
