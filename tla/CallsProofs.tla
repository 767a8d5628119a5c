----------------------------- MODULE CallsProofs -----------------------------
(***************************************************************************)
(* Theorems about Calls, for any number of devices and of disturbances.    *)
(***************************************************************************)
EXTENDS Calls, SequenceTheorems, TLAPS

(***************************************************************************)
(* The inductive invariant.                                                *)
(***************************************************************************)
\* Who sends what, and what comes back: a device hears of its own hang-ups only.
Sends(p) ==
  {e \in Event : /\ e.by = p
                 /\ e.type \in IF p = Caller THEN {"invite", "select", "hangup"}
                               ELSE {"answer", "reject", "hangup"}}
Hears(p) == {e \in Event : e \in Sends(e.by) /\ (e.by = p => e.type = "hangup")}

Origins ==
  /\ \A p \in Parties : outbox[p] \in Seq(Sends(p)) /\ inbox[p] \in Seq(Hears(p))
  /\ call[Caller].state # "Ringing" /\ stack[Caller] # "handleOffer"

OfType(s, type) == {i \in DOMAIN s : s[i].type = type}
Invites == OfType(outbox[Caller], "invite")
Selects == OfType(outbox[Caller], "select")

\* Of a queue: nothing but hang-ups before an invite; one select_answer at most; one of an
\* answer.
Ahead(s) ==
  \A i \in OfType(s, "invite") : \A j \in DOMAIN s : j < i => s[j].type = "hangup"
OneOf(s) == \A i, j \in OfType(s, "select") : i = j
AnswerIn(s) == \E i \in OfType(s, "select") : s[i].of = "answer"

\* One answer or reject is selected at a time, and none once the stack has an answer.
OneSelected ==
  /\ OneOf(outbox[Caller])
  /\ selected = Caller => Selects = {} /\ link = Caller
  /\ link # Caller => Selects = {}

ConnectedByLink == \A p \in Callees : call[p].state = "Connected" => link = p

\* Before the invite is handed over the other devices know nothing of the call.
Uninvited == call[Caller].state = "Fledgling" \/ stack[Caller] = "offer"
HangupsOnly(s) == \A i \in DOMAIN s : s[i].type = "hangup"
QuietBefore ==
  Uninvited =>
    /\ \A p \in Callees : /\ call[p] = Fledgling /\ stack[p] = "none"
                          /\ outbox[p] = <<>> /\ inbox[p] = <<>>
    /\ wants = {} /\ ensuring = {}
    /\ HangupsOnly(outbox[Caller]) /\ HangupsOnly(inbox[Caller])

InviteFirst ==
  /\ Ahead(outbox[Caller])
  /\ Invites # {} => call[Caller].state = "CreateOffer" \/ call[Caller].over

\* An answer has been selected: whatever starts the timer after that is accounted for.
Answered == AnswerIn(outbox[Caller]) \/ call[Caller].state \in Conversation
TimerAccounted ==
  Answered /\ (call[Caller].timer \/ Invites # {}) => call[Caller].over \/ overtaken
CalleeTimers ==
  \A p \in Callees : call[p].timer /\ call[p].state \in Conversation => call[p].over

Inv ==
  /\ TypeOK /\ Origins /\ OneSelected /\ ConnectedByLink
  /\ QuietBefore /\ InviteFirst /\ TimerAccounted /\ CalleeTimers

(***************************************************************************)
(* Types, in the groups that actions leave alone.                          *)
(***************************************************************************)
CallsGood == call \in [Parties -> Call] /\ call[Caller].state # "Ringing"
StackGood ==
  stack \in [Parties -> {"none", "offer", "handleOffer"}] /\ stack[Caller] # "handleOffer"
AnswersGood ==
  wants \subseteq Callees /\ ensuring \subseteq Callees /\ selected \in Parties /\ link \in Parties
OutboxGood ==
  /\ outbox \in [Parties -> Seq(Event)] /\ \A p \in Parties : outbox[p] \in Seq(Sends(p))
  /\ accepted \subseteq Parties /\ \A p \in accepted : outbox[p] # <<>>
InboxGood ==
  inbox \in [Parties -> Seq(Event)] /\ \A p \in Parties : inbox[p] \in Seq(Hears(p))
HistoryGood == overtaken \in BOOLEAN /\ hungUp \in BOOLEAN /\ events \in 0..MaxEvents

Good == CallsGood /\ StackGood /\ AnswersGood /\ OutboxGood /\ InboxGood /\ HistoryGood

LEMMA GoodIsTypes == Good <=> TypeOK /\ Origins
BY DEF Good, CallsGood, StackGood, AnswersGood, OutboxGood, InboxGood, HistoryGood, TypeOK, Origins

LEMMA PartyFacts == Caller \in Parties /\ Callees \subseteq Parties /\ Parties \ {Caller} = Callees
BY CallsAssumption DEF Parties

\* Sequences of what a device sends, and of what it hears, are sequences of events.
LEMMA SequencesOfEvents ==
  ASSUME NEW p \in Parties
  PROVE  Seq(Sends(p)) \subseteq Seq(Event) /\ Seq(Hears(p)) \subseteq Seq(Event)
<1>1. Sends(p) \subseteq Event /\ Hears(p) \subseteq Event
  BY DEF Sends, Hears
<1>. QED
  BY <1>1, SeqMonotonic

\* Sending at the end of a queue, and taking its first element away.
LEMMA QueueTypes ==
  ASSUME NEW S, NEW s \in Seq(S), NEW es \in Seq(S)
  PROVE  /\ s \o es \in Seq(S)
         /\ s # <<>> => Head(s) \in S /\ Tail(s) \in Seq(S) /\ Tail(s) \o es \in Seq(S)
BY ConcatProperties, HeadTailProperties

LEMMA EventsSent ==
  /\ \A p \in Callees, t \in {"answer", "reject", "hangup"} :
       [type |-> t, by |-> p] \in Sends(p)
  /\ \A t \in {"invite", "hangup"} : [type |-> t, by |-> Caller] \in Sends(Caller)
  /\ \A of \in {"answer", "reject"}, party \in Callees :
       [type |-> "select", by |-> Caller, of |-> of, party |-> party] \in Sends(Caller)
BY PartyFacts DEF Sends, Event

\* hangupWithReason: nothing, a reject or a hang-up.
LEMMA HangupSent ==
  ASSUME Good, NEW p \in Parties
  PROVE  /\ HangupWithReason(p) \in Seq(Sends(p))
         /\ HangupWithReason(p) \in {<<>>, <<[type |-> "reject", by |-> p]>>,
                                            <<[type |-> "hangup", by |-> p]>>}
         /\ HangupWithReason(Caller) \in {<<>>, <<[type |-> "hangup", by |-> Caller]>>}
<1>1. /\ [type |-> "hangup", by |-> p] \in Sends(p)
      /\ call[p].state = "Ringing" => [type |-> "reject", by |-> p] \in Sends(p)
  BY EventsSent, PartyFacts DEF Good, CallsGood
<1>2. HangupWithReason(p) \in {<<>>, <<[type |-> "reject", by |-> p]>>,
                                     <<[type |-> "hangup", by |-> p]>>}
      /\ (call[p].state # "Ringing" =>
            HangupWithReason(p) \in {<<>>, <<[type |-> "hangup", by |-> p]>>})
  BY Zenon DEF HangupWithReason
<1>3. HangupWithReason(Caller) \in {<<>>, <<[type |-> "hangup", by |-> Caller]>>}
  BY DEF HangupWithReason, Good, CallsGood
<1>4. HangupWithReason(p) \in Seq(Sends(p))
  <2>1. \A e \in Sends(p) : <<e>> \in Seq(Sends(p))
    OBVIOUS
  <2>2. <<>> \in Seq(Sends(p))
    OBVIOUS
  <2>. QED
    BY <1>1, <1>2, <2>1, <2>2, Zenon
<1>. QED
  BY <1>2, <1>3, <1>4, Zenon

\* The queue of a device is replaced by one of what it sends.
LEMMA OutboxReplaced ==
  ASSUME Good, NEW p \in Parties, NEW s \in Seq(Sends(p)), outbox' = [outbox EXCEPT ![p] = s],
         accepted' \subseteq Parties, accepted' \subseteq accepted \cup {p},
         p \in accepted' => s # <<>>
  PROVE  OutboxGood'
<1>1. s \in Seq(Event)
  BY SequencesOfEvents
<1>. QED
  BY <1>1 DEF Good, OutboxGood

LEMMA InboxReplaced ==
  ASSUME Good, NEW p \in Parties, NEW s \in Seq(Hears(p)), inbox' = [inbox EXCEPT ![p] = s]
  PROVE  InboxGood'
<1>1. s \in Seq(Event)
  BY SequencesOfEvents
<1>. QED
  BY <1>1 DEF Good, InboxGood

\* SendEvents with what a device may send.
LEMMA SendIsGood ==
  ASSUME Good, NEW p \in Parties, NEW es \in Seq(Sends(p)), SendEvents(p, es),
         accepted' = accepted
  PROVE  OutboxGood'
<1>1. outbox[p] \in Seq(Sends(p)) /\ outbox' = [outbox EXCEPT ![p] = outbox[p] \o es]
      /\ accepted \subseteq Parties /\ \A q \in accepted : outbox[q] # <<>>
  BY DEF Good, OutboxGood, SendEvents
<1>2. outbox[p] \o es \in Seq(Sends(p))
  BY <1>1, QueueTypes
<1>3. outbox[p] # <<>> => outbox[p] \o es # <<>>
  BY <1>1, ConcatEqualIffEmpty
<1>. QED
  BY <1>1, <1>2, <1>3, OutboxReplaced

\* The first event of a device has been sent, or has failed.
LEMMA DequeueIsGood ==
  ASSUME Good, NEW p \in Parties, NEW es \in Seq(Sends(p)), Dequeue(p, es), outbox[p] # <<>>,
         accepted' \subseteq accepted, p \notin accepted'
  PROVE  OutboxGood'
<1>1. outbox[p] \in Seq(Sends(p)) /\ outbox' = [outbox EXCEPT ![p] = Tail(outbox[p]) \o es]
      /\ accepted \subseteq Parties
  BY DEF Good, OutboxGood, Dequeue
<1>2. Tail(outbox[p]) \o es \in Seq(Sends(p))
  BY <1>1, QueueTypes
<1>. QED
  BY <1>1, <1>2, OutboxReplaced

\* Deliver, whether or not the manager still has the call.
LEMMA DeliverIsGood ==
  ASSUME Good, NEW p \in Parties, inbox[p] # <<>>, Deliver(p)
  PROVE  InboxGood'
<1>1. inbox[p] \in Seq(Hears(p))
  BY DEF Good, InboxGood
<1>2. Tail(inbox[p]) \in Seq(Hears(p)) /\ <<>> \in Seq(Hears(p))
  BY <1>1, HeadTailProperties, EmptySeq
<1>3. inbox' = [inbox EXCEPT ![p] = IF call'[p].known THEN Tail(inbox[p]) ELSE <<>>]
  BY DEF Deliver
<1>. QED
  BY <1>2, <1>3, InboxReplaced

(***************************************************************************)
(* What a step makes of the calls.                                         *)
(***************************************************************************)
\* What a call becomes, field by field.
Becomes(p, state, timer, known, over) ==
  /\ call' \in [Parties -> Call]
  /\ \A q \in Parties \ {p} : call'[q] = call[q]
  /\ call'[p].state = state /\ call'[p].timer = timer
  /\ call'[p].known = known /\ call'[p].over = over

LEMMA CallUpdates ==
  ASSUME call \in [Parties -> Call], NEW p \in Parties
  PROVE  /\ UNCHANGED call => Becomes(p, call[p].state, call[p].timer, call[p].known, call[p].over)
         /\ \A s \in State : call' = [call EXCEPT ![p].state = s] =>
              Becomes(p, s, call[p].timer, call[p].known, call[p].over)
         /\ \A s \in State, b \in BOOLEAN : call' = [call EXCEPT ![p].state = s, ![p].timer = b] =>
              Becomes(p, s, b, call[p].known, call[p].over)
         /\ call' = [call EXCEPT ![p].timer = FALSE] =>
              Becomes(p, call[p].state, FALSE, call[p].known, call[p].over)
         /\ \A s \in State : call' = [call EXCEPT ![p].state = s, ![p].known = TRUE] =>
              Becomes(p, s, call[p].timer, TRUE, call[p].over)
         /\ call' = [call EXCEPT ![p] = TerminateWithReason(@)] =>
              Becomes(p, "Ended", FALSE, call[p].known, TRUE)
         /\ call' = [call EXCEPT ![p] = OnCallAnsweredElsewhere(@)] =>
              Becomes(p, "Ended", call[p].timer, FALSE, TRUE)
<1>. USE DEF Becomes, Call
<1>1. UNCHANGED call => Becomes(p, call[p].state, call[p].timer, call[p].known, call[p].over)
  OBVIOUS
<1>2. \A s \in State : call' = [call EXCEPT ![p].state = s] =>
              Becomes(p, s, call[p].timer, call[p].known, call[p].over)
  OBVIOUS
<1>3. ASSUME NEW s \in State, NEW b \in BOOLEAN,
             call' = [call EXCEPT ![p].state = s, ![p].timer = b]
      PROVE  Becomes(p, s, b, call[p].known, call[p].over)
  BY <1>3
<1>4. call' = [call EXCEPT ![p].timer = FALSE] =>
              Becomes(p, call[p].state, FALSE, call[p].known, call[p].over)
  OBVIOUS
<1>5. ASSUME NEW s \in State, call' = [call EXCEPT ![p].state = s, ![p].known = TRUE]
      PROVE  Becomes(p, s, call[p].timer, TRUE, call[p].over)
  BY <1>5
<1>6. ASSUME call' = [call EXCEPT ![p] = TerminateWithReason(@)]
      PROVE  Becomes(p, "Ended", FALSE, call[p].known, TRUE)
  BY <1>6 DEF TerminateWithReason, SetEnded, State, EndReason
<1>7. ASSUME call' = [call EXCEPT ![p] = OnCallAnsweredElsewhere(@)]
      PROVE  Becomes(p, "Ended", call[p].timer, FALSE, TRUE)
  BY <1>7 DEF OnCallAnsweredElsewhere, SetEnded, State, EndReason
<1>. QED
  BY <1>1, <1>2, <1>3, <1>4, <1>5, <1>6, <1>7, Zenon


LEMMA ExpiredCall ==
  ASSUME call \in [Parties -> Call], NEW p \in Parties, ExpireCallInvite(p)
  PROVE  Becomes(p, "Ended", FALSE, FALSE, TRUE)
<1>1. call' = [call EXCEPT ![p] = [SetEnded(@, "Missed") EXCEPT !.timer = FALSE, !.known = FALSE]]
  BY DEF ExpireCallInvite
<1>. QED
  BY <1>1 DEF Becomes, Call, State, SetEnded, EndReason

LEMMA HungUpCall ==
  ASSUME call \in [Parties -> Call], NEW p \in Parties, HandleCallHangup(p)
  PROVE  \/ Becomes(p, "Ended", call[p].timer, FALSE, call[p].over) /\ call[p].state = "Ended"
         \/ Becomes(p, "Ended", FALSE, FALSE, TRUE)
<1>. USE DEF HandleCallHangup, Call, TerminateWithReason, SetEnded, State, EndReason
<1>1. CASE call[p].state = "Ended"
  BY <1>1 DEF Becomes
<1>2. CASE call[p].state # "Ended"
  BY <1>2 DEF Becomes
<1>. QED
  BY <1>1, <1>2

\* No step takes a call back: one that is over stays over, one that has begun does not
\* become new; a callee connects by its link only, and does not talk with its timer on.
Steady(p) ==
  /\ call' \in [Parties -> Call]
  /\ \A q \in Parties \ {p} : call'[q] = call[q]
  /\ call[p].over => call'[p].over
  /\ call'[p].state = "Fledgling" => call[p].state = "Fledgling"
  /\ p = Caller => call'[p].state # "Ringing"
  /\ p # Caller /\ call'[p].timer /\ call'[p].state \in Conversation =>
       call[p].timer /\ call[p].state \in Conversation
  /\ p # Caller /\ call'[p].state = "Connected" => call[p].state = "Connected" \/ Linked(p)

LEMMA UsersAreSteady ==
  ASSUME Good, Users
  PROVE  \E p \in Parties : Steady(p)
<1>. USE DEF Steady, Becomes, Conversation
<1>0. call \in [Parties -> Call] /\ call[Caller].state # "Ringing" /\ Caller \in Parties
      /\ Callees \subseteq Parties /\ Caller \notin Callees
  BY PartyFacts, CallsAssumption DEF Good, CallsGood
<1>1. CASE UNCHANGED call
  BY <1>0, <1>1
<1>2. CASE CallWithVideo
  <2>1. Becomes(Caller, "WaitLocalMedia", call[Caller].timer, TRUE, call[Caller].over)
    BY <1>0, <1>2, CallUpdates DEF CallWithVideo, State
  <2>. QED
    BY <1>0, <2>1
<1>3. ASSUME NEW p \in Callees, AnswerIfRinging(p)
      PROVE  Steady(p)
  <2>1. \/ Becomes(p, "CreateAnswer", call[p].timer, call[p].known, call[p].over)
        \/ Becomes(p, "Connecting", FALSE, call[p].known, call[p].over)
    BY <1>0, <1>3, CallUpdates DEF AnswerIfRinging, AnswerCall, State
  <2>. QED
    BY <1>0, <2>1
<1>. QED
  BY <1>0, <1>1, <1>2, <1>3 DEF Users, Answer, Hangup


\* The call stacks, and the timers.
LEMMA StacksAreSteady ==
  ASSUME Good, NEW p \in Parties, Stack(p) \/ ExpireCallInvite(p)
  PROVE  Steady(p)
<1>. USE DEF Steady, Becomes, Conversation
<1>0. call \in [Parties -> Call] /\ call[Caller].state # "Ringing" /\ Caller \in Parties
      /\ stack[Caller] # "handleOffer"
  BY PartyFacts DEF Good, CallsGood, StackGood
<1>1. CASE UNCHANGED call
  BY <1>0, <1>1
<1>2. CASE p = Caller /\ OfferCreated
  <2>1. Becomes(Caller, "CreateOffer", call[Caller].timer, call[Caller].known, call[Caller].over)
    BY <1>0, <1>2, CallUpdates DEF OfferCreated, State
  <2>. QED
    BY <1>0, <1>2, <2>1
<1>3. CASE OfferHandled(p) /\ call' # call
  <2>1. Becomes(p, "Ringing", call[p].timer, call[p].known, call[p].over) /\ p # Caller
    BY <1>0, <1>3, CallUpdates DEF OfferHandled, State
  <2>. QED
    BY <1>0, <2>1
<1>4. CASE CallStackCallDidConnect(p)
  <2>1. Becomes(p, "Connected", call[p].timer, call[p].known, call[p].over)
    BY <1>0, <1>4, CallUpdates DEF CallStackCallDidConnect, State
  <2>. QED
    BY <1>0, <1>4, <2>1 DEF CallStackCallDidConnect
<1>5. CASE ExpireCallInvite(p)
  <2>1. Becomes(p, "Ended", FALSE, FALSE, TRUE)
    BY <1>0, <1>5, ExpiredCall
  <2>. QED
    BY <1>0, <2>1
<1>. QED
  BY <1>1, <1>2, <1>3, <1>4, <1>5 DEF Stack, StackIsSilent, ConnectionEnds, OnError

\* The answers of the requests.
LEMMA RequestsAreSteady ==
  ASSUME Good, NEW p \in Parties, Request(p)
  PROVE  Steady(p)
<1>. USE DEF Steady, Becomes, Conversation
<1>0. call \in [Parties -> Call] /\ call[Caller].state # "Ringing" /\ Caller \in Parties
  BY PartyFacts DEF Good, CallsGood
<1>1. ASSUME p = Caller, NEW e, InviteSent(e)
      PROVE  Steady(p)
  <2>1. Becomes(Caller, "InviteSent", TRUE, call[Caller].known, call[Caller].over)
    BY <1>0, <1>1, CallUpdates DEF InviteSent, State
  <2>. QED
    BY <1>0, <1>1, <2>1
<1>2. ASSUME p = Caller, NEW e, AnswerSelected(e)
      PROVE  Steady(p)
  <2>1. Becomes(Caller, "Connecting", call[Caller].timer, call[Caller].known, call[Caller].over)
    BY <1>0, <1>2, CallUpdates DEF AnswerSelected, State
  <2>. QED
    BY <1>0, <1>2, <2>1
<1>3. ASSUME NEW e, EndSent(p, e)
      PROVE  Steady(p)
  <2>1. Becomes(p, "Ended", FALSE, call[p].known, TRUE)
    BY <1>0, <1>3, CallUpdates DEF EndSent
  <2>. QED
    BY <1>0, <2>1
<1>. QED
  BY <1>1, <1>2, <1>3 DEF Request

\* The events that a device reads.
LEMMA ReceivingIsSteady ==
  ASSUME Good, NEW p \in Parties, Receive(p)
  PROVE  Steady(p)
<1>. USE DEF Steady, Becomes, Conversation
<1>0. call \in [Parties -> Call] /\ call[Caller].state # "Ringing" /\ Caller \in Parties
  BY PartyFacts DEF Good, CallsGood
<1>1. CASE UNCHANGED call
  BY <1>0, <1>1
<1>2. CASE HandleCallInvite(p)
  <2>1. Becomes(p, "WaitLocalMedia", TRUE, TRUE, call[p].over)
    BY <1>0, <1>2 DEF HandleCallInvite, Call, State
  <2>. QED
    BY <1>0, <2>1
<1>3. CASE HandleCallHangup(p)
  BY <1>0, <1>3, HungUpCall
<1>4. CASE call' = [call EXCEPT ![p].timer = FALSE]
  <2>1. Becomes(p, call[p].state, FALSE, call[p].known, call[p].over)
    BY <1>0, <1>4, CallUpdates
  <2>. QED
    BY <1>0, <2>1
<1>5. CASE call' = [call EXCEPT ![p] = OnCallAnsweredElsewhere(@)]
  <2>1. Becomes(p, "Ended", call[p].timer, FALSE, TRUE)
    BY <1>0, <1>5, CallUpdates
  <2>. QED
    BY <1>0, <2>1
<1>6. HandleCallAnswer(p) \/ HandleCallReject(p) \/ HandleCallSelectAnswer(p) =>
        \/ UNCHANGED call
        \/ call' = [call EXCEPT ![p].timer = FALSE]
        \/ call' = [call EXCEPT ![p] = OnCallAnsweredElsewhere(@)]
  BY Zenon DEF HandleCallAnswer, HandleCallReject, HandleCallSelectAnswer
<1>. QED
  BY <1>1, <1>2, <1>3, <1>4, <1>5, <1>6 DEF Receive

LEMMA StepsAreSteady ==
  ASSUME Good, [Next]_vars
  PROVE  \E p \in Parties : Steady(p)
<1>0. call \in [Parties -> Call] /\ call[Caller].state # "Ringing" /\ Caller \in Parties
      /\ Callees \subseteq Parties /\ Caller \notin Callees
  BY PartyFacts, CallsAssumption DEF Good, CallsGood
<1>1. CASE UNCHANGED call
  BY <1>0, <1>1 DEF Steady
<1>2. ASSUME NEW p \in Callees, TryAnswer(p) \/ EncryptionEnsured(p)
      PROVE  Steady(p)
  <2>1. \/ Becomes(p, "CreateAnswer", call[p].timer, call[p].known, call[p].over)
        \/ Becomes(p, "Connecting", FALSE, call[p].known, call[p].over)
        \/ Becomes(p, call[p].state, call[p].timer, call[p].known, call[p].over)
    BY <1>0, <1>2, CallUpdates DEF TryAnswer, EncryptionEnsured, AnswerIfRinging, AnswerCall, State
  <2>. QED
    BY <1>0, <2>1 DEF Becomes, Steady, Conversation
<1>3. CASE Trouble
  BY <1>1, <1>3 DEF Trouble, EncryptionFails, StackFails, ConnectionLost, OnError, SendFails
<1>4. CASE System
  <2>1. CASE \E p \in Parties : HomeserverAccepts(p)
    BY <1>1, <2>1 DEF HomeserverAccepts
  <2>. QED
    BY <1>0, <1>2, <1>4, <2>1, StacksAreSteady, RequestsAreSteady, ReceivingIsSteady DEF System
<1>5. CASE UNCHANGED vars
  BY <1>1, <1>5 DEF vars
<1>. QED
  BY <1>3, <1>4, <1>5, UsersAreSteady DEF Next

LEMMA CallsStayGood ==
  ASSUME Good, [Next]_vars
  PROVE  CallsGood'
BY StepsAreSteady, PartyFacts DEF Steady, Good, CallsGood

(***************************************************************************)
(* What a step makes of the rest.                                          *)
(***************************************************************************)
OthersGood == StackGood /\ AnswersGood /\ OutboxGood /\ InboxGood /\ HistoryGood

\* The block of answer: createAnswer sends an answer, or a hang-up when it fails.
LEMMA CreateAnswerIsGood ==
  ASSUME Good, NEW p \in Callees, NEW ok \in BOOLEAN, CreateAnswer(p, ok), accepted' = accepted
  PROVE  OutboxGood' /\ events' \in 0..MaxEvents
<1>0. p \in Parties /\ events \in 0..MaxEvents /\ MaxEvents \in Nat
  BY PartyFacts, CallsAssumption DEF Good, HistoryGood
<1>1. CASE call[p].over
  <2>1. UNCHANGED <<outbox, events>>
    BY <1>1 DEF CreateAnswer
  <2>. QED
    BY <1>0, <2>1 DEF Good, OutboxGood
<1>2. CASE ~call[p].over
  <2>1. PICK t \in {"answer", "hangup"} : SendEvents(p, <<[type |-> t, by |-> p]>>)
    BY <1>2 DEF CreateAnswer
  <2>2. events' = events \/ Disturb
    BY <1>2 DEF CreateAnswer
  <2>3. [type |-> t, by |-> p] \in Sends(p)
    BY EventsSent
  <2>4. \A e \in Sends(p) : <<e>> \in Seq(Sends(p))
    OBVIOUS
  <2>5. OutboxGood'
    BY <1>0, <2>1, <2>3, <2>4, SendIsGood
  <2>. QED
    BY <1>0, <2>2, <2>5 DEF Disturb
<1>. QED
  BY <1>1, <1>2

LEMMA AnswerIsGood ==
  ASSUME Good, NEW p \in Callees, AnswerIfRinging(p)
  PROVE  /\ StackGood' /\ OutboxGood' /\ InboxGood' /\ HistoryGood'
         /\ ensuring' \subseteq Callees /\ UNCHANGED <<selected, link>>
<1>0. p \in Parties /\ accepted' = accepted
  BY PartyFacts DEF AnswerIfRinging
<1>1. /\ StackGood' /\ InboxGood' /\ UNCHANGED <<selected, link, overtaken, hungUp>>
      /\ ensuring' \subseteq Callees
  BY DEF AnswerIfRinging, Good, StackGood, InboxGood, AnswersGood, history
<1>2. OutboxGood' /\ events' \in 0..MaxEvents
  <2>1. CASE Encrypted
    BY <1>0, <2>1 DEF AnswerIfRinging, Good, OutboxGood, HistoryGood
  <2>2. CASE ~Encrypted
    BY <1>0, <2>2, CreateAnswerIsGood DEF AnswerIfRinging, AnswerCall
  <2>. QED
    BY <2>1, <2>2
<1>. QED
  BY <1>1, <1>2 DEF Good, HistoryGood

LEMMA AnsweringIsGood ==
  ASSUME Good, NEW p \in Callees, Answer(p) \/ TryAnswer(p) \/ EncryptionEnsured(p)
  PROVE  OthersGood'
<1>. USE DEF OthersGood
<1>1. CASE AnswerIfRinging(p) /\ wants' \subseteq Callees
  BY <1>1, AnswerIsGood DEF Good, AnswersGood
<1>2. CASE wants' \subseteq Callees
           /\ UNCHANGED <<stack, ensuring, selected, link, outbox, accepted, inbox, history, events>>
  BY <1>2 DEF Good, StackGood, AnswersGood, OutboxGood, InboxGood, HistoryGood, history
<1>3. CASE EncryptionEnsured(p)
  <2>1. /\ StackGood' /\ InboxGood' /\ AnswersGood' /\ accepted' = accepted
        /\ UNCHANGED <<overtaken, hungUp>>
    BY <1>3 DEF EncryptionEnsured, Good, StackGood, InboxGood, AnswersGood, history
  <2>2. PICK ok \in BOOLEAN : CreateAnswer(p, ok)
    BY <1>3 DEF EncryptionEnsured, AnswerCall
  <2>3. OutboxGood' /\ events' \in 0..MaxEvents
    BY <2>1, <2>2, CreateAnswerIsGood
  <2>. QED
    BY <2>1, <2>3 DEF Good, HistoryGood
<1>4. wants \subseteq Callees
  BY DEF Good, AnswersGood
<1>. QED
  BY <1>1, <1>2, <1>3, <1>4 DEF Answer, TryAnswer, queue

\* didEncounterError, and hangupWithReason of a user.
LEMMA HangingUpIsGood ==
  ASSUME Good, NEW p \in Parties,
         \/ Hangup(p) \/ StackFails(p) \/ ConnectionLost(p) \/ ConnectionEnds(p)
         \/ p \in Callees /\ EncryptionFails(p)
  PROVE  OthersGood'
<1>0. events \in 0..MaxEvents /\ MaxEvents \in Nat
  BY CallsAssumption DEF Good, HistoryGood
<1>1. /\ SendEvents(p, HangupWithReason(p)) /\ accepted' = accepted
      /\ events' \in {events, events + 1} /\ events' <= MaxEvents
      /\ UNCHANGED <<wants, selected, link, inbox, overtaken, hungUp>>
      /\ ensuring' \subseteq ensuring
      /\ stack' \in {stack, [stack EXCEPT ![p] = "none"]}
  BY <1>0 DEF Hangup, StackFails, ConnectionLost, ConnectionEnds, EncryptionFails, OnError,
              DidEncounterError, Disturb, history
<1>2. OutboxGood'
  BY <1>1, HangupSent, SendIsGood
<1>3. StackGood'
  BY <1>1, PartyFacts DEF Good, StackGood
<1>. QED
  BY <1>0, <1>1, <1>2, <1>3 DEF OthersGood, Good, AnswersGood, InboxGood, HistoryGood

LEMMA SendFailsIsGood ==
  ASSUME Good, NEW p \in Parties, SendFails(p)
  PROVE  OthersGood'
<1>0. events \in 0..MaxEvents /\ MaxEvents \in Nat
  BY CallsAssumption DEF Good, HistoryGood
<1>1. OutboxGood'
  BY HangupSent, DequeueIsGood DEF SendFails
<1>2. AnswersGood' /\ StackGood'
  BY PartyFacts DEF SendFails, Good, AnswersGood, StackGood
<1>. QED
  BY <1>0, <1>1, <1>2 DEF OthersGood, SendFails, Disturb, Good, InboxGood, HistoryGood, history

\* The call stack, the timer, and the call itself.
LEMMA StacksAreGood ==
  ASSUME Good, NEW p \in Parties, Stack(p) \/ ExpireCallInvite(p) \/ CallWithVideo
  PROVE  OthersGood'
<1>. USE DEF OthersGood, queue, history
<1>0. Caller \in Parties /\ stack[Caller] # "handleOffer"
  BY PartyFacts DEF Good, StackGood
<1>1. CASE p = Caller /\ OfferCreated
  <2>1. [type |-> "invite", by |-> Caller] \in Sends(Caller)
    BY EventsSent
  <2>2. \A e \in Sends(Caller) : <<e>> \in Seq(Sends(Caller))
    OBVIOUS
  <2>3. OutboxGood'
    BY <1>0, <1>1, <2>1, <2>2, SendIsGood DEF OfferCreated
  <2>. QED
    BY <1>0, <1>1, <2>3 DEF OfferCreated, Good, StackGood, AnswersGood, InboxGood, HistoryGood
<1>2. CASE ConnectionEnds(p)
  BY <1>2, HangingUpIsGood
<1>3. CASE OfferHandled(p) \/ StackIsSilent(p) \/ CallStackCallDidConnect(p) \/ CallWithVideo
  <2>1. \E q \in Parties, t \in {"none", "offer"} : stack' \in {stack, [stack EXCEPT ![q] = t]}
    BY <1>0, <1>3 DEF OfferHandled, StackIsSilent, CallStackCallDidConnect, CallWithVideo
  <2>2. StackGood'
    BY <1>0, <2>1 DEF Good, StackGood
  <2>3. UNCHANGED <<wants, ensuring, selected, link, queue, inbox, history, events>>
    BY <1>3 DEF OfferHandled, StackIsSilent, CallStackCallDidConnect, CallWithVideo
  <2>. QED
    BY <2>2, <2>3 DEF Good, AnswersGood, OutboxGood, InboxGood, HistoryGood
<1>4. CASE ExpireCallInvite(p)
  <2>1. InboxGood'
    BY <1>4, InboxReplaced, EmptySeq DEF ExpireCallInvite
  <2>. QED
    BY <1>4, <2>1 DEF ExpireCallInvite, Good, StackGood, AnswersGood, OutboxGood, HistoryGood
<1>. QED
  BY <1>1, <1>2, <1>3, <1>4 DEF Stack

\* An event that is heeded is one that the device hears.
LEMMA HeededIsHeard ==
  ASSUME Good, NEW p \in Parties, NEW e \in Sends(p), NEW q \in Parties, Heeds(q, e)
  PROVE  e \in Hears(q)
<1>1. e \in Event /\ e.by = p
  BY DEF Sends
<1>2. e.by = q => e.type = "hangup"
  BY DEF Heeds
<1>. QED
  BY <1>1, <1>2 DEF Hears

LEMMA HomeserverIsGood ==
  ASSUME Good, NEW p \in Parties, HomeserverAccepts(p)
  PROVE  OthersGood'
<1>. USE DEF OthersGood
<1>1. outbox[p] # <<>> /\ outbox[p] \in Seq(Sends(p)) /\ accepted \subseteq Parties
  BY DEF HomeserverAccepts, Good, OutboxGood
<1>2. PICK e \in Sends(p) : e = Head(outbox[p])
  BY <1>1, QueueTypes, EmptySeq
<1>3. /\ inbox' = [q \in Parties |-> IF Heeds(q, e) THEN Append(inbox[q], e) ELSE inbox[q]]
      /\ hungUp' = (hungUp \/ e.type = "hangup")
  BY <1>2 DEF HomeserverAccepts
<1>4. InboxGood'
  <2>1. ASSUME NEW q \in Parties
        PROVE  inbox'[q] \in Seq(Hears(q)) /\ inbox'[q] \in Seq(Event)
    <3>1. inbox[q] \in Seq(Hears(q))
      BY DEF Good, InboxGood
    <3>2. Heeds(q, e) => Append(inbox[q], e) \in Seq(Hears(q))
      BY <3>1, HeededIsHeard, AppendProperties
    <3>. QED
      BY <1>3, <3>1, <3>2, SequencesOfEvents
  <2>. QED
    BY <1>3, <2>1 DEF InboxGood
<1>5. OutboxGood'
  <2>1. CASE e.type = "answer"
    <3>1. Dequeue(p, <<>>) /\ accepted' = accepted /\ p \notin accepted
      BY <1>2, <2>1 DEF HomeserverAccepts
    <3>. QED
      BY <1>1, <3>1, DequeueIsGood, EmptySeq
  <2>2. CASE e.type # "answer"
    <3>1. accepted' = accepted \cup {p} /\ outbox' = outbox
      BY <1>2, <2>2 DEF HomeserverAccepts
    <3>. QED
      BY <1>1, <3>1 DEF Good, OutboxGood
  <2>. QED
    BY <2>1, <2>2
<1>6. hungUp' \in BOOLEAN
  BY <1>3 DEF Good, HistoryGood
<1>. QED
  BY <1>4, <1>5, <1>6 DEF HomeserverAccepts, Good, StackGood, AnswersGood, HistoryGood

\* What Caller selects, and what it takes for an answer, is of a callee.
LEMMA FirstHeard ==
  ASSUME Good, NEW p \in Parties, inbox[p] # <<>>
  PROVE  /\ Head(inbox[p]) \in Event
         /\ Head(inbox[p]) \in Sends(Head(inbox[p]).by)
         /\ Head(inbox[p]).by = p => Head(inbox[p]).type = "hangup"
<1>1. inbox[p] \in Seq(Hears(p))
  BY DEF Good, InboxGood
<1>2. Head(inbox[p]) \in Hears(p)
  BY <1>1, HeadTailProperties
<1>. QED
  BY <1>2 DEF Hears

LEMMA FirstSent ==
  ASSUME Good, NEW p \in Parties, outbox[p] # <<>>
  PROVE  Head(outbox[p]) \in Sends(p) /\ Head(outbox[p]) \in Event
<1>1. outbox[p] \in Seq(Sends(p))
  BY DEF Good, OutboxGood
<1>. QED
  BY <1>1, QueueTypes, EmptySeq DEF Sends

LEMMA RequestsAreGood ==
  ASSUME Good, NEW p \in Parties, Request(p)
  PROVE  OthersGood'
<1>. USE DEF OthersGood
<1>0. events \in 0..MaxEvents /\ MaxEvents \in Nat /\ Caller \in Parties /\ Callees \subseteq Parties
  BY CallsAssumption, PartyFacts DEF Good, HistoryGood
<1>1. ASSUME NEW e, InviteSent(e) \/ EndSent(p, e), p = Caller \/ EndSent(p, e)
      PROVE  OthersGood'
  <2>1. Sent(p, e) /\ Dequeue(p, <<>>)
    BY <1>1 DEF InviteSent, EndSent
  <2>2. outbox[p] # <<>>
    BY <2>1 DEF Sent, Good, OutboxGood
  <2>3. OutboxGood'
    BY <2>1, <2>2, DequeueIsGood, EmptySeq DEF Sent
  <2>. QED
    BY <1>1, <2>3 DEF InviteSent, EndSent, Good, StackGood, AnswersGood, InboxGood, HistoryGood, history
<1>2. ASSUME NEW e, AnswerSelected(e)
      PROVE  OthersGood'
  <2>1. PICK es \in {<<>>, <<[type |-> "hangup", by |-> Caller]>>} : Dequeue(Caller, es)
    BY <1>2 DEF AnswerSelected
  <2>2. Sent(Caller, e) /\ e.type = "select" /\ selected' \in {selected, Caller} /\ link' \in {link, e.party}
        /\ (events' = events \/ Disturb)
    BY <1>2 DEF AnswerSelected
  <2>3. outbox[Caller] # <<>>
    BY <2>2 DEF Sent, Good, OutboxGood
  <2>4. es \in Seq(Sends(Caller))
    <3>1. [type |-> "hangup", by |-> Caller] \in Sends(Caller)
      BY EventsSent
    <3>2. \A x \in Sends(Caller) : <<x>> \in Seq(Sends(Caller))
      OBVIOUS
    <3>. QED
      BY <2>1, <3>1, <3>2, EmptySeq, Zenon
  <2>5. OutboxGood'
    BY <1>0, <2>1, <2>2, <2>3, <2>4, DequeueIsGood DEF Sent
  <2>6. e.party \in Callees
    BY <1>0, <2>2, <2>3, FirstSent DEF Sent, Event
  <2>7. AnswersGood'
    BY <1>0, <1>2, <2>2, <2>6 DEF AnswerSelected, Good, AnswersGood
  <2>8. HistoryGood'
    BY <1>0, <1>2, <2>2 DEF AnswerSelected, Disturb, Good, HistoryGood, history
  <2>. QED
    BY <1>2, <2>5, <2>7, <2>8 DEF AnswerSelected, Good, StackGood, InboxGood
<1>. QED
  BY <1>1, <1>2 DEF Request

LEMMA ReceivingIsGood ==
  ASSUME Good, NEW p \in Parties, Receive(p)
  PROVE  OthersGood'
<1>. USE DEF OthersGood
<1>1. /\ inbox[p] # <<>> /\ Deliver(p)
      /\ UNCHANGED <<wants, ensuring, link, accepted, hungUp, events>>
  BY Zenon DEF Receive, HandleCallInvite, HandleCallAnswer, HandleCallSelectAnswer,
               HandleCallHangup, HandleCallReject, Reads
<1>2. InboxGood'
  BY <1>1, DeliverIsGood
<1>3. \/ selected' = selected /\ outbox' = outbox
      \/ /\ p = Caller /\ Head(inbox[p]).type \in {"answer", "reject"}
         /\ \E of \in {"answer", "reject"} : Select(of, Head(inbox[p]).by)
  BY Zenon DEF Receive, HandleCallInvite, HandleCallAnswer, HandleCallSelectAnswer,
               HandleCallHangup, HandleCallReject, Reads
<1>4. AnswersGood' /\ OutboxGood'
  <2>1. CASE selected' = selected /\ outbox' = outbox
    BY <1>1, <2>1 DEF Good, AnswersGood, OutboxGood
  <2>2. ASSUME p = Caller, Head(inbox[p]).type \in {"answer", "reject"},
               NEW of \in {"answer", "reject"}, Select(of, Head(inbox[p]).by)
        PROVE  AnswersGood' /\ OutboxGood'
    <3>1. Head(inbox[p]).by \in Callees
      BY <1>1, <2>2, FirstHeard, PartyFacts DEF Event
    <3>2. [type |-> "select", by |-> Caller, of |-> of, party |-> Head(inbox[p]).by] \in Sends(Caller)
      BY <3>1, EventsSent
    <3>3. \A e \in Sends(Caller) : <<e>> \in Seq(Sends(Caller))
      OBVIOUS
    <3>4. OutboxGood'
      BY <1>1, <2>2, <3>2, <3>3, SendIsGood, PartyFacts DEF Select
    <3>. QED
      BY <1>1, <2>2, <3>1, <3>4, PartyFacts DEF Select, Good, AnswersGood
  <2>. QED
    BY <1>3, <2>1, <2>2
<1>5. StackGood'
  <2>1. stack' = stack \/ (p # Caller /\ stack' = [stack EXCEPT ![p] = "handleOffer"])
    <3>1. HandleCallInvite(p) => p # Caller
      BY <1>1, FirstHeard, PartyFacts DEF HandleCallInvite, Reads, Sends
    <3>. QED
      BY <3>1 DEF Receive, HandleCallInvite, HandleCallAnswer, HandleCallSelectAnswer,
                  HandleCallHangup, HandleCallReject
  <2>. QED
    BY <2>1, PartyFacts DEF Good, StackGood
<1>6. overtaken' \in BOOLEAN
  BY Zenon DEF Receive, HandleCallInvite, HandleCallAnswer, HandleCallSelectAnswer,
               HandleCallHangup, HandleCallReject, Good, HistoryGood
<1>. QED
  BY <1>1, <1>2, <1>4, <1>5, <1>6 DEF Good, HistoryGood

\* Every step keeps the types.
LEMMA TypesKept ==
  ASSUME Good, [Next]_vars
  PROVE  Good'
<1>1. OthersGood'
  <2>1. CASE Users
    <3>1. Caller \in Parties
      BY PartyFacts
    <3>. QED
      BY <2>1, <3>1, StacksAreGood, AnsweringIsGood, HangingUpIsGood DEF Users
  <2>2. CASE System
    BY <2>2, AnsweringIsGood, StacksAreGood, HomeserverIsGood, RequestsAreGood, ReceivingIsGood DEF System
  <2>3. CASE Trouble
    BY <2>3, HangingUpIsGood, SendFailsIsGood, PartyFacts DEF Trouble
  <2>4. CASE UNCHANGED vars
    BY <2>4 DEF vars, queue, history, OthersGood, Good, StackGood, AnswersGood, OutboxGood,
                InboxGood, HistoryGood
  <2>. QED
    BY <2>1, <2>2, <2>3, <2>4 DEF Next
<1>. QED
  BY <1>1, CallsStayGood DEF Good, OthersGood

LEMMA InitIsGood == Init => Good
<1>1. Fledgling \in Call /\ Fledgling.state = "Fledgling"
  BY DEF Fledgling, Call, State, EndReason
<1>2. \A p \in Parties : <<>> \in Seq(Sends(p)) /\ <<>> \in Seq(Hears(p)) /\ <<>> \in Seq(Event)
  OBVIOUS
<1>3. Init => CallsGood
  BY <1>1, PartyFacts DEF Init, CallsGood
<1>4. Init => StackGood /\ AnswersGood
  BY PartyFacts DEF Init, StackGood, AnswersGood
<1>5. Init => HistoryGood
  <2>1. 0 \in 0..MaxEvents
    BY CallsAssumption
  <2>. QED
    BY <2>1, Zenon DEF Init, HistoryGood
<1>6. Init => OutboxGood /\ InboxGood
  BY <1>2, PartyFacts DEF Init, OutboxGood, InboxGood
<1>. QED
  BY <1>3, <1>4, <1>5, <1>6 DEF Good

\* Every variable keeps its type; what the code sends and hears is what it should.
THEOREM CallsTypeCorrect == Spec => []TypeOK
<1>1. Spec => []Good
  BY InitIsGood, TypesKept, PTL DEF Spec
<1>. QED
  BY <1>1, GoodIsTypes, PTL

(***************************************************************************)
(* What a step makes of the caller and of its queue.                       *)
(***************************************************************************)
HangupsAfter(t, n) == \A i \in DOMAIN t : i > n => t[i].type = "hangup"
Keeps(s, t) ==
  Len(t) >= Len(s) /\ (\A i \in 1..Len(s) : t[i] = s[i]) /\ HangupsAfter(t, Len(s))
Drops(s, t) ==
  /\ s # <<>> /\ Len(t) >= Len(s) - 1 /\ (\A i \in 1..(Len(s) - 1) : t[i] = s[i + 1])
  /\ HangupsAfter(t, Len(s) - 1)

HangupOrNothing == {<<>>, <<[type |-> "hangup", by |-> Caller]>>}

LEMMA QueueKept ==
  ASSUME NEW s \in Seq(Sends(Caller)), NEW es \in HangupOrNothing
  PROVE  Keeps(s, s \o es)
<1>1. es \in Seq(Sends(Caller)) /\ \A i \in 1..Len(es) : es[i].type = "hangup"
  <2>1. [type |-> "hangup", by |-> Caller] \in Sends(Caller)
    BY EventsSent
  <2>2. \A e \in Sends(Caller) :
          <<e>> \in Seq(Sends(Caller)) /\ Len(<<e>>) = 1 /\ <<e>>[1] = e
    OBVIOUS
  <2>3. CASE es = <<>>
    BY <2>3, EmptySeq
  <2>4. CASE es = <<[type |-> "hangup", by |-> Caller]>>
    BY <2>1, <2>2, <2>4
  <2>. QED
    BY <2>3, <2>4 DEF HangupOrNothing
<1>2. /\ Len(s \o es) = Len(s) + Len(es) /\ s \o es \in Seq(Sends(Caller))
      /\ \A i \in 1..(Len(s) + Len(es)) : (s \o es)[i] = IF i <= Len(s) THEN s[i] ELSE es[i - Len(s)]
  BY <1>1, ConcatProperties
<1>3. Len(s) \in Nat /\ Len(es) \in Nat /\ DOMAIN (s \o es) = 1..(Len(s) + Len(es))
  BY <1>1, <1>2, LenProperties
<1>. QED
  BY <1>1, <1>2, <1>3 DEF Keeps, HangupsAfter

LEMMA QueueDropped ==
  ASSUME NEW s \in Seq(Sends(Caller)), s # <<>>, NEW es \in HangupOrNothing
  PROVE  Drops(s, Tail(s) \o es)
<1>1. /\ Tail(s) \in Seq(Sends(Caller)) /\ Len(Tail(s)) = Len(s) - 1
      /\ \A i \in 1..Len(Tail(s)) : Tail(s)[i] = s[i + 1]
  BY HeadTailProperties
<1>2. Keeps(Tail(s), Tail(s) \o es)
  BY <1>1, QueueKept
<1>. QED
  BY <1>1, <1>2 DEF Keeps, Drops

\* The call of the caller goes on, or ends.
CallerGoesOn ==
  /\ call[Caller].over => call'[Caller].over
  /\ call'[Caller].timer => call[Caller].timer
  /\ call'[Caller].state \in Conversation => call[Caller].state \in Conversation
  /\ call[Caller].state = "CreateOffer" => call'[Caller].state = "CreateOffer" \/ call'[Caller].over

CallerKeeps ==
  /\ Keeps(outbox[Caller], outbox'[Caller]) /\ CallerGoesOn
  /\ selected' = selected /\ link' = link /\ overtaken' = overtaken

CallerDrops ==
  /\ Drops(outbox[Caller], outbox'[Caller]) /\ CallerGoesOn
  /\ selected' = selected \/ (selected' = Caller /\ outbox[Caller][1].type = "select")
  /\ link' = link /\ overtaken' = overtaken

CallerSelects ==
  \E of \in {"answer", "reject"}, party \in Callees :
    /\ selected = Caller /\ selected' = party /\ link' = link
    /\ outbox'[Caller] = outbox[Caller] \o <<[type |-> "select", by |-> Caller, of |-> of, party |-> party]>>
    /\ call'[Caller].over = call[Caller].over /\ call'[Caller].state = call[Caller].state
    /\ call'[Caller].timer = FALSE
    /\ overtaken' = (overtaken \/ (of = "answer" /\ call[Caller].state = "CreateOffer"))
    /\ inbox[Caller] # <<>> /\ Head(inbox[Caller]).type # "hangup"

CallerInvites ==
  /\ outbox[Caller] # <<>> /\ outbox[Caller][1].type = "invite" /\ Drops(outbox[Caller], outbox'[Caller])
  /\ call'[Caller].state = "InviteSent" /\ call'[Caller].over = call[Caller].over
  /\ selected' = selected /\ link' = link /\ overtaken' = overtaken

CallerConnects ==
  /\ outbox[Caller] # <<>> /\ outbox[Caller][1].type = "select" /\ outbox[Caller][1].of = "answer"
  /\ Drops(outbox[Caller], outbox'[Caller])
  /\ call'[Caller].over = call[Caller].over /\ call'[Caller].timer = call[Caller].timer
  /\ \/ selected' = selected /\ link' \in {link} \cup Callees
     \/ selected' = Caller /\ link' = link
  /\ overtaken' = overtaken

CallerSteps ==
  CallerKeeps \/ CallerDrops \/ CallerSelects \/ CallerInvites \/ CallerConnects \/ OfferCreated

LEMMA CallerTypes ==
  ASSUME Good
  PROVE  /\ Caller \in Parties /\ Callees \subseteq Parties /\ Caller \notin Callees
         /\ outbox \in [Parties -> Seq(Event)] /\ outbox[Caller] \in Seq(Sends(Caller))
         /\ Keeps(outbox[Caller], outbox[Caller])
         /\ call \in [Parties -> Call] /\ call[Caller] \in Call
<1>1. /\ Caller \in Parties /\ Callees \subseteq Parties /\ Caller \notin Callees
      /\ outbox \in [Parties -> Seq(Event)] /\ outbox[Caller] \in Seq(Sends(Caller))
      /\ call \in [Parties -> Call] /\ call[Caller] \in Call
  BY PartyFacts, CallsAssumption DEF Good, OutboxGood, CallsGood
<1>2. outbox[Caller] \o <<>> = outbox[Caller] /\ <<>> \in HangupOrNothing
  BY <1>1, ConcatEmptySeq DEF HangupOrNothing
<1>. QED
  BY <1>1, <1>2, QueueKept

\* A device hangs up, or its stack or its connection fails.
LEMMA CallerHangsUp ==
  ASSUME Good, NEW p \in Parties, SendEvents(p, HangupWithReason(p)), UNCHANGED <<call, selected, link, overtaken>>
  PROVE  CallerKeeps
<1>1. CASE p = Caller
  <2>1. HangupWithReason(Caller) \in HangupOrNothing
    BY <1>1, HangupSent DEF HangupOrNothing
  <2>2. outbox'[Caller] = outbox[Caller] \o HangupWithReason(Caller)
    BY <1>1, CallerTypes DEF SendEvents
  <2>. QED
    BY <2>1, <2>2, CallerTypes, QueueKept DEF CallerKeeps, CallerGoesOn
<1>2. CASE p # Caller
  BY <1>2, CallerTypes DEF SendEvents, CallerKeeps, CallerGoesOn
<1>. QED
  BY <1>1, <1>2

\* What another device does is nothing to the caller.
CallerUntouched ==
  UNCHANGED <<call[Caller], outbox[Caller], selected, link, overtaken>>

LEMMA UntouchedKeeps ==
  ASSUME Good, CallerUntouched
  PROVE  CallerKeeps
BY CallerTypes DEF CallerUntouched, CallerKeeps, CallerGoesOn

LEMMA UsersAndCaller ==
  ASSUME Good, Users
  PROVE  CallerSteps
<1>1. CASE CallWithVideo
  <2>1. Becomes(Caller, "WaitLocalMedia", call[Caller].timer, TRUE, call[Caller].over)
    BY <1>1, CallUpdates, CallerTypes DEF CallWithVideo, State
  <2>2. CallerKeeps
    BY <1>1, <2>1, CallerTypes
    DEF Becomes, CallWithVideo, CallerKeeps, CallerGoesOn, Conversation, queue, history
  <2>. QED
    BY <2>2 DEF CallerSteps
<1>2. ASSUME NEW p \in Callees, Answer(p)
      PROVE  CallerUntouched
  BY <1>2, CallerTypes
  DEF Answer, AnswerIfRinging, AnswerCall, CreateAnswer, SendEvents, CallerUntouched, queue, history
<1>3. ASSUME NEW p \in Parties, Hangup(p)
      PROVE  CallerKeeps
  BY <1>3, CallerHangsUp DEF Hangup, history
<1>. QED
  BY <1>1, <1>2, <1>3, UntouchedKeeps DEF Users, CallerSteps

LEMMA TroubleAndCaller ==
  ASSUME Good, Trouble
  PROVE  CallerSteps
<1>1. ASSUME NEW p \in Parties, (p \in Callees /\ EncryptionFails(p)) \/ StackFails(p) \/ ConnectionLost(p)
      PROVE  CallerKeeps
  BY <1>1, CallerHangsUp
  DEF EncryptionFails, StackFails, ConnectionLost, OnError, DidEncounterError, history
<1>2. ASSUME NEW p \in Callees, SendFails(p)
      PROVE  CallerUntouched
  <2>1. outbox[p] # <<>> /\ p # Caller /\ p \in Parties
    BY <1>2, CallerTypes DEF SendFails
  <2>2. Head(outbox[p]).type # "select"
    BY <2>1, FirstSent DEF Sends
  <2>. QED
    BY <1>2, <2>1, <2>2, CallerTypes DEF SendFails, Dequeue, CallerUntouched, history
<1>3. CASE SendFails(Caller)
  <2>1. outbox[Caller] # <<>> /\ Head(outbox[Caller]) = outbox[Caller][1]
    BY <1>3, CallerTypes DEF SendFails
  <2>2. HangupWithReason(Caller) \in HangupOrNothing
    BY CallerTypes, HangupSent DEF HangupOrNothing
  <2>3. outbox'[Caller] = Tail(outbox[Caller]) \o HangupWithReason(Caller)
    BY <1>3, CallerTypes DEF SendFails, Dequeue
  <2>4. CallerDrops
    BY <1>3, <2>1, <2>2, <2>3, CallerTypes, QueueDropped DEF SendFails, CallerDrops, CallerGoesOn, history
  <2>. QED
    BY <2>4 DEF CallerSteps
<1>. QED
  BY <1>1, <1>2, <1>3, UntouchedKeeps, CallerTypes, PartyFacts DEF Trouble, CallerSteps

LEMMA StacksAndCaller ==
  ASSUME Good, NEW p \in Parties, Stack(p) \/ ExpireCallInvite(p)
  PROVE  CallerSteps
<1>1. CASE ConnectionEnds(p)
  BY <1>1, CallerHangsUp DEF ConnectionEnds, OnError, DidEncounterError, history, CallerSteps
<1>2. CASE ExpireCallInvite(p)
  <2>1. Becomes(p, "Ended", FALSE, FALSE, TRUE)
    BY <1>2, CallerTypes, ExpiredCall
  <2>2. CallerKeeps
    BY <1>2, <2>1, CallerTypes
    DEF Becomes, ExpireCallInvite, CallerKeeps, CallerGoesOn, Conversation, queue, history
  <2>. QED
    BY <2>2 DEF CallerSteps
<1>3. CASE OfferHandled(p) \/ StackIsSilent(p)
  <2>1. OfferHandled(p) => p # Caller
    BY DEF OfferHandled, Good, StackGood
  <2>2. CallerUntouched
    BY <1>3, <2>1, CallerTypes DEF OfferHandled, StackIsSilent, CallerUntouched, queue, history
  <2>. QED
    BY <2>2, UntouchedKeeps DEF CallerSteps
<1>4. CASE CallStackCallDidConnect(p)
  <2>1. Becomes(p, "Connected", call[p].timer, call[p].known, call[p].over)
    BY <1>4, CallUpdates, CallerTypes DEF CallStackCallDidConnect, State
  <2>2. CallerKeeps
    BY <1>4, <2>1, CallerTypes
    DEF Becomes, CallStackCallDidConnect, CallerKeeps, CallerGoesOn, Conversation, queue, history
  <2>. QED
    BY <2>2 DEF CallerSteps
<1>. QED
  BY <1>1, <1>2, <1>3, <1>4 DEF Stack, CallerSteps

LEMMA RequestsAndCaller ==
  ASSUME Good, NEW p \in Parties, Request(p)
  PROVE  CallerSteps
<1>1. ASSUME NEW e, Sent(Caller, e)
      PROVE  outbox[Caller] # <<>> /\ e = outbox[Caller][1]
  BY <1>1, CallerTypes DEF Sent, Good, OutboxGood
<1>2. \A es \in HangupOrNothing : Dequeue(Caller, es) => outbox'[Caller] = Tail(outbox[Caller]) \o es
  BY CallerTypes DEF Dequeue
<1>3. <<>> \in HangupOrNothing /\ <<[type |-> "hangup", by |-> Caller]>> \in HangupOrNothing
  BY DEF HangupOrNothing
<1>4. ASSUME NEW e, InviteSent(e)
      PROVE  CallerInvites
  <2>1. Becomes(Caller, "InviteSent", TRUE, call[Caller].known, call[Caller].over)
    BY <1>4, CallUpdates, CallerTypes DEF InviteSent, State
  <2>2. outbox[Caller] # <<>> /\ outbox[Caller][1].type = "invite"
    BY <1>1, <1>4 DEF InviteSent
  <2>3. Drops(outbox[Caller], outbox'[Caller])
    BY <1>2, <1>3, <1>4, <2>2, CallerTypes, QueueDropped DEF InviteSent
  <2>. QED
    BY <1>4, <2>1, <2>2, <2>3 DEF Becomes, InviteSent, CallerInvites, history
<1>5. ASSUME NEW e, AnswerSelected(e)
      PROVE  CallerConnects
  <2>1. Becomes(Caller, "Connecting", call[Caller].timer, call[Caller].known, call[Caller].over)
    BY <1>5, CallUpdates, CallerTypes DEF AnswerSelected, State
  <2>2. outbox[Caller] # <<>> /\ e = outbox[Caller][1] /\ e.type = "select" /\ e.of = "answer"
    BY <1>1, <1>5 DEF AnswerSelected
  <2>3. PICK es \in HangupOrNothing : Dequeue(Caller, es)
    BY <1>3, <1>5 DEF AnswerSelected
  <2>4. Drops(outbox[Caller], outbox'[Caller])
    BY <1>2, <2>2, <2>3, CallerTypes, QueueDropped
  <2>5. e.party \in Callees
    <3>1. Head(outbox[Caller]) = outbox[Caller][1]
      BY <2>2, CallerTypes
    <3>. QED
      BY <2>2, <3>1, CallerTypes, FirstSent DEF Event
  <2>6. /\ \/ selected' = selected /\ link' \in {link} \cup Callees
           \/ selected' = Caller /\ link' = link
        /\ overtaken' = overtaken
    BY <1>5, <2>5 DEF AnswerSelected, history
  <2>. QED
    BY <2>1, <2>2, <2>4, <2>6 DEF Becomes, CallerConnects
<1>6. ASSUME NEW e, EndSent(Caller, e)
      PROVE  CallerDrops
  <2>1. Becomes(Caller, "Ended", FALSE, call[Caller].known, TRUE)
    BY <1>6, CallUpdates, CallerTypes DEF EndSent
  <2>2. outbox[Caller] # <<>>
    BY <1>1, <1>6 DEF EndSent
  <2>3. Drops(outbox[Caller], outbox'[Caller])
    BY <1>2, <1>3, <1>6, <2>2, CallerTypes, QueueDropped DEF EndSent
  <2>. QED
    BY <1>6, <2>1, <2>3 DEF Becomes, EndSent, CallerDrops, CallerGoesOn, Conversation, history
<1>7. ASSUME p # Caller, NEW e, EndSent(p, e)
      PROVE  CallerUntouched
  BY <1>7, CallerTypes DEF EndSent, Dequeue, CallerUntouched, history
<1>. QED
  BY <1>4, <1>5, <1>6, <1>7, UntouchedKeeps DEF Request, CallerSteps

LEMMA ReceivingAndCaller ==
  ASSUME Good, NEW p \in Parties, Receive(p)
  PROVE  CallerSteps
<1>0. inbox[p] # <<>> /\ link' = link
  BY Zenon DEF Receive, HandleCallInvite, HandleCallAnswer, HandleCallSelectAnswer,
               HandleCallHangup, HandleCallReject, Reads
<1>1. CASE p # Caller
  <2>1. CallerUntouched
    BY <1>0, <1>1, CallerTypes
    DEF Receive, HandleCallInvite, HandleCallAnswer, HandleCallSelectAnswer, HandleCallHangup,
        HandleCallReject, CallerUntouched
  <2>. QED
    BY <2>1, UntouchedKeeps DEF CallerSteps
<1>2. CASE p = Caller
  <2>1. ~HandleCallInvite(p) /\ ~HandleCallSelectAnswer(p)
    BY <1>0, <1>2, FirstHeard DEF HandleCallInvite, HandleCallSelectAnswer, Reads, Sends
  <2>2. CASE HandleCallHangup(p)
    <3>1. \/ Becomes(p, "Ended", call[p].timer, FALSE, call[p].over) /\ call[p].state = "Ended"
          \/ Becomes(p, "Ended", FALSE, FALSE, TRUE)
      BY <2>2, CallerTypes, HungUpCall
    <3>2. CallerGoesOn
      BY <1>2, <3>1 DEF Becomes, CallerGoesOn, Conversation
    <3>. QED
      BY <1>0, <2>2, <3>2, CallerTypes DEF HandleCallHangup, CallerKeeps, CallerSteps
  <2>3. ASSUME NEW of \in {"answer", "reject"}, Select(of, Head(inbox[p]).by), selected = Caller,
               call' = [call EXCEPT ![p].timer = FALSE], Head(inbox[p]).type \in {"answer", "reject"},
               overtaken' = (overtaken \/ (of = "answer" /\ call[Caller].state = "CreateOffer"))
        PROVE  CallerSelects
    <3>1. Head(inbox[p]).by \in Callees
      BY <1>0, <1>2, <2>3, FirstHeard, PartyFacts DEF Event
    <3>2. Becomes(p, call[p].state, FALSE, call[p].known, call[p].over)
      BY <2>3, CallUpdates, CallerTypes
    <3>3. /\ outbox'[Caller] = outbox[Caller] \o
                <<[type |-> "select", by |-> Caller, of |-> of, party |-> Head(inbox[p]).by]>>
          /\ selected' = Head(inbox[p]).by
      BY <2>3, CallerTypes DEF Select, SendEvents
    <3>. QED
      BY <1>0, <1>2, <2>3, <3>1, <3>2, <3>3 DEF Becomes, CallerSelects
  <2>4. CASE HandleCallAnswer(p)
    <3>1. CASE selected = Caller
      BY <1>2, <2>3, <2>4, <3>1 DEF HandleCallAnswer, MayBeSelected, Reads, CallerSteps
    <3>2. CASE selected # Caller
      BY <1>0, <1>2, <2>4, <3>2, CallerTypes
      DEF HandleCallAnswer, MayBeSelected, CallerKeeps, CallerGoesOn, CallerSteps
    <3>. QED
      BY <3>1, <3>2
  <2>5. CASE HandleCallReject(p)
    <3>1. CASE selected = Caller /\ call[p].state # "Ended"
      <4>1. /\ Select("reject", Head(inbox[p]).by) /\ call' = [call EXCEPT ![p].timer = FALSE]
            /\ overtaken' = overtaken /\ Head(inbox[p]).type = "reject" /\ overtaken \in BOOLEAN
        BY <1>2, <2>5, <3>1 DEF HandleCallReject, Reads, Good, HistoryGood
      <4>. QED
        BY <2>3, <3>1, <4>1 DEF CallerSteps
    <3>2. CASE selected = Caller /\ call[p].state = "Ended"
      <4>1. Becomes(p, call[p].state, FALSE, call[p].known, call[p].over)
        BY <1>2, <2>5, <3>2, CallUpdates, CallerTypes DEF HandleCallReject
      <4>. QED
        BY <1>0, <1>2, <2>5, <3>2, <4>1, CallerTypes
        DEF Becomes, HandleCallReject, CallerKeeps, CallerGoesOn, CallerSteps
    <3>3. CASE selected # Caller
      BY <1>0, <1>2, <2>5, <3>3, CallerTypes
      DEF HandleCallReject, CallerKeeps, CallerGoesOn, CallerSteps
    <3>. QED
      BY <3>1, <3>2, <3>3
  <2>. QED
    BY <2>1, <2>2, <2>4, <2>5 DEF Receive
<1>. QED
  BY <1>1, <1>2

LEMMA HomeserverAndCaller ==
  ASSUME Good, NEW p \in Parties, HomeserverAccepts(p)
  PROVE  CallerUntouched
<1>1. outbox[p] # <<>> /\ (p = Caller => Head(outbox[p]).type # "answer")
  BY FirstSent DEF HomeserverAccepts, Sends
<1>. QED
  BY <1>1, CallerTypes DEF HomeserverAccepts, Dequeue, CallerUntouched

LEMMA StepsOfCaller ==
  ASSUME Good, [Next]_vars
  PROVE  CallerSteps
<1>1. ASSUME NEW p \in Callees, TryAnswer(p) \/ EncryptionEnsured(p)
      PROVE  CallerUntouched
  BY <1>1, CallerTypes
  DEF TryAnswer, EncryptionEnsured, AnswerIfRinging, AnswerCall, CreateAnswer, SendEvents,
      CallerUntouched, queue, history
<1>2. CASE System
  BY <1>1, <1>2, UntouchedKeeps, StacksAndCaller, RequestsAndCaller, ReceivingAndCaller,
     HomeserverAndCaller DEF System, CallerSteps
<1>3. CASE UNCHANGED vars
  BY <1>3, UntouchedKeeps DEF vars, queue, history, CallerUntouched, CallerSteps
<1>. QED
  BY <1>2, <1>3, UsersAndCaller, TroubleAndCaller DEF Next

(***************************************************************************)
(* The queue of the caller: what is left of each kind.                     *)
(***************************************************************************)
LEMMA KeptKinds ==
  ASSUME NEW s \in Seq(Event), NEW t \in Seq(Event), Keeps(s, t)
  PROVE  /\ \A type \in {"invite", "select"} : OfType(t, type) = OfType(s, type)
         /\ Ahead(s) => Ahead(t)
         /\ AnswerIn(t) => AnswerIn(s)
<1>1. /\ Len(s) \in Nat /\ Len(t) \in Nat /\ DOMAIN s = 1..Len(s) /\ DOMAIN t = 1..Len(t)
      /\ Len(t) >= Len(s) /\ \A i \in 1..Len(s) : t[i] = s[i]
      /\ \A i \in 1..Len(t) : i > Len(s) => t[i].type = "hangup"
  BY LenProperties DEF Keeps, HangupsAfter
<1>2. \A type \in {"invite", "select"} : OfType(t, type) = OfType(s, type)
  BY <1>1 DEF OfType
<1>. QED
  BY <1>1, <1>2 DEF OfType, Ahead, AnswerIn

LEMMA DroppedKinds ==
  ASSUME NEW s \in Seq(Event), NEW t \in Seq(Event), Drops(s, t)
  PROVE  /\ \A type \in {"invite", "select"} : \A i \in OfType(t, type) : i + 1 \in OfType(s, type)
         /\ Ahead(s) => Ahead(t)
         /\ Ahead(s) /\ s[1].type # "hangup" => OfType(t, "invite") = {}
         /\ OneOf(s) => OneOf(t)
         /\ OneOf(s) /\ s[1].type = "select" => OfType(t, "select") = {}
         /\ AnswerIn(t) => AnswerIn(s)
         /\ 1 \in DOMAIN s
<1>1. /\ Len(s) \in Nat /\ Len(t) \in Nat /\ DOMAIN s = 1..Len(s) /\ DOMAIN t = 1..Len(t)
      /\ Len(t) >= Len(s) - 1 /\ \A i \in 1..(Len(s) - 1) : t[i] = s[i + 1]
      /\ \A i \in 1..Len(t) : i > Len(s) - 1 => t[i].type = "hangup"
      /\ Len(s) >= 1
  BY LenProperties, EmptySeq DEF Drops, HangupsAfter
<1>2. \A type \in {"invite", "select"} : \A i \in OfType(t, type) :
        /\ i + 1 \in OfType(s, type) /\ t[i] = s[i + 1] /\ i \in Nat /\ i >= 1
        /\ i <= Len(s) - 1
  BY <1>1 DEF OfType
<1>3. \A type \in {"invite", "select"} : \A i \in OfType(s, type) : i \in 1..Len(s) /\ s[i].type = type
  BY <1>1 DEF OfType
<1>4. Ahead(s) => Ahead(t)
  <2>. SUFFICES ASSUME Ahead(s), NEW i \in OfType(t, "invite"), NEW j \in DOMAIN t, j < i
                PROVE  t[j].type = "hangup"
    BY DEF Ahead
  <2>1. i + 1 \in OfType(s, "invite") /\ j + 1 \in DOMAIN s /\ j + 1 < i + 1 /\ j \in 1..(Len(s) - 1)
    BY <1>1, <1>2
  <2>2. s[j + 1].type = "hangup"
    BY <2>1 DEF Ahead
  <2>. QED
    BY <1>1, <2>1, <2>2
<1>5. Ahead(s) /\ s[1].type # "hangup" => OfType(t, "invite") = {}
  <2>. SUFFICES ASSUME Ahead(s), NEW i \in OfType(t, "invite")
                PROVE  s[1].type = "hangup"
    OBVIOUS
  <2>1. i + 1 \in OfType(s, "invite") /\ 1 \in DOMAIN s /\ 1 < i + 1
    BY <1>1, <1>2
  <2>. QED
    BY <2>1 DEF Ahead
<1>6. OneOf(s) => OneOf(t)
  <2>. SUFFICES ASSUME OneOf(s), NEW i \in OfType(t, "select"), NEW j \in OfType(t, "select")
                PROVE  i = j
    BY DEF OneOf
  <2>1. i + 1 = j + 1 /\ i \in Nat /\ j \in Nat
    BY <1>2 DEF OneOf
  <2>. QED
    BY <2>1
<1>7. OneOf(s) /\ s[1].type = "select" => OfType(t, "select") = {}
  <2>. SUFFICES ASSUME OneOf(s), s[1].type = "select", NEW i \in OfType(t, "select")
                PROVE  FALSE
    OBVIOUS
  <2>1. 1 \in OfType(s, "select") /\ i + 1 \in OfType(s, "select") /\ i \in Nat /\ i >= 1
    BY <1>1, <1>2 DEF OfType
  <2>2. 1 = i + 1
    BY <2>1 DEF OneOf
  <2>. QED
    BY <2>1, <2>2
<1>8. AnswerIn(t) => AnswerIn(s)
  BY <1>2 DEF AnswerIn
<1>. QED
  BY <1>1, <1>2, <1>4, <1>5, <1>6, <1>7, <1>8

Appends(s, e, t) == t = s \o <<e>>
LEMMA AppendedKinds ==
  ASSUME NEW s \in Seq(Event), NEW e \in Event, NEW t, Appends(s, e, t)
  PROVE  /\ e.type # "invite" => OfType(t, "invite") = OfType(s, "invite")
         /\ e.type = "invite" => OfType(t, "invite") = OfType(s, "invite") \cup {Len(s) + 1}
         /\ e.type # "select" => OfType(t, "select") = OfType(s, "select")
         /\ e.type = "select" => OfType(t, "select") = OfType(s, "select") \cup {Len(s) + 1}
         /\ \A i \in DOMAIN s : t[i] = s[i]
         /\ t[Len(s) + 1] = e
         /\ DOMAIN s = 1..Len(s) /\ Len(s) \in Nat
<1>. USE DEF Appends
<1>1. /\ DOMAIN s = 1..Len(s) /\ Len(s) \in Nat /\ t \in Seq(Event) /\ Len(t) = Len(s) + 1
      /\ \A i \in 1..(Len(s) + 1) : t[i] = IF i <= Len(s) THEN s[i] ELSE e
  <2>1. /\ <<e>> \in Seq(Event) /\ Len(<<e>>) = 1 /\ <<e>>[1] = e
    OBVIOUS
  <2>2. Len(s) \in Nat /\ DOMAIN s = 1..Len(s)
    BY LenProperties
  <2>3. /\ t \in Seq(Event) /\ Len(t) = Len(s) + 1
        /\ \A i \in 1..(Len(s) + 1) : t[i] = IF i <= Len(s) THEN s[i] ELSE <<e>>[i - Len(s)]
    BY <2>1, ConcatProperties
  <2>. QED
    BY <2>1, <2>2, <2>3
<1>2. DOMAIN t = 1..(Len(s) + 1)
  BY <1>1, LenProperties
<1>. QED
  BY <1>1, <1>2 DEF OfType

LEMMA SelectIsAnEvent ==
  \A of \in {"answer", "reject"}, party \in Callees :
    [type |-> "select", by |-> Caller, of |-> of, party |-> party] \in Event
BY EventsSent DEF Sends

LEMMA QueueTyped ==
  ASSUME Good, Good'
  PROVE  outbox[Caller] \in Seq(Event) /\ outbox'[Caller] \in Seq(Event)
BY PartyFacts DEF Good, OutboxGood

(***************************************************************************)
(* Every step keeps the invariant.                                         *)
(***************************************************************************)
LEMMA OneSelectedKept ==
  ASSUME Good, Good', OneSelected, CallerSteps
  PROVE  OneSelected'
<1>. DEFINE s == outbox[Caller]
            t == outbox'[Caller]
<1>0. s \in Seq(Event) /\ t \in Seq(Event) /\ link \in Parties
      /\ Caller \in Parties /\ Caller \notin Callees
  BY QueueTyped, CallerTypes DEF Good, AnswersGood
<1>1. /\ OneOf(s) /\ (selected = Caller => OfType(s, "select") = {} /\ link = Caller)
      /\ (link # Caller => OfType(s, "select") = {})
  BY DEF OneSelected, Selects
<1>. SUFFICES /\ OneOf(t) /\ (selected' = Caller => OfType(t, "select") = {} /\ link' = Caller)
              /\ (link' # Caller => OfType(t, "select") = {})
  BY DEF OneSelected, OneOf, OfType, Selects
<1>. HIDE DEF s, t
<1>2. CASE CallerKeeps
  <2>1. OfType(t, "select") = OfType(s, "select") /\ selected' = selected /\ link' = link
    BY <1>0, <1>2, KeptKinds DEF CallerKeeps, s, t
  <2>. QED
    BY <1>1, <2>1 DEF OneOf
<1>3. ASSUME Drops(s, t)
      PROVE  /\ OneOf(t) /\ (s[1].type = "select" => OfType(t, "select") = {} /\ link = Caller)
             /\ (OfType(s, "select") = {} => OfType(t, "select") = {})
  <2>1. OneOf(t) /\ (s[1].type = "select" => OfType(t, "select") = {}) /\ 1 \in DOMAIN s
        /\ \A i \in OfType(t, "select") : i + 1 \in OfType(s, "select")
    BY <1>0, <1>1, <1>3, DroppedKinds
  <2>2. s[1].type = "select" => 1 \in OfType(s, "select")
    BY <2>1 DEF OfType
  <2>. QED
    BY <1>1, <2>1, <2>2
<1>4. CASE CallerDrops
  <2>1. Drops(s, t) /\ link' = link
        /\ (selected' = selected \/ (selected' = Caller /\ s[1].type = "select"))
    BY <1>4 DEF CallerDrops, s, t
  <2>. QED
    BY <1>1, <1>3, <2>1
<1>5. CASE CallerSelects
  <2>1. PICK of \in {"answer", "reject"}, party \in Callees :
          /\ selected = Caller /\ selected' = party /\ link' = link
          /\ t = s \o <<[type |-> "select", by |-> Caller, of |-> of, party |-> party]>>
    BY <1>5 DEF CallerSelects, s, t
  <2>. DEFINE e == [type |-> "select", by |-> Caller, of |-> of, party |-> party]
  <2>2. e \in Event /\ e.type = "select" /\ Appends(s, e, t)
    BY <2>1, SelectIsAnEvent DEF Appends
  <2>. HIDE DEF e
  <2>3. OfType(t, "select") = OfType(s, "select") \cup {Len(s) + 1}
    BY <1>0, <2>2, AppendedKinds
  <2>. QED
    BY <1>0, <1>1, <2>1, <2>3 DEF OneOf
<1>6. CASE CallerInvites
  <2>1. Drops(s, t) /\ selected' = selected /\ link' = link
    BY <1>6 DEF CallerInvites, s, t
  <2>. QED
    BY <1>1, <1>3, <2>1
<1>7. CASE CallerConnects
  <2>1. Drops(s, t) /\ s[1].type = "select" /\ s # <<>>
        /\ (selected' = selected \/ (selected' = Caller /\ link' = link))
    BY <1>7 DEF CallerConnects, s, t
  <2>2. selected # Caller
    <3>1. 1 \in OfType(s, "select")
      BY <1>0, <2>1, DroppedKinds DEF OfType
    <3>. QED
      BY <1>1, <3>1
  <2>. QED
    BY <1>1, <1>3, <2>1, <2>2
<1>8. CASE OfferCreated
  <2>1. selected' = selected /\ link' = link /\ t = s \o <<[type |-> "invite", by |-> Caller]>>
    BY <1>8, CallerTypes DEF OfferCreated, SendEvents, s, t
  <2>2. [type |-> "invite", by |-> Caller] \in Event
    BY EventsSent DEF Sends
  <2>. DEFINE e == [type |-> "invite", by |-> Caller]
  <2>4. e \in Event /\ e.type = "invite" /\ Appends(s, e, t)
    BY <2>1, <2>2 DEF Appends
  <2>. HIDE DEF e
  <2>3. OfType(t, "select") = OfType(s, "select")
    BY <1>0, <2>4, AppendedKinds
  <2>. QED
    BY <1>1, <2>1, <2>3 DEF OneOf
<1>. QED
  BY <1>2, <1>4, <1>5, <1>6, <1>7, <1>8 DEF CallerSteps

\* Before the invite is handed over, what the caller has to send is hang-ups.
LEMMA InviteFirstKept ==
  ASSUME Good, Good', InviteFirst, QuietBefore, CallerSteps
  PROVE  InviteFirst'
<1>. DEFINE s == outbox[Caller]
            t == outbox'[Caller]
<1>0. s \in Seq(Event) /\ t \in Seq(Event)
  BY QueueTyped
<1>1. Ahead(s) /\ (OfType(s, "invite") # {} => call[Caller].state = "CreateOffer" \/ call[Caller].over)
  BY DEF InviteFirst, Invites
<1>. SUFFICES
       Ahead(t) /\ (OfType(t, "invite") # {} => call'[Caller].state = "CreateOffer" \/ call'[Caller].over)
  BY DEF InviteFirst, Invites, Ahead, OfType
<1>. HIDE DEF s, t
<1>2. CASE CallerKeeps
  <2>1. OfType(t, "invite") = OfType(s, "invite") /\ Ahead(t)
    BY <1>0, <1>1, <1>2, KeptKinds DEF CallerKeeps, s, t
  <2>. QED
    BY <1>1, <1>2, <2>1 DEF CallerKeeps, CallerGoesOn
<1>3. CASE CallerDrops
  <2>1. Ahead(t) /\ \A i \in OfType(t, "invite") : i + 1 \in OfType(s, "invite")
    BY <1>0, <1>1, <1>3, DroppedKinds DEF CallerDrops, s, t
  <2>. QED
    BY <1>1, <1>3, <2>1 DEF CallerDrops, CallerGoesOn
<1>4. CASE CallerSelects
  <2>1. PICK of \in {"answer", "reject"}, party \in Callees :
          /\ t = s \o <<[type |-> "select", by |-> Caller, of |-> of, party |-> party]>>
          /\ call'[Caller].over = call[Caller].over /\ call'[Caller].state = call[Caller].state
    BY <1>4 DEF CallerSelects, s, t
  <2>. DEFINE e == [type |-> "select", by |-> Caller, of |-> of, party |-> party]
  <2>2. e \in Event /\ e.type = "select" /\ Appends(s, e, t)
    BY <2>1, SelectIsAnEvent DEF Appends
  <2>. HIDE DEF e
  <2>3. \A i \in DOMAIN s : t[i] = s[i]
    BY <1>0, <2>2, AppendedKinds
  <2>5. OfType(t, "invite") = OfType(s, "invite")
    BY <1>0, <2>2, AppendedKinds
  <2>4. Ahead(t)
    <3>. SUFFICES ASSUME NEW i \in OfType(s, "invite"), NEW j \in DOMAIN t, j < i
                  PROVE  t[j].type = "hangup"
      BY <2>5 DEF Ahead
    <3>1. i \in DOMAIN s /\ j \in DOMAIN s
      BY <1>0, LenProperties DEF OfType
    <3>. QED
      BY <1>1, <2>3, <3>1 DEF Ahead
  <2>. QED
    BY <1>1, <2>1, <2>4, <2>5
<1>5. CASE CallerInvites \/ CallerConnects
  <2>1. Drops(s, t) /\ s[1].type # "hangup"
    BY <1>5 DEF CallerInvites, CallerConnects, s, t
  <2>. QED
    BY <1>0, <1>1, <2>1, DroppedKinds
<1>6. CASE OfferCreated
  <2>1. \A i \in DOMAIN s : s[i].type = "hangup"
    BY <1>6 DEF OfferCreated, QuietBefore, Uninvited, HangupsOnly, s
  <2>2. t = s \o <<[type |-> "invite", by |-> Caller]>> /\ call'[Caller].state = "CreateOffer"
    <3>1. Becomes(Caller, "CreateOffer", call[Caller].timer, call[Caller].known, call[Caller].over)
      BY <1>6, CallUpdates, CallerTypes DEF OfferCreated, State
    <3>. QED
      BY <1>6, <3>1, CallerTypes DEF OfferCreated, SendEvents, Becomes, s, t
  <2>3. [type |-> "invite", by |-> Caller] \in Event
    BY EventsSent DEF Sends
  <2>. DEFINE e == [type |-> "invite", by |-> Caller]
  <2>4. e \in Event /\ e.type = "invite" /\ Appends(s, e, t)
    BY <2>2, <2>3 DEF Appends
  <2>. HIDE DEF e
  <2>6. OfType(t, "invite") = OfType(s, "invite") \cup {Len(s) + 1}
    BY <1>0, <2>4, AppendedKinds
  <2>7. \A i \in DOMAIN s : t[i] = s[i]
    BY <1>0, <2>4, AppendedKinds
  <2>5. Ahead(t)
    <3>. SUFFICES ASSUME NEW i \in OfType(t, "invite"), NEW j \in DOMAIN t, j < i
                  PROVE  t[j].type = "hangup"
      BY DEF Ahead
    <3>1. j \in DOMAIN s
      BY <1>0, <2>6, LenProperties DEF OfType
    <3>. QED
      BY <2>1, <2>7, <3>1
  <2>. QED
    BY <2>2, <2>5
<1>. QED
  BY <1>2, <1>3, <1>4, <1>5, <1>6 DEF CallerSteps

LEMMA TimerAccountedKept ==
  ASSUME Good, Good', TimerAccounted, InviteFirst, QuietBefore, CallerSteps
  PROVE  TimerAccounted'
<1>. DEFINE s == outbox[Caller]
            t == outbox'[Caller]
            c == call[Caller]
            d == call'[Caller]
<1>0. s \in Seq(Event) /\ t \in Seq(Event)
  BY QueueTyped
<1>1. (AnswerIn(s) \/ c.state \in Conversation) /\ (c.timer \/ OfType(s, "invite") # {})
        => c.over \/ overtaken
  BY DEF TimerAccounted, Answered, Invites
<1>. SUFFICES (AnswerIn(t) \/ d.state \in Conversation) /\ (d.timer \/ OfType(t, "invite") # {})
                => d.over \/ overtaken'
  BY DEF TimerAccounted, Answered, Invites, AnswerIn, OfType
<1>. HIDE DEF s, t, c, d
<1>2. CASE CallerKeeps
  <2>1. OfType(t, "invite") = OfType(s, "invite") /\ (AnswerIn(t) => AnswerIn(s))
    BY <1>0, <1>2, KeptKinds DEF CallerKeeps, s, t
  <2>. QED
    BY <1>1, <1>2, <2>1 DEF CallerKeeps, CallerGoesOn, c, d
<1>3. CASE CallerDrops
  <2>1. (\A i \in OfType(t, "invite") : i + 1 \in OfType(s, "invite")) /\ (AnswerIn(t) => AnswerIn(s))
    BY <1>0, <1>3, DroppedKinds DEF CallerDrops, s, t
  <2>. QED
    BY <1>1, <1>3, <2>1 DEF CallerDrops, CallerGoesOn, c, d
<1>4. CASE CallerSelects
  <2>1. PICK of \in {"answer", "reject"}, party \in Callees :
          /\ t = s \o <<[type |-> "select", by |-> Caller, of |-> of, party |-> party]>>
          /\ d.over = c.over /\ d.state = c.state /\ d.timer = FALSE
          /\ overtaken' = (overtaken \/ (of = "answer" /\ c.state = "CreateOffer"))
    BY <1>4 DEF CallerSelects, s, t, c, d
  <2>. DEFINE e == [type |-> "select", by |-> Caller, of |-> of, party |-> party]
  <2>2. e \in Event /\ e.type = "select" /\ Appends(s, e, t) /\ e.of = of
    BY <2>1, SelectIsAnEvent DEF Appends
  <2>. HIDE DEF e
  <2>3. OfType(t, "invite") = OfType(s, "invite")
    BY <1>0, <2>2, AppendedKinds
  <2>4. AnswerIn(t) => AnswerIn(s) \/ of = "answer"
    <3>1. OfType(t, "select") = OfType(s, "select") \cup {Len(s) + 1} /\ t[Len(s) + 1] = e
      BY <1>0, <2>2, AppendedKinds
    <3>2. \A i \in DOMAIN s : t[i] = s[i]
      BY <1>0, <2>2, AppendedKinds
    <3>. QED
      BY <2>2, <3>1, <3>2 DEF AnswerIn, OfType
  <2>5. OfType(s, "invite") # {} => c.state = "CreateOffer" \/ c.over
    BY DEF InviteFirst, Invites, s, c
  <2>. QED
    BY <1>1, <2>1, <2>3, <2>4, <2>5
<1>5. CASE CallerInvites
  <2>1. Drops(s, t) /\ s[1].type = "invite" /\ d.state = "InviteSent" /\ d.over = c.over
        /\ overtaken' = overtaken
    BY <1>5 DEF CallerInvites, s, t, c, d
  <2>2. (AnswerIn(t) => AnswerIn(s)) /\ 1 \in OfType(s, "invite")
    BY <1>0, <2>1, DroppedKinds DEF OfType
  <2>. QED
    BY <1>1, <2>1, <2>2 DEF Conversation
<1>6. CASE CallerConnects
  <2>1. Drops(s, t) /\ s[1].type = "select" /\ s[1].of = "answer" /\ d.timer = c.timer
        /\ d.over = c.over /\ overtaken' = overtaken
    BY <1>6 DEF CallerConnects, s, t, c, d
  <2>2. Ahead(s)
    BY DEF InviteFirst, s
  <2>3. OfType(t, "invite") = {} /\ 1 \in OfType(s, "select")
    BY <1>0, <2>1, <2>2, DroppedKinds DEF OfType
  <2>4. AnswerIn(s)
    BY <2>1, <2>3 DEF AnswerIn
  <2>. QED
    BY <1>1, <2>1, <2>3, <2>4
<1>7. CASE OfferCreated
  <2>1. \A i \in DOMAIN s : s[i].type = "hangup"
    BY <1>7 DEF OfferCreated, QuietBefore, Uninvited, HangupsOnly, s
  <2>2. t = s \o <<[type |-> "invite", by |-> Caller]>> /\ d.state = "CreateOffer"
    <3>1. Becomes(Caller, "CreateOffer", call[Caller].timer, call[Caller].known, call[Caller].over)
      BY <1>7, CallUpdates, CallerTypes DEF OfferCreated, State
    <3>. QED
      BY <1>7, <3>1, CallerTypes DEF OfferCreated, SendEvents, Becomes, s, t, d
  <2>3. [type |-> "invite", by |-> Caller] \in Event
    BY EventsSent DEF Sends
  <2>. DEFINE e == [type |-> "invite", by |-> Caller]
  <2>4. e \in Event /\ e.type = "invite" /\ Appends(s, e, t)
    BY <2>2, <2>3 DEF Appends
  <2>. HIDE DEF e
  <2>6. OfType(t, "select") = OfType(s, "select")
    BY <1>0, <2>4, AppendedKinds
  <2>5. ~AnswerIn(t)
    BY <2>1, <2>6 DEF AnswerIn, OfType
  <2>. QED
    BY <2>2, <2>5 DEF Conversation
<1>. QED
  BY <1>2, <1>3, <1>4, <1>5, <1>6, <1>7 DEF CallerSteps

\* A callee connects by its link, which is not changed once it is there.
LEMMA ConnectedByLinkKept ==
  ASSUME Good, Good', OneSelected, ConnectedByLink, CallerSteps, NEW q \in Parties, Steady(q)
  PROVE  ConnectedByLink'
<1>. SUFFICES ASSUME NEW p \in Callees, call'[p].state = "Connected"
              PROVE  link' = p
  BY DEF ConnectedByLink
<1>1. link = p /\ p # Caller
  BY CallerTypes DEF Steady, ConnectedByLink, Linked
<1>2. CASE link' = link
  BY <1>1, <1>2
<1>3. CASE CallerConnects
  <2>1. 1 \in OfType(outbox[Caller], "select")
    BY <1>3, QueueTyped, DroppedKinds DEF CallerConnects, OfType
  <2>. QED
    BY <1>1, <2>1 DEF OneSelected, Selects
<1>. QED
  BY <1>2, <1>3 DEF CallerSteps, CallerKeeps, CallerDrops, CallerSelects, CallerInvites, OfferCreated

LEMMA CalleeTimersKept ==
  ASSUME Good, CalleeTimers, NEW q \in Parties, Steady(q)
  PROVE  CalleeTimers'
BY CallerTypes DEF Steady, CalleeTimers

\* The call of the caller does not become new again, nor does its stack make another offer.
LEMMA UninvitedBefore ==
  ASSUME Good, [Next]_vars, Uninvited'
  PROVE  Uninvited
<1>1. call'[Caller].state = "Fledgling" => call[Caller].state = "Fledgling"
  BY StepsAreSteady, CallerTypes DEF Steady
<1>. USE CallerTypes
<1>2. CASE Users
  BY <1>1, <1>2 DEF Users, CallWithVideo, Answer, AnswerIfRinging, Hangup, Uninvited
<1>3. stack \in [Parties -> {"none", "offer", "handleOffer"}]
  BY DEF Good, StackGood
<1>4. CASE Trouble
  BY <1>1, <1>3, <1>4
  DEF Trouble, EncryptionFails, StackFails, ConnectionLost, OnError, SendFails, Uninvited
<1>5. CASE System
  <2>1. ASSUME NEW p \in Callees, TryAnswer(p) \/ EncryptionEnsured(p)
        PROVE  stack' = stack
    BY <2>1 DEF TryAnswer, EncryptionEnsured, AnswerIfRinging
  <2>2. ASSUME NEW p \in Parties, ExpireCallInvite(p) \/ HomeserverAccepts(p) \/ Request(p)
        PROVE  stack' = stack
    BY <2>2 DEF ExpireCallInvite, HomeserverAccepts, Request, InviteSent, AnswerSelected, EndSent
  <2>3. ASSUME NEW p \in Parties, Stack(p) \/ Receive(p)
        PROVE  stack' \in {stack, [stack EXCEPT ![p] = "none"], [stack EXCEPT ![p] = "handleOffer"]}
    BY <2>3 DEF Stack, OfferCreated, OfferHandled, StackIsSilent, CallStackCallDidConnect,
                ConnectionEnds, OnError, Receive, HandleCallInvite, HandleCallAnswer,
                HandleCallSelectAnswer, HandleCallHangup, HandleCallReject
  <2>4. stack'[Caller] = "offer" => stack[Caller] = "offer"
    BY <1>3, <1>5, <2>1, <2>2, <2>3 DEF System
  <2>. QED
    BY <1>1, <2>4 DEF Uninvited
<1>6. CASE UNCHANGED vars
  BY <1>6 DEF vars, Uninvited
<1>. QED
  BY <1>2, <1>4, <1>5, <1>6 DEF Next

CalleesRest ==
  /\ \A p \in Callees : /\ call'[p] = call[p] /\ stack'[p] = stack[p]
                        /\ outbox'[p] = outbox[p] /\ inbox'[p] = inbox[p]
  /\ wants' = wants /\ ensuring' = ensuring
  /\ HangupsOnly(inbox'[Caller])

\* Nothing can be done by, or comes to, a device that has not been called.
LEMMA CalleesRestBefore ==
  ASSUME Good, [Next]_vars, QuietBefore, Uninvited, ~OfferCreated
  PROVE  CalleesRest
<1>0. /\ \A p \in Callees : /\ call[p] = Fledgling /\ stack[p] = "none"
                            /\ outbox[p] = <<>> /\ inbox[p] = <<>>
      /\ \A p \in Callees : /\ call[p].state = "Fledgling" /\ call[p].timer = FALSE
                            /\ call[p].known = FALSE
      /\ wants = {} /\ ensuring = {}
      /\ HangupsOnly(outbox[Caller]) /\ HangupsOnly(inbox[Caller])
  BY DEF QuietBefore, Fledgling
<1>1. /\ Caller \in Parties /\ Callees \subseteq Parties /\ Caller \notin Callees
      /\ \A p \in Parties : p = Caller \/ p \in Callees
      /\ outbox \in [Parties -> Seq(Event)] /\ inbox \in [Parties -> Seq(Event)]
      /\ call \in [Parties -> Call] /\ stack \in [Parties -> {"none", "offer", "handleOffer"}]
  BY PartyFacts, CallerTypes DEF Good, InboxGood, StackGood
<1>2. ASSUME NEW p \in Callees
      PROVE  /\ ~Answer(p) /\ ~Hangup(p) /\ ~TryAnswer(p) /\ ~EncryptionEnsured(p)
             /\ ~ExpireCallInvite(p) /\ ~Stack(p) /\ ~HomeserverAccepts(p) /\ ~Request(p)
             /\ ~Receive(p) /\ ~EncryptionFails(p) /\ ~StackFails(p) /\ ~ConnectionLost(p)
             /\ ~SendFails(p)
  <2>1. ~Answer(p) /\ ~Hangup(p) /\ ~TryAnswer(p) /\ ~EncryptionEnsured(p) /\ ~EncryptionFails(p)
    BY <1>0 DEF Answer, AnswerIfRinging, CanAnswer, Hangup, TryAnswer, EncryptionEnsured,
                EncryptionFails
  <2>2. ~ExpireCallInvite(p) /\ ~HomeserverAccepts(p) /\ ~SendFails(p) /\ ~StackFails(p)
    BY <1>0 DEF ExpireCallInvite, HomeserverAccepts, SendFails, StackFails
  <2>3. ~ConnectionLost(p) /\ ~ConnectionEnds(p)
    BY <1>0 DEF ConnectionLost, ConnectionEnds, OnError
  <2>4. ~Stack(p)
    BY <1>0, <1>1, <2>3 DEF Stack, OfferHandled, StackIsSilent, CallStackCallDidConnect
  <2>5. ~Request(p)
    <3>1. DOMAIN outbox[p] = {}
      BY <1>0
    <3>. QED
      BY <3>1 DEF Request
  <2>6. ~Receive(p)
    BY <1>0 DEF Receive, HandleCallInvite, HandleCallAnswer, HandleCallSelectAnswer,
                HandleCallHangup, HandleCallReject, Reads
  <2>. QED
    BY <2>1, <2>2, <2>3, <2>4, <2>5, <2>6
\* The caller's own steps.
<1>3. ASSUME CallWithVideo \/ Hangup(Caller) \/ StackFails(Caller) \/ ConnectionLost(Caller) \/ SendFails(Caller)
      PROVE  CalleesRest
  BY <1>0, <1>1, <1>3
  DEF CallWithVideo, Hangup, StackFails, ConnectionLost, OnError, SendFails, DidEncounterError,
      SendEvents, Dequeue, CalleesRest, queue, history
<1>4. ASSUME Stack(Caller)
      PROVE  CalleesRest
  BY <1>0, <1>1, <1>4
  DEF Stack, OfferHandled, StackIsSilent, CallStackCallDidConnect, ConnectionEnds, OnError,
      DidEncounterError, SendEvents, CalleesRest, queue
<1>5. ASSUME ExpireCallInvite(Caller)
      PROVE  CalleesRest
  BY <1>0, <1>1, <1>5 DEF ExpireCallInvite, CalleesRest, queue, HangupsOnly
<1>6. ASSUME Request(Caller)
      PROVE  CalleesRest
  BY <1>0, <1>1, <1>6
  DEF Request, InviteSent, AnswerSelected, EndSent, Dequeue, CalleesRest
<1>7. ASSUME Receive(Caller)
      PROVE  CalleesRest
  <2>1. inbox[Caller] # <<>> /\ Deliver(Caller) /\ wants' = wants /\ ensuring' = ensuring
    BY <1>7, Zenon DEF Receive, HandleCallInvite, HandleCallAnswer, HandleCallSelectAnswer,
                       HandleCallHangup, HandleCallReject, Reads
  <2>2. HangupsOnly(inbox'[Caller])
    <3>1. /\ Tail(inbox[Caller]) \in Seq(Event) /\ Len(Tail(inbox[Caller])) = Len(inbox[Caller]) - 1
          /\ \A i \in 1..Len(Tail(inbox[Caller])) : Tail(inbox[Caller])[i] = inbox[Caller][i + 1]
          /\ Len(inbox[Caller]) \in Nat /\ DOMAIN inbox[Caller] = 1..Len(inbox[Caller])
          /\ DOMAIN Tail(inbox[Caller]) = 1..Len(Tail(inbox[Caller]))
      BY <1>1, <2>1, HeadTailProperties, LenProperties
    <3>2. HangupsOnly(Tail(inbox[Caller])) /\ HangupsOnly(<<>>)
      BY <1>0, <3>1 DEF HangupsOnly
    <3>. QED
      BY <1>1, <2>1, <3>2 DEF Deliver
  <2>3. \A p \in Callees : inbox'[p] = inbox[p]
    BY <1>1, <2>1 DEF Deliver
  <2>4. \A p \in Callees : call'[p] = call[p] /\ stack'[p] = stack[p] /\ outbox'[p] = outbox[p]
    BY <1>1, <1>7 DEF Receive, HandleCallInvite, HandleCallAnswer, HandleCallSelectAnswer,
                      HandleCallHangup, HandleCallReject, Select, SendEvents
  <2>. QED
    BY <2>1, <2>2, <2>3, <2>4 DEF CalleesRest
<1>8. ASSUME HomeserverAccepts(Caller)
      PROVE  CalleesRest
  <2>. DEFINE e == Head(outbox[Caller])
  <2>1. /\ outbox[Caller] # <<>> /\ UNCHANGED <<call, stack, wants, ensuring>>
        /\ inbox' = [q \in Parties |-> IF Heeds(q, e) THEN Append(inbox[q], e) ELSE inbox[q]]
    BY <1>8 DEF HomeserverAccepts
  <2>2. e.type = "hangup" /\ e \in Event
    BY <1>0, <1>1, <2>1, FirstSent DEF HangupsOnly
  <2>3. \A p \in Callees : outbox'[p] = outbox[p]
    BY <1>1, <1>8 DEF HomeserverAccepts, Dequeue
  <2>4. \A p \in Callees : ~Heeds(p, e)
    BY <1>0, <2>2 DEF Heeds
  <2>5. HangupsOnly(inbox'[Caller])
    <3>1. HangupsOnly(Append(inbox[Caller], e))
      BY <1>0, <1>1, <2>2, AppendProperties DEF HangupsOnly
    <3>. QED
      BY <1>0, <1>1, <2>1, <3>1
  <2>. QED
    BY <1>1, <2>1, <2>3, <2>4, <2>5 DEF CalleesRest
<1>9. CASE UNCHANGED vars
  BY <1>0, <1>9 DEF vars, queue, CalleesRest
<1>. QED
  BY <1>1, <1>2, <1>3, <1>4, <1>5, <1>6, <1>7, <1>8, <1>9 DEF Next, Users, System, Trouble

LEMMA QuietBeforeKept ==
  ASSUME Good, Good', [Next]_vars, QuietBefore, CallerSteps
  PROVE  QuietBefore'
<1>. SUFFICES ASSUME Uninvited'
              PROVE  /\ \A p \in Callees : /\ call'[p] = Fledgling /\ stack'[p] = "none"
                                           /\ outbox'[p] = <<>> /\ inbox'[p] = <<>>
                     /\ wants' = {} /\ ensuring' = {}
                     /\ HangupsOnly(outbox'[Caller]) /\ HangupsOnly(inbox'[Caller])
  BY DEF QuietBefore, HangupsOnly, Fledgling
<1>1. Uninvited
  BY UninvitedBefore
<1>2. /\ \A p \in Callees : /\ call[p] = Fledgling /\ stack[p] = "none"
                            /\ outbox[p] = <<>> /\ inbox[p] = <<>>
      /\ wants = {} /\ ensuring = {}
      /\ HangupsOnly(outbox[Caller]) /\ HangupsOnly(inbox[Caller])
  BY <1>1 DEF QuietBefore
<1>3. ~OfferCreated
  <2>1. ASSUME OfferCreated
        PROVE  call'[Caller].state = "CreateOffer" /\ stack'[Caller] = "none"
    BY <2>1, CallerTypes DEF OfferCreated, Good, StackGood, Call
  <2>. QED
    BY <2>1 DEF Uninvited
<1>4. CalleesRest
  BY <1>1, <1>3, CalleesRestBefore
<1>5. HangupsOnly(outbox'[Caller])
  <2>. DEFINE s == outbox[Caller]
              t == outbox'[Caller]
  <2>1. s \in Seq(Event) /\ t \in Seq(Event) /\ \A i \in DOMAIN s : s[i].type = "hangup"
    BY <1>2, QueueTyped DEF HangupsOnly
  <2>. HIDE DEF s, t
  <2>2. /\ Len(s) \in Nat /\ Len(t) \in Nat /\ DOMAIN s = 1..Len(s) /\ DOMAIN t = 1..Len(t)
        /\ (s # <<>> => Len(s) >= 1)
    BY <2>1, LenProperties, EmptySeq
  <2>3. ASSUME Keeps(s, t) \/ Drops(s, t), NEW i \in DOMAIN t
        PROVE  t[i].type = "hangup"
    <3>1. CASE Keeps(s, t)
      <4>1. CASE i <= Len(s)
        BY <2>1, <2>2, <3>1, <4>1 DEF Keeps
      <4>2. CASE i > Len(s)
        BY <2>2, <3>1, <4>2 DEF Keeps, HangupsAfter
      <4>. QED
        BY <2>2, <4>1, <4>2
    <3>2. CASE Drops(s, t)
      <4>1. CASE i <= Len(s) - 1
        <5>1. i \in 1..(Len(s) - 1) /\ i + 1 \in DOMAIN s
          BY <2>2, <2>3, <4>1
        <5>2. t[i] = s[i + 1]
          BY <3>2, <5>1 DEF Drops
        <5>. QED
          BY <2>1, <5>1, <5>2
      <4>2. CASE i > Len(s) - 1
        BY <2>2, <3>2, <4>2 DEF Drops, HangupsAfter
      <4>. QED
        BY <2>2, <4>1, <4>2
    <3>. QED
      BY <2>3, <3>1, <3>2
  <2>4. ~CallerInvites /\ ~CallerConnects
    BY <2>1, <2>2 DEF CallerInvites, CallerConnects, s
  <2>5. ~CallerSelects
    <3>1. inbox[Caller] \in Seq(Event)
      BY PartyFacts DEF Good, InboxGood
    <3>2. inbox[Caller] # <<>> => Head(inbox[Caller]).type = "hangup"
      BY <1>2, <3>1 DEF HangupsOnly
    <3>. QED
      BY <3>2 DEF CallerSelects
  <2>. QED
    BY <1>3, <2>3, <2>4, <2>5 DEF CallerSteps, CallerKeeps, CallerDrops, HangupsOnly, s, t
<1>. QED
  BY <1>2, <1>4, <1>5 DEF CalleesRest

LEMMA InitIsInv == Init => Inv
<1>1. Init => TypeOK /\ Origins
  BY InitIsGood, GoodIsTypes
<1>2. Init => /\ outbox[Caller] = <<>> /\ inbox[Caller] = <<>> /\ selected = Caller /\ link = Caller
              /\ \A p \in Parties : call[p].state = "Fledgling" /\ call[p].timer = FALSE
  BY PartyFacts DEF Init, Fledgling
<1>3. Init => OneSelected /\ InviteFirst
  BY <1>2 DEF OneSelected, InviteFirst, Ahead, OneOf, Selects, Invites, OfType
<1>4. Init => QuietBefore
  BY PartyFacts DEF Init, QuietBefore, HangupsOnly
<1>5. Init => ConnectedByLink /\ TimerAccounted /\ CalleeTimers
  BY <1>2, PartyFacts
  DEF ConnectedByLink, TimerAccounted, CalleeTimers, Answered, AnswerIn, Invites, OfType, Conversation
<1>. QED
  BY <1>1, <1>3, <1>4, <1>5 DEF Inv

LEMMA InvKept ==
  ASSUME Inv, [Next]_vars
  PROVE  Inv'
<1>1. Good /\ Good'
  BY GoodIsTypes, TypesKept DEF Inv
<1>2. PICK q \in Parties : Steady(q)
  BY <1>1, StepsAreSteady
<1>3. CallerSteps
  BY <1>1, StepsOfCaller
<1>4. TypeOK' /\ Origins'
  BY <1>1, GoodIsTypes, PTL
<1>5. OneSelected' /\ ConnectedByLink' /\ InviteFirst' /\ TimerAccounted'
  BY <1>1, <1>2, <1>3, OneSelectedKept, ConnectedByLinkKept, InviteFirstKept, TimerAccountedKept
  DEF Inv
<1>6. QuietBefore' /\ CalleeTimers'
  BY <1>1, <1>2, <1>3, QuietBeforeKept, CalleeTimersKept DEF Inv
<1>. QED
  BY <1>4, <1>5, <1>6 DEF Inv

LEMMA InvAlways == Spec => []Inv
BY InitIsInv, InvKept, PTL DEF Spec

\* However answers, rejects, hang-ups and failures cross, one callee at most is connected,
\* and the caller with no other.
THEOREM OnlyOneTalks == Spec => []OneTalks
<1>1. Inv => OneTalks
  BY PartyFacts DEF Inv, ConnectedByLink, OneTalks
<1>. QED
  BY <1>1, InvAlways, PTL

\* No call in conversation is ended by the timer of its invite, unless the answer has
\* overtaken the request of the invite.
THEOREM NoConversationExpires == Spec => []NoLateExpiry
<1>1. Inv => NoLateExpiry
  <2>. SUFFICES ASSUME Inv, NEW p \in Parties, call[p].timer, call[p].state \in Conversation
                PROVE  call[p].over \/ (p = Caller /\ overtaken)
    BY DEF NoLateExpiry
  <2>1. CASE p = Caller
    BY <2>1 DEF Inv, TimerAccounted, Answered
  <2>2. CASE p # Caller
    BY <2>2, PartyFacts DEF Inv, CalleeTimers
  <2>. QED
    BY <2>1, <2>2
<1>. QED
  BY <1>1, InvAlways, PTL

(***************************************************************************)
(* Calls are resolved.  What must be true of a device is said of the       *)
(* values that it has, c for its call, k for its stack, s and r for its    *)
(* outbox and inbox, so that it can be said of the next ones.              *)
(***************************************************************************)
In(s) == {s[i] : i \in DOMAIN s}
Has(s, type) == \E e \in In(s) : e.type = type
AnswerOf(r, q) == \E e \in In(r) : e.type = "answer" /\ e.by = q

\* The call is over, or what ends it is on its way to the homeserver.
Ends(e) == e.type \in {"hangup", "reject"} \/ (e.type = "select" /\ e.of = "reject")
Ending(c, s) == c.over \/ \E e \in In(s) : Ends(e)

\* A device whose call has not begun is idle; one whose call has begun has its manager
\* listen, and no invite to read.  A callee that is not in conversation has its timer on.
Called(c, r) == c.state # "Fledgling" \/ r # <<>>
New(p, c, k, s, r, waits) ==
  /\ c = Fledgling /\ k = "none" /\ s = <<>> /\ ~waits
  /\ r # <<>> => p # Caller /\ Head(r).type = "invite" /\ ~Has(Tail(r), "invite")
Timed(c, k, ensures) ==
  /\ c.state \in {"WaitLocalMedia", "Ringing", "CreateAnswer"} => c.timer
  /\ k = "handleOffer" => c.state = "WaitLocalMedia"
  /\ ensures => c.state = "CreateAnswer"
  /\ c.state \notin {"CreateOffer", "InviteSent"}
Begun(p, c, k, r, ensures) ==
  /\ c.state = "Ended" => c.over
  /\ c.known \/ c.over
  /\ ~Has(r, "invite")
  /\ p # Caller => c.over \/ Timed(c, k, ensures)
SettledAs(p, c, k, s, r, waits, ensures) ==
  IF c.state = "Fledgling" THEN New(p, c, k, s, r, waits \/ ensures) ELSE Begun(p, c, k, r, ensures)
Settled(p) ==
  SettledAs(p, call[p], stack[p], outbox[p], inbox[p], p \in wants, p \in ensuring)

\* Something takes the caller to its next state.
Chosen(s) == \E e \in In(s) : e.type = "select" /\ e.of = "answer"
Taken(l, s) == l # Caller \/ Chosen(s)
OnItsWay(c, k, s, l, sel) ==
  \/ Ending(c, s)
  \/ /\ c.state = "WaitLocalMedia" => k = "offer"
     /\ c.state = "CreateOffer" => Has(s, "invite")
     /\ c.state = "InviteSent" => c.timer \/ Chosen(s)
     /\ c.state \in Conversation => l # Caller
     /\ c.state # "CreateAnswer"
     /\ sel # Caller => Taken(l, s)

\* The invite is not in the timeline.
Unsent(s, isAccepted) == Has(s, "invite") /\ ~(isAccepted /\ Head(s).type = "invite")
UncalledAs(c, k, s, isAccepted) == c.state = "Fledgling" \/ k = "offer" \/ Unsent(s, isAccepted)
Uncalled == UncalledAs(call[Caller], stack[Caller], outbox[Caller], Caller \in accepted)

Leaving(p) == Ending(call[p], outbox[p])
Answers(c, s) == c.state \in Conversation /\ ~Ending(c, s)
Followed(p) ==
  \/ Leaving(Caller) \/ Taken(link, outbox[Caller])
  \/ Has(outbox[p], "answer") \/ AnswerOf(inbox[Caller], p)

Resolving ==
  /\ \A p \in Parties : Settled(p)
  /\ OnItsWay(call[Caller], stack[Caller], outbox[Caller], link, selected)
  /\ Uncalled => \A p \in Callees : ~Called(call[p], inbox[p])
  /\ \A p, q \in Callees : Called(call[p], inbox[p]) => Called(call[q], inbox[q])
  /\ \A p \in Callees : Answers(call[p], outbox[p]) => Followed(p)
  /\ hungUp => \A p \in Parties : Leaving(p) \/ Leaving(Caller) \/ Has(inbox[p], "hangup")

LEMMA QueueContents ==
  ASSUME NEW S, NEW s \in Seq(S), NEW t \in Seq(S)
  PROVE  /\ In(s \o t) = In(s) \cup In(t) /\ s \o t \in Seq(S)
         /\ s # <<>> => /\ Head(s) \in In(s) /\ In(s) = {Head(s)} \cup In(Tail(s))
                        /\ Tail(s) \in Seq(S)
         /\ In(s) \subseteq S
<1>1. /\ Len(s) \in Nat /\ Len(t) \in Nat /\ DOMAIN s = 1..Len(s) /\ DOMAIN t = 1..Len(t)
      /\ Len(s \o t) = Len(s) + Len(t) /\ s \o t \in Seq(S)
      /\ \A i \in 1..(Len(s) + Len(t)) : (s \o t)[i] = IF i <= Len(s) THEN s[i] ELSE t[i - Len(s)]
  BY LenProperties, ConcatProperties
<1>2. DOMAIN (s \o t) = 1..(Len(s) + Len(t))
  BY <1>1, LenProperties
<1>3. In(s \o t) \subseteq In(s) \cup In(t)
  <2>. SUFFICES ASSUME NEW i \in 1..(Len(s) + Len(t))
                PROVE  (s \o t)[i] \in In(s) \cup In(t)
    BY <1>2 DEF In
  <2>1. CASE i <= Len(s)
    BY <1>1, <2>1 DEF In
  <2>2. CASE i > Len(s)
    <3>1. i - Len(s) \in DOMAIN t /\ (s \o t)[i] = t[i - Len(s)]
      BY <1>1, <2>2
    <3>. QED
      BY <3>1 DEF In
  <2>. QED
    BY <1>1, <2>1, <2>2
<1>4. In(s) \subseteq In(s \o t) /\ In(t) \subseteq In(s \o t)
  <2>1. ASSUME NEW i \in DOMAIN s
        PROVE  s[i] \in In(s \o t)
    <3>1. i \in DOMAIN (s \o t) /\ (s \o t)[i] = s[i]
      BY <1>1, <1>2
    <3>. QED
      BY <3>1 DEF In
  <2>2. ASSUME NEW i \in DOMAIN t
        PROVE  t[i] \in In(s \o t)
    <3>1. i + Len(s) \in DOMAIN (s \o t) /\ (s \o t)[i + Len(s)] = t[i]
      BY <1>1, <1>2
    <3>. QED
      BY <3>1 DEF In
  <2>. QED
    BY <2>1, <2>2 DEF In
<1>5. ASSUME s # <<>>
      PROVE  /\ Head(s) \in In(s) /\ In(s) = {Head(s)} \cup In(Tail(s)) /\ Tail(s) \in Seq(S)
  <2>1. /\ Tail(s) \in Seq(S) /\ Len(Tail(s)) = Len(s) - 1 /\ Head(s) = s[1] /\ Len(s) >= 1
        /\ \A i \in 1..Len(Tail(s)) : Tail(s)[i] = s[i + 1]
    BY <1>1, <1>5, HeadTailProperties, EmptySeq
  <2>2. DOMAIN Tail(s) = 1..(Len(s) - 1)
    BY <2>1, LenProperties
  <2>3. Head(s) \in In(s)
    BY <1>1, <2>1 DEF In
  <2>4. ASSUME NEW i \in DOMAIN Tail(s)
        PROVE  Tail(s)[i] \in In(s)
    <3>1. i + 1 \in DOMAIN s /\ Tail(s)[i] = s[i + 1]
      BY <1>1, <2>1, <2>2
    <3>. QED
      BY <3>1 DEF In
  <2>5. ASSUME NEW i \in DOMAIN s, i # 1
        PROVE  s[i] \in In(Tail(s))
    <3>1. i - 1 \in DOMAIN Tail(s) /\ Tail(s)[i - 1] = s[(i - 1) + 1] /\ (i - 1) + 1 = i
      BY <1>1, <2>1, <2>2, <2>5
    <3>. QED
      BY <3>1 DEF In
  <2>. QED
    BY <2>1, <2>3, <2>4, <2>5 DEF In
<1>6. In(s) \subseteq S
  BY <1>1, ElementOfSeq DEF In
<1>. QED
  BY <1>1, <1>3, <1>4, <1>5, <1>6

LEMMA DequeuedContents ==
  ASSUME NEW S, NEW s \in Seq(S), s # <<>>, NEW es \in Seq(S)
  PROVE  /\ In(Tail(s) \o es) = In(Tail(s)) \cup In(es)
         /\ In(s) = {Head(s)} \cup In(Tail(s))
<1>1. \A u \in Seq(S) : In(u \o es) = In(u) \cup In(es)
  BY QueueContents
<1>2. Tail(s) \in Seq(S) /\ In(s) = {Head(s)} \cup In(Tail(s))
  BY QueueContents
<1>. QED
  BY <1>1, <1>2, Zenon

LEMMA SmallQueues ==
  /\ In(<<>>) = {}
  /\ \A e : In(<<e>>) = {e}
  /\ \A e \in Event : <<e>> \in Seq(Event) /\ <<>> \in Seq(Event)
BY DEF In

LEMMA SentContents ==
  ASSUME NEW s \in Seq(Event), NEW e \in Event
  PROVE  In(s \o <<e>>) = In(s) \cup {e}
<1>1. <<e>> \in Seq(Event) /\ In(<<e>>) = {e}
  BY SmallQueues
<1>2. \A t \in Seq(Event) : In(s \o t) = In(s) \cup In(t)
  BY QueueContents
<1>. QED
  BY <1>1, <1>2, Zenon

LEMMA AppendedContents ==
  ASSUME NEW S, NEW s \in Seq(S), NEW e \in S
  PROVE  /\ In(Append(s, e)) = In(s) \cup {e} /\ Append(s, e) \in Seq(S) /\ Append(s, e) # <<>>
         /\ s # <<>> => Head(Append(s, e)) = Head(s) /\ Tail(Append(s, e)) = Append(Tail(s), e)
         /\ s = <<>> => Head(Append(s, e)) = e /\ Tail(Append(s, e)) = <<>>
<1>1. /\ Len(s) \in Nat /\ DOMAIN s = 1..Len(s) /\ Append(s, e) \in Seq(S)
      /\ Len(Append(s, e)) = Len(s) + 1
      /\ \A i \in 1..Len(s) : Append(s, e)[i] = s[i]
      /\ Append(s, e)[Len(s) + 1] = e
  BY LenProperties, AppendProperties
<1>2. DOMAIN Append(s, e) = 1..(Len(s) + 1)
  BY <1>1, LenProperties
<1>3. In(Append(s, e)) = In(s) \cup {e}
  BY <1>1, <1>2 DEF In
<1>4. Append(s, e) # <<>>
  BY <1>1, AppendProperties
<1>5. s = <<>> => Head(Append(s, e)) = e /\ Tail(Append(s, e)) = <<>>
  OBVIOUS
<1>6. s # <<>> => Head(Append(s, e)) = Head(s) /\ Tail(Append(s, e)) = Append(Tail(s), e)
  OBVIOUS
<1>. QED
  BY <1>1, <1>3, <1>4, <1>5, <1>6

LEMMA PartyTypes ==
  ASSUME Good, NEW p \in Parties
  PROVE  /\ outbox[p] \in Seq(Event) /\ inbox[p] \in Seq(Event)
         /\ In(outbox[p]) \subseteq Sends(p) /\ In(inbox[p]) \subseteq Hears(p)
         /\ outbox \in [Parties -> Seq(Event)] /\ inbox \in [Parties -> Seq(Event)]
         /\ call \in [Parties -> Call] /\ call[p] \in Call
         /\ stack \in [Parties -> {"none", "offer", "handleOffer"}]
         /\ p \in accepted => outbox[p] # <<>>
         /\ Caller \in Parties /\ Callees \subseteq Parties /\ Caller \notin Callees
         /\ p # Caller <=> p \in Callees
<1>1. outbox[p] \in Seq(Sends(p)) /\ inbox[p] \in Seq(Hears(p))
  BY DEF Good, OutboxGood, InboxGood
<1>2. In(outbox[p]) \subseteq Sends(p) /\ In(inbox[p]) \subseteq Hears(p)
  BY <1>1, QueueContents
<1>3. Caller \in Parties /\ Callees \subseteq Parties /\ Caller \notin Callees /\ (p # Caller <=> p \in Callees)
  BY PartyFacts, CallsAssumption
<1>. QED
  BY <1>2, <1>3 DEF Good, OutboxGood, InboxGood, CallsGood, StackGood

(***************************************************************************)
(* A step of one device, and what it must keep.                            *)
(***************************************************************************)
Others(p) ==
  \A q \in Parties \ {p} :
    /\ call'[q] = call[q] /\ stack'[q] = stack[q] /\ outbox'[q] = outbox[q] /\ inbox'[q] = inbox[q]
    /\ q \in wants' <=> q \in wants
    /\ q \in ensuring' <=> q \in ensuring
    /\ q \in accepted' <=> q \in accepted

CalleeGoes(p) ==
  /\ link' = link /\ selected' = selected
  /\ Called(call'[p], inbox'[p]) => Called(call[p], inbox[p])
  /\ Answers(call'[p], outbox'[p]) =>
       \/ Has(outbox'[p], "answer")
       \/ Answers(call[p], outbox[p]) /\ ~Has(outbox[p], "answer")

CallerGoes ==
  /\ OnItsWay(call'[Caller], stack'[Caller], outbox'[Caller], link', selected')
  /\ UncalledAs(call'[Caller], stack'[Caller], outbox'[Caller], Caller \in accepted') => Uncalled
  /\ Taken(link, outbox[Caller]) =>
       Taken(link', outbox'[Caller]) \/ Ending(call'[Caller], outbox'[Caller])
  /\ \A q \in Callees : AnswerOf(inbox[Caller], q) =>
       \/ Taken(link', outbox'[Caller]) \/ Ending(call'[Caller], outbox'[Caller])
       \/ AnswerOf(inbox'[Caller], q)

Goes(p) ==
  /\ Others(p) /\ hungUp' = hungUp
  /\ SettledAs(p, call'[p], stack'[p], outbox'[p], inbox'[p], p \in wants', p \in ensuring')
  /\ Ending(call[p], outbox[p]) => Ending(call'[p], outbox'[p])
  /\ Has(inbox[p], "hangup") => Ending(call'[p], outbox'[p]) \/ Has(inbox'[p], "hangup")
  /\ Called(call[p], inbox[p]) => Called(call'[p], inbox'[p])
  /\ IF p = Caller THEN CallerGoes ELSE CalleeGoes(p)

\* Resolving in the next state, said of the values of the variables.
ResolvingNext ==
  /\ \A p \in Parties :
       SettledAs(p, call'[p], stack'[p], outbox'[p], inbox'[p], p \in wants', p \in ensuring')
  /\ OnItsWay(call'[Caller], stack'[Caller], outbox'[Caller], link', selected')
  /\ UncalledAs(call'[Caller], stack'[Caller], outbox'[Caller], Caller \in accepted') =>
       \A p \in Callees : ~Called(call'[p], inbox'[p])
  /\ \A p, q \in Callees : Called(call'[p], inbox'[p]) => Called(call'[q], inbox'[q])
  /\ \A p \in Callees : Answers(call'[p], outbox'[p]) =>
       \/ Ending(call'[Caller], outbox'[Caller]) \/ Taken(link', outbox'[Caller])
       \/ Has(outbox'[p], "answer") \/ AnswerOf(inbox'[Caller], p)
  /\ hungUp' => \A p \in Parties : \/ Ending(call'[p], outbox'[p])
                                   \/ Ending(call'[Caller], outbox'[Caller])
                                   \/ Has(inbox'[p], "hangup")

LEMMA NextMeansNext == ResolvingNext <=> Resolving'
BY DEF ResolvingNext, Resolving, Settled, SettledAs, New, Begun, Timed, OnItsWay, Uncalled, UncalledAs,
       Unsent, Called, Answers, Followed, Leaving, Ending, Taken, Chosen, Has, AnswerOf, In, Ends, Conversation,
       Fledgling

LEMMA GoingKeepsResolving ==
  ASSUME Good, Resolving, NEW p \in Parties, Goes(p)
  PROVE  ResolvingNext
<1>0. Caller \in Parties /\ Callees \subseteq Parties /\ Caller \notin Callees
      /\ (p # Caller <=> p \in Callees)
  BY PartyTypes
<1>1. \A q \in Parties :
        SettledAs(q, call'[q], stack'[q], outbox'[q], inbox'[q], q \in wants', q \in ensuring')
  <2>. SUFFICES ASSUME NEW q \in Parties, q # p
                PROVE  SettledAs(q, call'[q], stack'[q], outbox'[q], inbox'[q], q \in wants', q \in ensuring')
    BY DEF Goes
  <2>1. SettledAs(q, call[q], stack[q], outbox[q], inbox[q], q \in wants, q \in ensuring)
    BY DEF Resolving, Settled
  <2>2. /\ call'[q] = call[q] /\ stack'[q] = stack[q] /\ outbox'[q] = outbox[q] /\ inbox'[q] = inbox[q]
        /\ (q \in wants') = (q \in wants) /\ (q \in ensuring') = (q \in ensuring)
    BY DEF Goes, Others
  <2>. QED
    BY <2>1, <2>2
<1>2. /\ OnItsWay(call'[Caller], stack'[Caller], outbox'[Caller], link', selected')
      /\ UncalledAs(call'[Caller], stack'[Caller], outbox'[Caller], Caller \in accepted') => Uncalled
      /\ Ending(call[Caller], outbox[Caller]) => Ending(call'[Caller], outbox'[Caller])
      /\ Taken(link, outbox[Caller]) =>
           Taken(link', outbox'[Caller]) \/ Ending(call'[Caller], outbox'[Caller])
      /\ \A q \in Callees : AnswerOf(inbox[Caller], q) =>
           \/ Taken(link', outbox'[Caller]) \/ Ending(call'[Caller], outbox'[Caller])
           \/ AnswerOf(inbox'[Caller], q)
  <2>1. CASE p = Caller
    BY <2>1 DEF Goes, CallerGoes
  <2>2. CASE p # Caller
    <3>1. /\ call'[Caller] = call[Caller] /\ stack'[Caller] = stack[Caller]
          /\ outbox'[Caller] = outbox[Caller] /\ inbox'[Caller] = inbox[Caller]
          /\ (Caller \in accepted') = (Caller \in accepted) /\ link' = link /\ selected' = selected
      BY <1>0, <2>2 DEF Goes, Others, CalleeGoes
    <3>. QED
      BY <3>1 DEF Resolving, Uncalled
  <2>. QED
    BY <2>1, <2>2
<1>3. \A q \in Callees : /\ Called(call'[q], inbox'[q]) <=> Called(call[q], inbox[q])
                         /\ q # p => call'[q] = call[q] /\ outbox'[q] = outbox[q]
  BY <1>0 DEF Goes, Others, CalleeGoes
<1>4. /\ UncalledAs(call'[Caller], stack'[Caller], outbox'[Caller], Caller \in accepted') =>
           \A q \in Callees : ~Called(call'[q], inbox'[q])
      /\ \A q, r \in Callees : Called(call'[q], inbox'[q]) => Called(call'[r], inbox'[r])
  BY <1>2, <1>3 DEF Resolving
<1>5. ASSUME NEW q \in Callees, Answers(call'[q], outbox'[q])
      PROVE  \/ Ending(call'[Caller], outbox'[Caller]) \/ Taken(link', outbox'[Caller])
             \/ Has(outbox'[q], "answer") \/ AnswerOf(inbox'[Caller], q)
  <2>1. CASE q = p
    BY <1>0, <1>2, <1>5, <2>1 DEF Goes, CalleeGoes, Resolving, Followed, Leaving
  <2>2. CASE q # p
    BY <1>2, <1>3, <1>5, <2>2 DEF Resolving, Followed, Leaving
  <2>. QED
    BY <2>1, <2>2
<1>6. ASSUME hungUp', NEW q \in Parties
      PROVE  \/ Ending(call'[q], outbox'[q]) \/ Ending(call'[Caller], outbox'[Caller])
             \/ Has(inbox'[q], "hangup")
  <2>1. Ending(call[q], outbox[q]) \/ Ending(call[Caller], outbox[Caller]) \/ Has(inbox[q], "hangup")
    BY <1>6 DEF Goes, Resolving, Leaving
  <2>. QED
    BY <1>2, <2>1 DEF Goes, Others
<1>. QED
  BY <1>1, <1>2, <1>4, <1>5, <1>6 DEF ResolvingNext

(***************************************************************************)
(* The ends of a call.                                                     *)
(***************************************************************************)
LEMMA HangupEnds ==
  ASSUME Good, NEW p \in Parties
  PROVE  /\ HangupWithReason(p) \in Seq(Event) /\ ~Has(HangupWithReason(p), "invite")
         /\ call[p].state # "Ended" => \E e \in In(HangupWithReason(p)) : Ends(e)
         /\ HangupWithReason(p) = <<>> => call[p].state = "Ended"
<1>1. HangupWithReason(p) \in Seq(Event)
  BY HangupSent, SequencesOfEvents
<1>2. CASE call[p].state = "Ended"
  <2>1. HangupWithReason(p) = <<>>
    BY <1>2, Zenon DEF HangupWithReason
  <2>. QED
    BY <1>1, <1>2, <2>1, SmallQueues DEF Has
<1>3. CASE call[p].state # "Ended"
  <2>1. PICK type \in {"reject", "hangup"} : HangupWithReason(p) = <<[type |-> type, by |-> p]>>
    BY <1>3, Zenon DEF HangupWithReason
  <2>2. In(HangupWithReason(p)) = {[type |-> type, by |-> p]}
    BY <2>1, SmallQueues
  <2>3. HangupWithReason(p) # <<>>
    BY <2>1
  <2>. QED
    BY <1>1, <1>3, <2>2, <2>3 DEF Has, Ends
<1>. QED
  BY <1>2, <1>3

\* The queue of the caller, before and after: only OfferCreated makes an invite.
LEMMA UnsentBefore ==
  ASSUME Good, InviteFirst, NEW es \in Seq(Event), ~Has(es, "invite"),
         \/ /\ outbox'[Caller] = outbox[Caller] \o es
            /\ Caller \in accepted' <=> Caller \in accepted
         \/ outbox[Caller] # <<>> /\ outbox'[Caller] = Tail(outbox[Caller]) \o es,
         Unsent(outbox'[Caller], Caller \in accepted')
  PROVE  Unsent(outbox[Caller], Caller \in accepted)
<1>. DEFINE s == outbox[Caller]
            t == outbox'[Caller]
<1>1. s \in Seq(Event) /\ (Caller \in accepted => s # <<>>)
  BY PartyTypes, PartyFacts
<1>2. Has(t, "invite")
  BY DEF Unsent
<1>3. CASE t = s \o es /\ (Caller \in accepted' <=> Caller \in accepted)
  <2>1. Has(s, "invite")
    <3>1. In(t) = In(s) \cup In(es)
      BY <1>1, <1>3, QueueContents
    <3>. QED
      BY <1>2, <3>1 DEF Has
  <2>2. s # <<>> => Head(t) = Head(s)
    BY <1>1, <1>3, ConcatProperties, HeadTailProperties
  <2>. QED
    BY <1>1, <1>3, <2>1, <2>2 DEF Unsent
<1>4. CASE s # <<>> /\ t = Tail(s) \o es
  <2>1. Tail(s) \in Seq(Event) /\ In(s) = {Head(s)} \cup In(Tail(s))
    BY <1>1, <1>4, QueueContents
  <2>2. In(t) = In(Tail(s)) \cup In(es)
    BY <1>1, <1>4, DequeuedContents
  <2>3. PICK i \in DOMAIN Tail(s) : Tail(s)[i].type = "invite"
    BY <1>2, <2>2 DEF Has, In
  <2>4. /\ Len(s) \in Nat /\ DOMAIN s = 1..Len(s) /\ DOMAIN Tail(s) = 1..(Len(s) - 1)
        /\ Tail(s)[i] = s[i + 1] /\ Head(s) = s[1]
    <3>1. /\ Len(s) \in Nat /\ DOMAIN s = 1..Len(s) /\ Len(Tail(s)) = Len(s) - 1
          /\ DOMAIN Tail(s) = 1..Len(Tail(s)) /\ Head(s) = s[1]
          /\ \A j \in 1..Len(Tail(s)) : Tail(s)[j] = s[j + 1]
      BY <1>1, <1>4, <2>1, LenProperties, HeadTailProperties
    <3>. QED
      BY <2>3, <3>1
  <2>5. s[1].type = "hangup"
    <3>1. i + 1 \in OfType(s, "invite") /\ 1 \in DOMAIN s /\ 1 < i + 1
      BY <2>3, <2>4 DEF OfType
    <3>2. Ahead(s)
      BY DEF InviteFirst
    <3>. QED
      BY <3>1, <3>2 DEF Ahead
  <2>6. Has(s, "invite")
    BY <2>1, <2>2, <1>2 DEF Has
  <2>. QED
    BY <2>4, <2>5, <2>6 DEF Unsent
<1>. QED
  BY <1>3, <1>4

\* A device whose call is on its way out.
LEMMA EndingGoes ==
  ASSUME Good, NEW p \in Parties, Others(p), hungUp' = hungUp,
         call[p].state # "Fledgling", call'[p].state # "Fledgling",
         Begun(p, call'[p], stack'[p], inbox'[p], p \in ensuring'),
         Ending(call'[p], outbox'[p]),
         p # Caller => link' = link /\ selected' = selected,
         p = Caller => /\ stack'[p] = "offer" => stack[p] = "offer"
                       /\ Unsent(outbox'[p], p \in accepted') => Unsent(outbox[p], p \in accepted)
  PROVE  Goes(p)
<1>1. SettledAs(p, call'[p], stack'[p], outbox'[p], inbox'[p], p \in wants', p \in ensuring')
  BY DEF SettledAs
<1>2. Called(call[p], inbox[p]) /\ Called(call'[p], inbox'[p])
  BY DEF Called
<1>3. p # Caller => CalleeGoes(p)
  BY <1>2 DEF CalleeGoes, Answers
<1>4. p = Caller => CallerGoes
  BY DEF CallerGoes, OnItsWay, UncalledAs, Uncalled
<1>. QED
  BY <1>1, <1>2, <1>3, <1>4 DEF Goes

\* What is known of a device whose call has begun.
LEMMA BegunNow ==
  ASSUME Resolving, NEW p \in Parties, call[p].state # "Fledgling"
  PROVE  Begun(p, call[p], stack[p], inbox[p], p \in ensuring)
BY DEF Resolving, Settled, SettledAs

LEMMA NewNow ==
  ASSUME Resolving, NEW p \in Parties, call[p].state = "Fledgling"
  PROVE  /\ call[p] = Fledgling /\ stack[p] = "none" /\ outbox[p] = <<>>
         /\ p \notin wants /\ p \notin ensuring
         /\ inbox[p] # <<>> => p # Caller /\ Head(inbox[p]).type = "invite" /\ ~Has(Tail(inbox[p]), "invite")
         /\ call[p].timer = FALSE /\ call[p].known = FALSE /\ call[p].over = FALSE
BY DEF Resolving, Settled, SettledAs, New, Fledgling

\* hangupWithReason, of a user or of didEncounterError.
LEMMA HangingUpGoes ==
  ASSUME Good, Inv, Resolving, NEW p \in Parties, call[p].state # "Fledgling",
         SendEvents(p, HangupWithReason(p)),
         UNCHANGED <<call, inbox, accepted, hungUp, link, selected, wants>>,
         ensuring' \in {ensuring, ensuring \ {p}},
         stack' \in {stack, [stack EXCEPT ![p] = "none"]}
  PROVE  Goes(p)
<1>1. /\ outbox[p] \in Seq(Event) /\ outbox'[p] = outbox[p] \o HangupWithReason(p)
      /\ \A q \in Parties \ {p} : outbox'[q] = outbox[q] /\ stack'[q] = stack[q]
      /\ stack'[p] \in {stack[p], "none"}
  BY PartyTypes DEF SendEvents
<1>2. HangupWithReason(p) \in Seq(Event) /\ ~Has(HangupWithReason(p), "invite")
  BY HangupEnds
<1>3. Begun(p, call[p], stack[p], inbox[p], p \in ensuring)
  BY BegunNow
<1>4. Begun(p, call'[p], stack'[p], inbox'[p], p \in ensuring')
  BY <1>1, <1>3 DEF Begun, Timed
<1>5. Ending(call'[p], outbox'[p])
  <2>1. CASE call[p].state = "Ended"
    BY <1>3, <2>1 DEF Begun, Ending
  <2>2. CASE call[p].state # "Ended"
    <3>1. In(outbox'[p]) = In(outbox[p]) \cup In(HangupWithReason(p))
      BY <1>1, <1>2, QueueContents
    <3>. QED
      BY <2>2, <3>1, HangupEnds DEF Ending
  <2>. QED
    BY <2>1, <2>2
<1>6. p = Caller /\ Unsent(outbox'[p], p \in accepted') => Unsent(outbox[p], p \in accepted)
  BY <1>1, <1>2, UnsentBefore DEF Inv
<1>7. Others(p)
  BY <1>1 DEF Others
<1>. QED
  BY <1>1, <1>4, <1>5, <1>6, <1>7, EndingGoes

LEMMA HangsUpGoes ==
  ASSUME Good, Inv, Resolving, NEW p \in Parties,
         \/ Hangup(p) \/ StackFails(p) \/ ConnectionLost(p) \/ ConnectionEnds(p)
         \/ p \in Callees /\ EncryptionFails(p)
  PROVE  Goes(p)
<1>1. call[p].state # "Fledgling"
  BY NewNow DEF Hangup, StackFails, ConnectionLost, ConnectionEnds, EncryptionFails, OnError, Conversation
<1>2. /\ SendEvents(p, HangupWithReason(p))
      /\ UNCHANGED <<call, inbox, accepted, hungUp, link, selected, wants>>
      /\ ensuring' \in {ensuring, ensuring \ {p}}
      /\ stack' \in {stack, [stack EXCEPT ![p] = "none"]}
  BY DEF Hangup, StackFails, ConnectionLost, ConnectionEnds, EncryptionFails, OnError,
         DidEncounterError, history
<1>. QED
  BY <1>1, <1>2, HangingUpGoes

LEMMA SendFailsGoes ==
  ASSUME Good, Inv, Resolving, NEW p \in Parties, SendFails(p)
  PROVE  Goes(p)
<1>1. call[p].state # "Fledgling" /\ outbox[p] # <<>>
  BY NewNow DEF SendFails
<1>2. /\ outbox[p] \in Seq(Event) /\ outbox'[p] = Tail(outbox[p]) \o HangupWithReason(p)
      /\ \A q \in Parties \ {p} : outbox'[q] = outbox[q]
      /\ UNCHANGED <<call, stack, wants, ensuring, inbox, hungUp, link>>
      /\ accepted' = accepted \ {p}
  BY PartyTypes DEF SendFails, Dequeue, history
<1>3. HangupWithReason(p) \in Seq(Event) /\ ~Has(HangupWithReason(p), "invite")
  BY HangupEnds
<1>4. Begun(p, call[p], stack[p], inbox[p], p \in ensuring)
  BY <1>1, BegunNow
<1>5. Ending(call'[p], outbox'[p])
  <2>1. CASE call[p].state = "Ended"
    BY <1>2, <1>4, <2>1 DEF Begun, Ending
  <2>2. CASE call[p].state # "Ended"
    <3>1. In(outbox'[p]) = In(Tail(outbox[p])) \cup In(HangupWithReason(p))
      BY <1>1, <1>2, <1>3, DequeuedContents
    <3>. QED
      BY <2>2, <3>1, HangupEnds DEF Ending
  <2>. QED
    BY <2>1, <2>2
<1>6. p = Caller /\ Unsent(outbox'[p], p \in accepted') => Unsent(outbox[p], p \in accepted)
  BY <1>1, <1>2, <1>3, UnsentBefore DEF Inv
<1>7. Others(p)
  BY <1>2 DEF Others
<1>8. p # Caller => selected' = selected
  BY <1>1, FirstSent DEF SendFails, Sends
<1>. QED
  BY <1>1, <1>2, <1>4, <1>5, <1>6, <1>7, <1>8, EndingGoes

LEMMA ExpiryGoes ==
  ASSUME Good, Inv, Resolving, NEW p \in Parties, ExpireCallInvite(p)
  PROVE  Goes(p)
<1>1. call[p].state # "Fledgling"
  BY NewNow DEF ExpireCallInvite
<1>2. Becomes(p, "Ended", FALSE, FALSE, TRUE)
  BY PartyTypes, ExpiredCall
<1>3. /\ UNCHANGED <<stack, wants, ensuring, selected, link, outbox, accepted, hungUp>>
      /\ inbox'[p] = <<>> /\ \A q \in Parties \ {p} : inbox'[q] = inbox[q]
  BY PartyTypes DEF ExpireCallInvite, queue, history
<1>4. Begun(p, call'[p], stack'[p], inbox'[p], p \in ensuring')
  BY <1>2, <1>3, SmallQueues DEF Becomes, Begun, Has
<1>5. Ending(call'[p], outbox'[p])
  BY <1>2 DEF Becomes, Ending
<1>6. Others(p)
  BY <1>2, <1>3 DEF Becomes, Others
<1>. QED
  BY <1>1, <1>2, <1>3, <1>4, <1>5, <1>6, EndingGoes DEF Becomes

\* What is sent last of a call.
LEMMA EndSentGoes ==
  ASSUME Good, Inv, Resolving, NEW p \in Parties, NEW e, EndSent(p, e)
  PROVE  Goes(p)
<1>1. /\ Becomes(p, "Ended", FALSE, call[p].known, TRUE)
      /\ outbox[p] # <<>> /\ outbox[p] \in Seq(Event)
  BY PartyTypes, CallUpdates DEF EndSent, Sent
<1>2. call[p].state # "Fledgling"
  BY <1>1, NewNow
<1>3. /\ UNCHANGED <<stack, wants, ensuring, selected, link, inbox, hungUp>>
      /\ accepted' = accepted \ {p} /\ outbox'[p] = Tail(outbox[p]) \o <<>>
      /\ \A q \in Parties \ {p} : outbox'[q] = outbox[q]
  BY PartyTypes DEF EndSent, Sent, Dequeue, history
<1>4. Begun(p, call[p], stack[p], inbox[p], p \in ensuring)
  BY <1>2, BegunNow
<1>5. Begun(p, call'[p], stack'[p], inbox'[p], p \in ensuring')
  BY <1>1, <1>3, <1>4 DEF Becomes, Begun
<1>6. Ending(call'[p], outbox'[p])
  BY <1>1 DEF Becomes, Ending
<1>7. Others(p)
  BY <1>1, <1>3 DEF Becomes, Others
<1>8. p = Caller /\ Unsent(outbox'[p], p \in accepted') => Unsent(outbox[p], p \in accepted)
  <2>1. <<>> \in Seq(Event) /\ ~Has(<<>>, "invite")
    BY EmptySeq, SmallQueues DEF Has
  <2>. QED
    BY <1>1, <1>3, <2>1, UnsentBefore DEF Inv
<1>. QED
  BY <1>1, <1>2, <1>3, <1>5, <1>6, <1>7, <1>8, EndingGoes DEF Becomes

(***************************************************************************)
(* A callee that answers, and the call stacks.                             *)
(***************************************************************************)
LEMMA CalleeIsLive ==
  ASSUME Good, NEW p \in Callees, Others(p), hungUp' = hungUp, link' = link, selected' = selected,
         call[p].state # "Fledgling", call'[p].state # "Fledgling",
         Begun(p, call'[p], stack'[p], inbox'[p], p \in ensuring'),
         Ending(call[p], outbox[p]) => Ending(call'[p], outbox'[p]),
         Has(inbox[p], "hangup") => Ending(call'[p], outbox'[p]) \/ Has(inbox'[p], "hangup"),
         Answers(call'[p], outbox'[p]) =>
           Has(outbox'[p], "answer") \/ (Answers(call[p], outbox[p]) /\ ~Has(outbox[p], "answer"))
  PROVE  Goes(p)
<1>1. SettledAs(p, call'[p], stack'[p], outbox'[p], inbox'[p], p \in wants', p \in ensuring')
  BY DEF SettledAs
<1>2. Called(call[p], inbox[p]) /\ Called(call'[p], inbox'[p]) /\ p # Caller
  BY PartyTypes, PartyFacts DEF Called
<1>. QED
  BY <1>1, <1>2 DEF Goes, CalleeGoes

LEMMA AnswerCallGoes ==
  ASSUME Good, Resolving, NEW p \in Callees, AnswerCall(p), call[p].state # "Fledgling",
         UNCHANGED <<stack, inbox, accepted, hungUp, link, selected>>,
         call[p].over \/ (call[p].state \in {"Ringing", "CreateAnswer"} /\ p \notin ensuring'),
         \A q \in Parties \ {p} : /\ q \in wants' <=> q \in wants
                                  /\ q \in ensuring' <=> q \in ensuring
  PROVE  Goes(p)
<1>0. p \in Parties /\ p # Caller /\ outbox[p] \in Seq(Event) /\ call \in [Parties -> Call]
      /\ outbox \in [Parties -> Seq(Event)]
  BY PartyTypes, PartyFacts
<1>1. Becomes(p, "Connecting", FALSE, call[p].known, call[p].over)
  BY <1>0, CallUpdates DEF AnswerCall, State
<1>2. Begun(p, call[p], stack[p], inbox[p], p \in ensuring)
  BY <1>0, BegunNow
<1>3. Begun(p, call'[p], stack'[p], inbox'[p], p \in ensuring')
  BY <1>1, <1>2 DEF Becomes, Begun, Timed
<1>4. PICK ok \in BOOLEAN : CreateAnswer(p, ok)
  BY DEF AnswerCall
<1>5. CASE call[p].over
  <2>1. outbox' = outbox
    BY <1>4, <1>5 DEF CreateAnswer
  <2>2. Ending(call'[p], outbox'[p])
    BY <1>1, <1>5 DEF Becomes, Ending
  <2>3. Others(p)
    BY <1>1, <2>1 DEF Becomes, Others
  <2>. QED
    BY <1>0, <1>1, <1>3, <2>2, <2>3, CalleeIsLive DEF Becomes, Answers
<1>6. CASE ~call[p].over
  <2>1. PICK type \in {"answer", "hangup"} : SendEvents(p, <<[type |-> type, by |-> p]>>)
    BY <1>4, <1>6 DEF CreateAnswer
  <2>. DEFINE e == [type |-> type, by |-> p]
  <2>2. e \in Event /\ e.type = type
    BY EventsSent DEF Sends
  <2>. HIDE DEF e
  <2>3. outbox'[p] = outbox[p] \o <<e>> /\ \A q \in Parties \ {p} : outbox'[q] = outbox[q]
    BY <1>0, <2>1 DEF SendEvents, e
  <2>4. In(outbox'[p]) = In(outbox[p]) \cup {e}
    BY <1>0, <2>2, <2>3, SentContents
  <2>5. Ending(call[p], outbox[p]) => Ending(call'[p], outbox'[p])
    BY <1>1, <2>4 DEF Becomes, Ending
  <2>6. Has(outbox'[p], "answer") \/ Ending(call'[p], outbox'[p])
    BY <2>2, <2>4 DEF Has, Ending, Ends
  <2>7. Others(p)
    BY <1>1, <2>3 DEF Becomes, Others
  <2>. QED
    BY <1>0, <1>1, <1>3, <2>5, <2>6, <2>7, CalleeIsLive DEF Becomes, Answers
<1>. QED
  BY <1>5, <1>6

\* Steps of a callee that change its call, its stack or the retries of its answer only.
LEMMA CalleeGoesOn ==
  ASSUME Good, NEW p \in Callees, NEW state, NEW timer,
         Becomes(p, state, timer, call[p].known, call[p].over), state # "Fledgling",
         call[p].state # "Fledgling", state \in Conversation => call[p].state \in Conversation,
         UNCHANGED <<outbox, inbox, accepted, hungUp, link, selected>>,
         \A q \in Parties \ {p} : /\ q \in wants' <=> q \in wants
                                  /\ q \in ensuring' <=> q \in ensuring
                                  /\ stack'[q] = stack[q],
         Begun(p, call'[p], stack'[p], inbox'[p], p \in ensuring')
  PROVE  Goes(p)
<1>1. p \in Parties /\ Others(p)
  BY PartyFacts DEF Others, Becomes
<1>2. Ending(call[p], outbox[p]) <=> Ending(call'[p], outbox'[p])
  BY DEF Ending, Becomes
<1>3. Answers(call'[p], outbox'[p]) => Answers(call[p], outbox[p])
  BY <1>2 DEF Answers, Becomes
<1>. QED
  BY <1>1, <1>2, <1>3, CalleeIsLive DEF Becomes

LEMMA AnswerIfRingingGoes ==
  ASSUME Good, Resolving, NEW p \in Callees, AnswerIfRinging(p),
         \A q \in Parties \ {p} : q \in wants' <=> q \in wants
  PROVE  Goes(p)
<1>1. p \in Parties /\ call \in [Parties -> Call] /\ call[p].state \in {"Ringing", "CreateAnswer"}
      /\ (call[p].state = "CreateAnswer" => Encrypted)
  BY PartyTypes, PartyFacts DEF AnswerIfRinging, CanAnswer
<1>2. Begun(p, call[p], stack[p], inbox[p], p \in ensuring) /\ p # Caller
  BY <1>1, BegunNow, PartyTypes
<1>3. UNCHANGED <<stack, inbox, accepted, hungUp, link, selected>>
  BY DEF AnswerIfRinging, history
<1>4. CASE Encrypted
  <2>1. /\ Becomes(p, "CreateAnswer", call[p].timer, call[p].known, call[p].over)
        /\ outbox' = outbox /\ ensuring' = ensuring \cup {p}
    BY <1>1, <1>4, CallUpdates DEF AnswerIfRinging, State
  <2>2. Begun(p, call'[p], stack'[p], inbox'[p], p \in ensuring')
    BY <1>1, <1>2, <1>3, <2>1 DEF Becomes, Begun, Timed
  <2>. QED
    BY <1>1, <1>3, <2>1, <2>2, CalleeGoesOn DEF Conversation
<1>5. CASE ~Encrypted
  <2>1. AnswerCall(p) /\ ensuring' = ensuring
    BY <1>5 DEF AnswerIfRinging
  <2>2. call[p].over \/ p \notin ensuring'
    BY <1>1, <1>2, <1>5, <2>1 DEF Begun, Timed
  <2>. QED
    BY <1>1, <1>3, <2>1, <2>2, AnswerCallGoes
<1>. QED
  BY <1>4, <1>5

LEMMA AnsweringGoes ==
  ASSUME Good, Resolving, NEW p \in Callees, Answer(p) \/ TryAnswer(p) \/ EncryptionEnsured(p)
  PROVE  Goes(p)
<1>0. p \in Parties /\ p # Caller /\ call \in [Parties -> Call]
  BY PartyTypes, PartyFacts
<1>1. CASE AnswerIfRinging(p) /\ wants' \in {wants, wants \ {p}}
  BY <1>1, AnswerIfRingingGoes
<1>2. CASE /\ call[p].state \in {"WaitLocalMedia", "Ended"} /\ wants' \in {wants \cup {p}, wants \ {p}}
           /\ UNCHANGED <<call, stack, ensuring, selected, link, queue, inbox, history>>
  <2>1. Begun(p, call'[p], stack'[p], inbox'[p], p \in ensuring')
    BY <1>0, <1>2, BegunNow
  <2>2. Becomes(p, call[p].state, call[p].timer, call[p].known, call[p].over)
    BY <1>0, <1>2, CallUpdates
  <2>. QED
    BY <1>0, <1>2, <2>1, <2>2, CalleeGoesOn DEF queue, history
<1>3. CASE EncryptionEnsured(p)
  <2>1. p \in ensuring /\ ensuring' = ensuring \ {p} /\ AnswerCall(p)
        /\ UNCHANGED <<stack, inbox, accepted, hungUp, link, selected, wants>>
    BY <1>3 DEF EncryptionEnsured, history
  <2>2. call[p].state # "Fledgling"
    BY <1>0, <2>1, NewNow
  <2>3. Begun(p, call[p], stack[p], inbox[p], p \in ensuring)
    BY <1>0, <2>2, BegunNow
  <2>4. call[p].over \/ call[p].state = "CreateAnswer"
    BY <1>0, <2>1, <2>3 DEF Begun, Timed
  <2>. QED
    BY <1>0, <2>1, <2>2, <2>4, AnswerCallGoes
<1>. QED
  BY <1>1, <1>2, <1>3 DEF Answer, TryAnswer

LEMMA OfferHandledGoes ==
  ASSUME Good, Resolving, NEW p \in Parties, OfferHandled(p)
  PROVE  Goes(p)
<1>0. /\ p # Caller /\ p \in Callees /\ call \in [Parties -> Call] /\ stack[p] = "handleOffer"
      /\ \A q \in Parties \ {p} : stack'[q] = stack[q]
      /\ stack'[p] = "none" /\ UNCHANGED <<wants, ensuring, selected, link, outbox, accepted, inbox, hungUp>>
  BY PartyTypes DEF OfferHandled, Good, StackGood, queue, history
<1>1. call[p].state # "Fledgling"
  BY <1>0, NewNow
<1>2. Begun(p, call[p], stack[p], inbox[p], p \in ensuring)
  BY <1>1, BegunNow
<1>3. CASE call[p].state = "Ended"
  <2>1. Becomes(p, call[p].state, call[p].timer, call[p].known, call[p].over) /\ call' = call
    BY <1>0, <1>3, CallUpdates DEF OfferHandled
  <2>2. Begun(p, call'[p], stack'[p], inbox'[p], p \in ensuring')
    BY <1>0, <1>2, <1>3, <2>1 DEF Begun
  <2>. QED
    BY <1>0, <1>1, <2>1, <2>2, CalleeGoesOn
<1>4. CASE call[p].state # "Ended"
  <2>1. Becomes(p, "Ringing", call[p].timer, call[p].known, call[p].over)
    BY <1>0, <1>4, CallUpdates DEF OfferHandled, State
  <2>2. Begun(p, call'[p], stack'[p], inbox'[p], p \in ensuring')
    BY <1>0, <1>2, <2>1 DEF Becomes, Begun, Timed
  <2>. QED
    BY <1>0, <1>1, <2>1, <2>2, CalleeGoesOn DEF Conversation
<1>. QED
  BY <1>3, <1>4

LEMMA SilentGoes ==
  ASSUME Good, Resolving, NEW p \in Parties, StackIsSilent(p)
  PROVE  Goes(p)
<1>0. /\ call[p].over /\ stack'[p] = "none" /\ \A q \in Parties \ {p} : stack'[q] = stack[q]
      /\ UNCHANGED <<call, wants, ensuring, selected, link, outbox, accepted, inbox, hungUp>>
  BY PartyTypes DEF StackIsSilent, queue, history
<1>1. call[p].state # "Fledgling"
  BY <1>0, NewNow
<1>2. Begun(p, call'[p], stack'[p], inbox'[p], p \in ensuring')
  BY <1>0, <1>1, BegunNow DEF Begun
<1>3. Ending(call'[p], outbox'[p]) /\ Others(p)
  BY <1>0 DEF Ending, Others
<1>. QED
  BY <1>0, <1>1, <1>2, <1>3, EndingGoes

LEMMA ConnectingGoes ==
  ASSUME Good, Resolving, NEW p \in Parties, CallStackCallDidConnect(p)
  PROVE  Goes(p)
<1>0. /\ call[p].state = "Connecting" /\ Linked(p)
      /\ UNCHANGED <<stack, wants, ensuring, selected, link, outbox, accepted, inbox, hungUp>>
      /\ Becomes(p, "Connected", call[p].timer, call[p].known, call[p].over)
  BY PartyTypes, CallUpdates DEF CallStackCallDidConnect, queue, history, State
<1>1. Begun(p, call[p], stack[p], inbox[p], p \in ensuring)
  BY <1>0, BegunNow
<1>2. Begun(p, call'[p], stack'[p], inbox'[p], p \in ensuring')
  BY <1>0, <1>1 DEF Becomes, Begun, Timed
<1>3. CASE p # Caller
  BY <1>0, <1>2, <1>3, CalleeGoesOn, PartyTypes DEF Conversation
<1>4. CASE p = Caller
  <2>1. Ending(call[p], outbox[p]) <=> Ending(call'[p], outbox'[p])
    BY <1>0 DEF Becomes, Ending
  <2>2. OnItsWay(call'[p], stack'[p], outbox'[p], link', selected')
    BY <1>0, <1>4, <2>1 DEF Resolving, OnItsWay, Becomes, Linked
  <2>3. SettledAs(p, call'[p], stack'[p], outbox'[p], inbox'[p], p \in wants', p \in ensuring')
    BY <1>0, <1>2 DEF Becomes, SettledAs
  <2>4. Called(call[p], inbox[p]) /\ Called(call'[p], inbox'[p]) /\ Others(p)
    BY <1>0 DEF Becomes, Called, Others
  <2>5. UncalledAs(call'[Caller], stack'[Caller], outbox'[Caller], Caller \in accepted') => Uncalled
    BY <1>0, <1>4 DEF Becomes, UncalledAs, Uncalled
  <2>. QED
    BY <1>0, <1>4, <2>1, <2>2, <2>3, <2>4, <2>5 DEF Goes, CallerGoes
<1>. QED
  BY <1>3, <1>4

(***************************************************************************)
(* The caller.                                                             *)
(***************************************************************************)
LEMMA CallWithVideoGoes ==
  ASSUME Good, Resolving, CallWithVideo
  PROVE  Goes(Caller)
<1>0. /\ Caller \in Parties /\ call[Caller].state = "Fledgling"
      /\ stack'[Caller] = "offer" /\ \A q \in Parties \ {Caller} : stack'[q] = stack[q]
      /\ UNCHANGED <<wants, ensuring, selected, link, outbox, accepted, inbox, hungUp>>
      /\ Becomes(Caller, "WaitLocalMedia", call[Caller].timer, TRUE, call[Caller].over)
  BY PartyTypes, PartyFacts, CallUpdates DEF CallWithVideo, queue, history, State
<1>1. outbox[Caller] = <<>> /\ inbox[Caller] = <<>> /\ call[Caller].over = FALSE
  BY <1>0, NewNow
<1>2. ~Has(<<>>, "invite") /\ ~Has(<<>>, "hangup") /\ (\A q : ~AnswerOf(<<>>, q)) /\ ~Chosen(<<>>)
      /\ (\A c : Ending(c, <<>>) <=> c.over)
  BY SmallQueues DEF Has, AnswerOf, Chosen, Ending
<1>3. SettledAs(Caller, call'[Caller], stack'[Caller], outbox'[Caller], inbox'[Caller],
                Caller \in wants', Caller \in ensuring')
  BY <1>0, <1>1, <1>2 DEF Becomes, SettledAs, Begun
<1>4. OnItsWay(call'[Caller], stack'[Caller], outbox'[Caller], link', selected')
  BY <1>0, <1>1, <1>2 DEF Resolving, Becomes, OnItsWay, Conversation
<1>5. Uncalled /\ Called(call'[Caller], inbox'[Caller]) /\ Others(Caller)
  BY <1>0 DEF Becomes, Uncalled, UncalledAs, Called, Others
<1>. QED
  BY <1>0, <1>1, <1>2, <1>3, <1>4, <1>5 DEF Goes, CallerGoes, Taken

\* A step of the caller after its call has begun.
LEMMA CallerIsLive ==
  ASSUME Good, Others(Caller), hungUp' = hungUp,
         call[Caller].state # "Fledgling", call'[Caller].state # "Fledgling",
         Begun(Caller, call'[Caller], stack'[Caller], inbox'[Caller], Caller \in ensuring'),
         Ending(call[Caller], outbox[Caller]) => Ending(call'[Caller], outbox'[Caller]),
         Has(inbox[Caller], "hangup") =>
           Ending(call'[Caller], outbox'[Caller]) \/ Has(inbox'[Caller], "hangup"),
         CallerGoes
  PROVE  Goes(Caller)
BY DEF Goes, SettledAs, Called

LEMMA OfferCreatedGoes ==
  ASSUME Good, Resolving, OfferCreated
  PROVE  Goes(Caller)
<1>. DEFINE e == [type |-> "invite", by |-> Caller]
<1>0. /\ Caller \in Parties /\ stack[Caller] = "offer" /\ outbox[Caller] \in Seq(Event)
      /\ \A q \in Parties \ {Caller} : stack'[q] = stack[q] /\ outbox'[q] = outbox[q]
      /\ outbox'[Caller] = outbox[Caller] \o <<e>>
      /\ UNCHANGED <<wants, ensuring, selected, link, accepted, inbox, hungUp>>
      /\ Becomes(Caller, "CreateOffer", call[Caller].timer, call[Caller].known, call[Caller].over)
  BY PartyTypes, PartyFacts, CallUpdates DEF OfferCreated, SendEvents, history, State
<1>1. e \in Event /\ e.type = "invite"
  BY EventsSent DEF Sends
<1>. HIDE DEF e
<1>2. In(outbox'[Caller]) = In(outbox[Caller]) \cup {e}
  BY <1>0, <1>1, SentContents
<1>3. call[Caller].state # "Fledgling"
  BY <1>0, NewNow
<1>4. Begun(Caller, call[Caller], stack[Caller], inbox[Caller], Caller \in ensuring)
  BY <1>0, <1>3, BegunNow
<1>5. Begun(Caller, call'[Caller], stack'[Caller], inbox'[Caller], Caller \in ensuring')
  BY <1>0, <1>4 DEF Becomes, Begun
<1>6. /\ Ending(call[Caller], outbox[Caller]) => Ending(call'[Caller], outbox'[Caller])
      /\ Chosen(outbox[Caller]) => Chosen(outbox'[Caller])
      /\ Has(outbox'[Caller], "invite")
  BY <1>0, <1>1, <1>2 DEF Becomes, Ending, Chosen, Has
<1>7. OnItsWay(call'[Caller], stack'[Caller], outbox'[Caller], link', selected')
  BY <1>0, <1>6 DEF Resolving, Becomes, OnItsWay, Conversation, Taken
<1>8. CallerGoes
  BY <1>0, <1>6, <1>7 DEF CallerGoes, Uncalled, UncalledAs, Taken
<1>9. Others(Caller)
  BY <1>0 DEF Becomes, Others
<1>. QED
  BY <1>0, <1>3, <1>5, <1>6, <1>8, <1>9, CallerIsLive DEF Becomes

\* The request of an invite or of a select_answer has succeeded.
LEMMA CallerIsAnswered ==
  ASSUME Good, Inv, Resolving, NEW e, Sent(Caller, e), Dequeue(Caller, <<>>),
         \/ /\ e.type = "invite" /\ link' = link
            /\ Becomes(Caller, "InviteSent", TRUE, call[Caller].known, call[Caller].over)
         \/ /\ e.type = "select" /\ e.of = "answer" /\ (link' # Caller \/ call[Caller].over)
            /\ Becomes(Caller, "Connecting", call[Caller].timer, call[Caller].known, call[Caller].over),
         UNCHANGED <<stack, wants, ensuring, selected, inbox, hungUp>>
  PROVE  Goes(Caller)
<1>0. /\ Caller \in Parties /\ outbox[Caller] \in Seq(Event) /\ outbox[Caller] # <<>>
      /\ e = Head(outbox[Caller])
      /\ outbox'[Caller] = Tail(outbox[Caller]) \o <<>> /\ <<>> \in Seq(Event)
      /\ \A q \in Parties \ {Caller} : outbox'[q] = outbox[q]
      /\ accepted' = accepted \ {Caller}
  BY PartyTypes, PartyFacts, EmptySeq DEF Sent, Dequeue
<1>1. call[Caller].state # "Fledgling"
  BY <1>0, NewNow
<1>2. In(outbox[Caller]) = {e} \cup In(outbox'[Caller])
  <2>1. In(<<>>) = {}
    BY SmallQueues
  <2>2. /\ \A t \in Seq(Event) : In(Tail(outbox[Caller]) \o t) = In(Tail(outbox[Caller])) \cup In(t)
        /\ In(outbox[Caller]) = {Head(outbox[Caller])} \cup In(Tail(outbox[Caller]))
    BY <1>0, DequeuedContents
  <2>3. In(outbox'[Caller]) = In(Tail(outbox[Caller])) \cup In(<<>>)
    BY <1>0, <2>2, Zenon
  <2>. QED
    BY <1>0, <2>1, <2>2, <2>3
<1>3. Begun(Caller, call'[Caller], stack'[Caller], inbox'[Caller], Caller \in ensuring')
  <2>1. Begun(Caller, call[Caller], stack[Caller], inbox[Caller], Caller \in ensuring)
    BY <1>0, <1>1, BegunNow
  <2>. QED
    BY <2>1 DEF Becomes, Begun
<1>4. Ending(call[Caller], outbox[Caller]) => Ending(call'[Caller], outbox'[Caller])
  BY <1>2 DEF Becomes, Ending, Ends
<1>5. Unsent(outbox'[Caller], Caller \in accepted') => Unsent(outbox[Caller], Caller \in accepted)
  <2>1. ~Has(<<>>, "invite")
    BY SmallQueues DEF Has
  <2>. QED
    BY <1>0, <2>1, UnsentBefore DEF Inv
<1>6. \/ Ending(call'[Caller], outbox'[Caller])
      \/ Taken(link, outbox[Caller]) => Taken(link', outbox'[Caller])
  <2>1. CASE e.type = "invite"
    BY <1>2, <2>1 DEF Taken, Chosen
  <2>2. CASE e.type = "select"
    BY <2>2 DEF Taken, Becomes, Ending
  <2>. QED
    BY <2>1, <2>2
<1>7. OnItsWay(call'[Caller], stack'[Caller], outbox'[Caller], link', selected')
  <2>1. CASE e.type = "invite"
    BY <1>4, <1>6, <2>1 DEF Resolving, OnItsWay, Becomes, Conversation
  <2>2. CASE e.type = "select"
    BY <1>4, <1>6, <2>2 DEF Resolving, OnItsWay, Becomes, Conversation, Ending, Taken
  <2>. QED
    BY <2>1, <2>2
<1>8. CallerGoes
  BY <1>5, <1>6, <1>7 DEF CallerGoes, Uncalled, UncalledAs, Becomes
<1>9. Others(Caller)
  BY <1>0 DEF Becomes, Others
<1>. QED
  BY <1>1, <1>3, <1>4, <1>8, <1>9, CallerIsLive DEF Becomes

LEMMA RequestGoes ==
  ASSUME Good, Inv, Resolving, NEW p \in Parties, Request(p)
  PROVE  Goes(p)
<1>0. Caller \in Parties /\ call \in [Parties -> Call] /\ outbox[Caller] \in Seq(Event)
      /\ outbox \in [Parties -> Seq(Event)]
  BY PartyTypes
<1>1. ASSUME NEW e, InviteSent(e)
      PROVE  Goes(Caller)
  <2>1. /\ e.type = "invite" /\ Sent(Caller, e) /\ Dequeue(Caller, <<>>)
        /\ UNCHANGED <<stack, wants, ensuring, selected, link, inbox, hungUp>>
    BY <1>1 DEF InviteSent, history
  <2>2. Becomes(Caller, "InviteSent", TRUE, call[Caller].known, call[Caller].over)
    BY <1>0, <1>1, CallUpdates DEF InviteSent, State
  <2>. QED
    BY <2>1, <2>2, CallerIsAnswered
<1>2. ASSUME NEW e, AnswerSelected(e)
      PROVE  Goes(Caller)
  <2>1. /\ e.type = "select" /\ e.of = "answer" /\ Sent(Caller, e)
        /\ UNCHANGED <<stack, wants, ensuring, inbox, hungUp>>
    BY <1>2 DEF AnswerSelected, history
  <2>2. Becomes(Caller, "Connecting", call[Caller].timer, call[Caller].known, call[Caller].over)
    BY <1>0, <1>2, CallUpdates DEF AnswerSelected, State
  <2>3. outbox[Caller] # <<>> /\ e = Head(outbox[Caller]) /\ accepted' = accepted \ {Caller}
    BY <1>0, <2>1, PartyTypes DEF Sent
  <2>4. e.party \in Callees /\ e.party # Caller
    BY <1>0, <2>1, <2>3, FirstSent, PartyTypes DEF Event
  <2>5. CASE Dequeue(Caller, <<>>) /\ selected' = selected /\ (link' = e.party \/ call[Caller].over)
    BY <2>1, <2>2, <2>4, <2>5, CallerIsAnswered
  <2>6. CASE Dequeue(Caller, <<[type |-> "hangup", by |-> Caller]>>)
    <3>. DEFINE h == [type |-> "hangup", by |-> Caller]
    <3>1. h \in Event /\ h.type = "hangup"
      BY EventsSent DEF Sends
    <3>2. outbox'[Caller] = Tail(outbox[Caller]) \o <<h>>
          /\ (\A q \in Parties \ {Caller} : outbox'[q] = outbox[q])
      BY <1>0, <2>6 DEF Dequeue
    <3>. HIDE DEF h
    <3>3. <<h>> \in Seq(Event) /\ In(<<h>>) = {h}
      BY <3>1, SmallQueues
    <3>4. In(outbox'[Caller]) = In(Tail(outbox[Caller])) \cup {h}
      <4>1. \A t \in Seq(Event) : In(Tail(outbox[Caller]) \o t) = In(Tail(outbox[Caller])) \cup In(t)
        BY <1>0, <2>3, DequeuedContents
      <4>. QED
        BY <3>2, <3>3, <4>1, Zenon
    <3>5. Ending(call'[Caller], outbox'[Caller])
      BY <3>1, <3>4 DEF Ending, Ends
    <3>6. Unsent(outbox'[Caller], Caller \in accepted') => Unsent(outbox[Caller], Caller \in accepted)
      <4>1. ~Has(<<h>>, "invite")
        BY <3>1, <3>3 DEF Has
      <4>. QED
        BY <2>3, <3>2, <3>3, <4>1, UnsentBefore DEF Inv
    <3>7. call[Caller].state # "Fledgling"
      BY <1>0, <2>3, NewNow
    <3>8. Begun(Caller, call'[Caller], stack'[Caller], inbox'[Caller], Caller \in ensuring')
      <4>1. Begun(Caller, call[Caller], stack[Caller], inbox[Caller], Caller \in ensuring)
        BY <1>0, <3>7, BegunNow
      <4>. QED
        BY <2>1, <2>2, <4>1 DEF Becomes, Begun
    <3>9. Others(Caller)
      BY <2>1, <2>2, <2>3, <3>2 DEF Becomes, Others
    <3>. QED
      BY <1>0, <2>1, <2>2, <3>5, <3>6, <3>7, <3>8, <3>9, EndingGoes DEF Becomes
  <2>. QED
    BY <1>2, <2>5, <2>6 DEF AnswerSelected
<1>. QED
  BY <1>1, <1>2, EndSentGoes DEF Request

(***************************************************************************)
(* The events of the room.                                                 *)
(***************************************************************************)
LEMMA Delivered ==
  ASSUME Good, NEW p \in Parties, inbox[p] # <<>>, Deliver(p)
  PROVE  /\ inbox'[p] = IF call'[p].known THEN Tail(inbox[p]) ELSE <<>>
         /\ \A q \in Parties \ {p} : inbox'[q] = inbox[q]
         /\ In(inbox'[p]) \subseteq In(inbox[p])
         /\ call'[p].known => In(inbox[p]) = {Head(inbox[p])} \cup In(inbox'[p])
<1>1. inbox[p] \in Seq(Event) /\ inbox \in [Parties -> Seq(Event)]
  BY PartyTypes
<1>2. In(inbox[p]) = {Head(inbox[p])} \cup In(Tail(inbox[p])) /\ In(<<>>) = {}
  BY <1>1, QueueContents, SmallQueues
<1>3. inbox' = [inbox EXCEPT ![p] = IF call'[p].known THEN Tail(inbox[p]) ELSE <<>>]
  BY DEF Deliver
<1>. QED
  BY <1>1, <1>2, <1>3

\* The invite, which only a device reads that is new.
LEMMA HandleCallInviteGoes ==
  ASSUME Good, Resolving, NEW p \in Parties, HandleCallInvite(p)
  PROVE  Goes(p)
<1>0. /\ inbox[p] # <<>> /\ Head(inbox[p]).type = "invite" /\ Deliver(p) /\ inbox[p] \in Seq(Event)
      /\ \A q \in Parties \ {p} : stack'[q] = stack[q]
      /\ UNCHANGED <<wants, ensuring, selected, link, outbox, accepted, hungUp>>
      /\ call \in [Parties -> Call] /\ p \in Parties
  BY PartyTypes DEF HandleCallInvite, Reads
<1>1. Becomes(p, "WaitLocalMedia", TRUE, TRUE, call[p].over)
  BY <1>0 DEF HandleCallInvite, Becomes, Call, State
<1>2. call[p].state = "Fledgling"
  <2>1. Has(inbox[p], "invite")
    BY <1>0, QueueContents DEF Has
  <2>. QED
    BY <2>1, BegunNow DEF Begun
<1>3. /\ outbox[p] = <<>> /\ p \notin ensuring /\ p # Caller /\ ~Has(Tail(inbox[p]), "invite")
      /\ call[p].over = FALSE
  BY <1>0, <1>2, NewNow
<1>4. /\ inbox'[p] = Tail(inbox[p]) /\ \A q \in Parties \ {p} : inbox'[q] = inbox[q]
      /\ In(inbox[p]) = {Head(inbox[p])} \cup In(inbox'[p])
  BY <1>0, <1>1, Delivered DEF Becomes
<1>5. Begun(p, call'[p], stack'[p], inbox'[p], p \in ensuring')
  BY <1>0, <1>1, <1>3, <1>4 DEF Becomes, Begun, Timed
<1>6. SettledAs(p, call'[p], stack'[p], outbox'[p], inbox'[p], p \in wants', p \in ensuring')
  BY <1>1, <1>5 DEF Becomes, SettledAs
<1>7. ~Ending(call[p], outbox[p])
  BY <1>3, SmallQueues DEF Ending
<1>8. Has(inbox[p], "hangup") => Has(inbox'[p], "hangup")
  BY <1>0, <1>4 DEF Has
<1>9. Called(call[p], inbox[p]) /\ Called(call'[p], inbox'[p])
  BY <1>0, <1>1 DEF Becomes, Called
<1>10. CalleeGoes(p)
  BY <1>0, <1>1, <1>9 DEF CalleeGoes, Answers, Becomes, Conversation
<1>11. Others(p)
  BY <1>0, <1>1, <1>4 DEF Becomes, Others
<1>. QED
  BY <1>0, <1>3, <1>6, <1>7, <1>8, <1>9, <1>10, <1>11 DEF Goes

\* What every handler but that of the invite does: the call has begun.
LEMMA Reading ==
  ASSUME Good, Resolving, NEW p \in Parties,
         \/ HandleCallAnswer(p) \/ HandleCallSelectAnswer(p)
         \/ HandleCallHangup(p) \/ HandleCallReject(p)
  PROVE  /\ inbox[p] # <<>> /\ Head(inbox[p]).type # "invite" /\ Deliver(p)
         /\ UNCHANGED <<stack, wants, ensuring, link, accepted, hungUp>>
         /\ call[p].state # "Fledgling"
         /\ Begun(p, call[p], stack[p], inbox[p], p \in ensuring)
<1>1. /\ inbox[p] # <<>> /\ Head(inbox[p]).type # "invite" /\ Deliver(p)
      /\ UNCHANGED <<stack, wants, ensuring, link, accepted, hungUp>>
  BY DEF HandleCallAnswer, HandleCallSelectAnswer, HandleCallHangup, HandleCallReject, Reads
<1>2. call[p].state # "Fledgling"
  BY <1>1, NewNow
<1>. QED
  BY <1>1, <1>2, BegunNow

\* A call that is over by what is read.
LEMMA ReadingEnds ==
  ASSUME Good, Inv, Resolving, NEW p \in Parties, inbox[p] # <<>>, Deliver(p), call[p].state # "Fledgling",
         UNCHANGED <<stack, wants, ensuring, link, accepted, hungUp, selected, outbox>>,
         NEW state, state # "Fledgling", NEW timer, NEW known, Becomes(p, state, timer, known, TRUE)
  PROVE  Goes(p)
<1>1. Begun(p, call[p], stack[p], inbox[p], p \in ensuring)
  BY BegunNow
<1>2. In(inbox'[p]) \subseteq In(inbox[p]) /\ \A q \in Parties \ {p} : inbox'[q] = inbox[q]
  BY Delivered
<1>3. Begun(p, call'[p], stack'[p], inbox'[p], p \in ensuring')
  BY <1>1, <1>2 DEF Becomes, Begun, Has
<1>4. Ending(call'[p], outbox'[p])
  BY DEF Becomes, Ending
<1>5. Others(p)
  BY <1>2 DEF Becomes, Others
<1>6. call'[p].state # "Fledgling"
  BY DEF Becomes
<1>. QED
  BY <1>3, <1>4, <1>5, <1>6, EndingGoes

\* What is read is ignored; the caller ignores an answer when it has selected one.
LEMMA ReadingIgnored ==
  ASSUME Good, Inv, Resolving, NEW p \in Parties, inbox[p] # <<>>, Deliver(p), call[p].state # "Fledgling",
         Head(inbox[p]).type # "hangup", p = Caller => selected # Caller,
         UNCHANGED <<call, stack, wants, ensuring, link, accepted, hungUp, selected, outbox>>
  PROVE  Goes(p)
<1>1. Begun(p, call[p], stack[p], inbox[p], p \in ensuring) /\ call \in [Parties -> Call]
  BY BegunNow, PartyTypes
<1>2. /\ In(inbox'[p]) \subseteq In(inbox[p]) /\ \A q \in Parties \ {p} : inbox'[q] = inbox[q]
      /\ call[p].known => In(inbox[p]) = {Head(inbox[p])} \cup In(inbox'[p])
  BY Delivered
<1>3. Begun(p, call'[p], stack'[p], inbox'[p], p \in ensuring')
  BY <1>1, <1>2 DEF Begun, Has
<1>4. Has(inbox[p], "hangup") => Ending(call'[p], outbox'[p]) \/ Has(inbox'[p], "hangup")
  BY <1>1, <1>2 DEF Begun, Has, Ending
<1>5. Others(p)
  BY <1>2 DEF Others
<1>6. CASE p # Caller
  BY <1>3, <1>4, <1>5, <1>6, PartyTypes, CalleeIsLive DEF Answers
<1>7. CASE p = Caller
  <2>1. OnItsWay(call'[p], stack'[p], outbox'[p], link', selected')
    BY <1>7 DEF Resolving
  <2>2. Ending(call'[p], outbox'[p]) \/ Taken(link', outbox'[p])
    BY <1>7, <2>1 DEF OnItsWay
  <2>3. CallerGoes
    BY <1>7, <2>1, <2>2 DEF CallerGoes, Uncalled
  <2>. QED
    BY <1>3, <1>4, <1>5, <1>7, <2>3, CallerIsLive
<1>. QED
  BY <1>6, <1>7

\* The caller selects what it reads.
LEMMA SelectingGoes ==
  ASSUME Good, Inv, Resolving, inbox[Caller] # <<>>, Deliver(Caller), call[Caller].state # "Fledgling",
         Head(inbox[Caller]).type # "hangup", NEW of \in {"answer", "reject"}, NEW party \in Callees,
         Select(of, party), call' = [call EXCEPT ![Caller].timer = FALSE],
         UNCHANGED <<stack, wants, ensuring, link, accepted, hungUp>>
  PROVE  Goes(Caller)
<1>. DEFINE e == [type |-> "select", by |-> Caller, of |-> of, party |-> party]
<1>0. /\ Caller \in Parties /\ outbox[Caller] \in Seq(Event)
      /\ outbox'[Caller] = outbox[Caller] \o <<e>>
      /\ \A q \in Parties \ {Caller} : outbox'[q] = outbox[q]
      /\ Becomes(Caller, call[Caller].state, FALSE, call[Caller].known, call[Caller].over)
  BY PartyTypes, PartyFacts, CallUpdates DEF Select, SendEvents
<1>1. e \in Event /\ e.type = "select" /\ e.of = of
  BY SelectIsAnEvent
<1>. HIDE DEF e
<1>2. In(outbox'[Caller]) = In(outbox[Caller]) \cup {e} /\ <<e>> \in Seq(Event) /\ In(<<e>>) = {e}
  BY <1>0, <1>1, SentContents, SmallQueues
<1>3. Begun(Caller, call[Caller], stack[Caller], inbox[Caller], Caller \in ensuring)
  BY <1>0, BegunNow
<1>4. /\ In(inbox'[Caller]) \subseteq In(inbox[Caller])
      /\ \A q \in Parties \ {Caller} : inbox'[q] = inbox[q]
      /\ call[Caller].known => In(inbox[Caller]) = {Head(inbox[Caller])} \cup In(inbox'[Caller])
  BY <1>0, Delivered DEF Becomes
<1>5. Begun(Caller, call'[Caller], stack'[Caller], inbox'[Caller], Caller \in ensuring')
  BY <1>0, <1>3, <1>4 DEF Becomes, Begun, Has
<1>6. Others(Caller)
  BY <1>0, <1>4 DEF Becomes, Others
<1>7. Unsent(outbox'[Caller], Caller \in accepted') => Unsent(outbox[Caller], Caller \in accepted)
  <2>1. ~Has(<<e>>, "invite")
    BY <1>1, <1>2 DEF Has
  <2>. QED
    BY <1>0, <1>2, <2>1, UnsentBefore DEF Inv
<1>8. CASE of = "reject"
  <2>1. Ending(call'[Caller], outbox'[Caller])
    BY <1>1, <1>2, <1>8 DEF Ending, Ends
  <2>. QED
    BY <1>0, <1>5, <1>6, <1>7, <2>1, EndingGoes DEF Becomes
<1>9. CASE of = "answer"
  <2>1. Chosen(outbox'[Caller]) /\ Taken(link', outbox'[Caller])
    BY <1>1, <1>2, <1>9 DEF Chosen, Taken
  <2>2. /\ Ending(call[Caller], outbox[Caller]) => Ending(call'[Caller], outbox'[Caller])
        /\ Has(outbox[Caller], "invite") => Has(outbox'[Caller], "invite")
    BY <1>0, <1>2 DEF Becomes, Ending, Has
  <2>3. OnItsWay(call'[Caller], stack'[Caller], outbox'[Caller], link', selected')
    BY <1>0, <2>1, <2>2 DEF Resolving, OnItsWay, Becomes
  <2>4. CallerGoes
    BY <1>0, <1>7, <2>1, <2>3 DEF CallerGoes, Uncalled, UncalledAs, Becomes
  <2>5. Has(inbox[Caller], "hangup") =>
          Ending(call'[Caller], outbox'[Caller]) \/ Has(inbox'[Caller], "hangup")
    BY <1>0, <1>3, <1>4 DEF Begun, Has, Ending, Becomes
  <2>. QED
    BY <1>0, <1>5, <1>6, <2>2, <2>4, <2>5, CallerIsLive DEF Becomes
<1>. QED
  BY <1>8, <1>9

LEMMA ReceivingGoes ==
  ASSUME Good, Inv, Resolving, NEW p \in Parties, Receive(p)
  PROVE  Goes(p)
<1>0. call \in [Parties -> Call] /\ (p # Caller <=> p \in Callees)
  BY PartyTypes
<1>1. CASE HandleCallInvite(p)
  BY <1>1, HandleCallInviteGoes
<1>2. ASSUME \/ HandleCallAnswer(p) \/ HandleCallSelectAnswer(p)
             \/ HandleCallHangup(p) \/ HandleCallReject(p)
      PROVE  /\ inbox[p] # <<>> /\ Deliver(p) /\ call[p].state # "Fledgling"
             /\ UNCHANGED <<stack, wants, ensuring, link, accepted, hungUp>>
             /\ Begun(p, call[p], stack[p], inbox[p], p \in ensuring)
  BY <1>2, Reading
<1>3. ASSUME \/ HandleCallAnswer(p) \/ HandleCallSelectAnswer(p)
             \/ HandleCallHangup(p) \/ HandleCallReject(p),
             call' = [call EXCEPT ![p] = OnCallAnsweredElsewhere(@)],
             UNCHANGED <<selected, outbox>>
      PROVE  Goes(p)
  <2>1. Becomes(p, "Ended", call[p].timer, FALSE, TRUE)
    BY <1>0, <1>3, CallUpdates
  <2>. QED
    BY <1>2, <1>3, <2>1, ReadingEnds
<1>4. CASE HandleCallHangup(p)
  <2>1. /\ UNCHANGED <<selected, outbox>>
        /\ \/ Becomes(p, "Ended", call[p].timer, FALSE, call[p].over) /\ call[p].state = "Ended"
           \/ Becomes(p, "Ended", FALSE, FALSE, TRUE)
    BY <1>0, <1>4, HungUpCall DEF HandleCallHangup
  <2>2. call[p].state = "Ended" => call[p].over
    BY <1>2, <1>4 DEF Begun
  <2>3. \E timer : Becomes(p, "Ended", timer, FALSE, TRUE)
    BY <1>0, <2>1, <2>2 DEF Call, Becomes
  <2>. QED
    BY <1>2, <1>4, <2>1, <2>3, ReadingEnds
<1>5. CASE HandleCallSelectAnswer(p)
  <2>1. p # Caller
    <3>1. Head(inbox[p]).type = "select" /\ inbox[p] # <<>>
      BY <1>5 DEF HandleCallSelectAnswer, Reads
    <3>2. Head(inbox[p]).by = Caller
      BY <3>1, FirstHeard, PartyFacts DEF Sends, Event
    <3>. QED
      BY <3>1, <3>2, FirstHeard
  <2>2. CASE UNCHANGED call
    BY <1>2, <1>5, <2>1, <2>2, ReadingIgnored DEF HandleCallSelectAnswer, Reads
  <2>. QED
    BY <1>3, <1>5, <2>2 DEF HandleCallSelectAnswer
<1>6. CASE HandleCallAnswer(p)
  <2>1. CASE p = Caller /\ selected = Caller
    <3>1. Head(inbox[p]).by \in Callees /\ Head(inbox[p]).type = "answer"
      BY <1>6, <2>1, FirstHeard, PartyFacts DEF HandleCallAnswer, Reads, Sends, Event
    <3>2. Select("answer", Head(inbox[p]).by) /\ call' = [call EXCEPT ![p].timer = FALSE]
      BY <1>6, <2>1 DEF HandleCallAnswer, MayBeSelected
    <3>. QED
      BY <1>2, <1>6, <2>1, <3>1, <3>2, SelectingGoes
  <2>2. CASE UNCHANGED <<call, selected, outbox>> /\ (p = Caller => selected # Caller)
    BY <1>2, <1>6, <2>2, ReadingIgnored DEF HandleCallAnswer, Reads
  <2>. QED
    BY <1>3, <1>6, <2>1, <2>2 DEF HandleCallAnswer, MayBeSelected
<1>7. CASE HandleCallReject(p)
  <2>1. CASE p = Caller /\ selected = Caller /\ call[p].state # "Ended"
    <3>1. Head(inbox[p]).by \in Callees /\ Head(inbox[p]).type = "reject"
      BY <1>7, <2>1, FirstHeard, PartyFacts DEF HandleCallReject, Reads, Sends, Event
    <3>2. Select("reject", Head(inbox[p]).by) /\ call' = [call EXCEPT ![p].timer = FALSE]
      BY <1>7, <2>1 DEF HandleCallReject
    <3>. QED
      BY <1>2, <1>7, <2>1, <3>1, <3>2, SelectingGoes
  <2>2. CASE p = Caller /\ selected = Caller /\ call[p].state = "Ended"
    <3>1. UNCHANGED <<selected, outbox>>
          /\ Becomes(p, call[p].state, FALSE, call[p].known, call[p].over)
      BY <1>0, <1>7, <2>2, CallUpdates DEF HandleCallReject
    <3>2. Becomes(p, "Ended", FALSE, call[p].known, TRUE)
      BY <1>0, <1>2, <1>7, <2>2, <3>1 DEF Begun, Call, Becomes
    <3>. QED
      BY <1>2, <1>7, <3>1, <3>2, ReadingEnds
  <2>3. CASE UNCHANGED <<call, selected, outbox>> /\ p = Caller /\ selected # Caller
    BY <1>2, <1>7, <2>3, ReadingIgnored DEF HandleCallReject, Reads
  <2>. QED
    BY <1>3, <1>7, <2>1, <2>2, <2>3 DEF HandleCallReject
<1>. QED
  BY <1>1, <1>4, <1>5, <1>6, <1>7 DEF Receive

(***************************************************************************)
(* The homeserver takes an event, e, of p.                                 *)
(***************************************************************************)
Takes(p, e) ==
  /\ UNCHANGED <<call, stack, wants, ensuring, selected, link>>
  /\ e \in Event /\ e \in Sends(p) /\ e = Head(outbox[p]) /\ e \in In(outbox[p]) /\ p \notin accepted
  /\ call[p].state # "Fledgling"
  /\ \A q \in Parties \ {p} : outbox'[q] = outbox[q]
  /\ e.type # "answer" => outbox'[p] = outbox[p]
  /\ In(outbox[p]) = {e} \cup In(outbox'[p])
  /\ \A q \in Parties : inbox'[q] = IF Heeds(q, e) THEN Append(inbox[q], e) ELSE inbox[q]
  /\ Caller \in accepted' <=> p = Caller \/ Caller \in accepted
  /\ hungUp' <=> hungUp \/ e.type = "hangup"

LEMMA HomeserverTakes ==
  ASSUME Good, Resolving, NEW p \in Parties, HomeserverAccepts(p)
  PROVE  \E e \in Event : Takes(p, e)
<1>. DEFINE e == Head(outbox[p])
<1>1. /\ outbox[p] # <<>> /\ p \notin accepted
      /\ inbox' = [q \in Parties |-> IF Heeds(q, e) THEN Append(inbox[q], e) ELSE inbox[q]]
      /\ hungUp' = (hungUp \/ e.type = "hangup")
      /\ UNCHANGED <<call, stack, wants, ensuring, selected, link>>
      /\ IF e.type = "answer" THEN Dequeue(p, <<>>) /\ UNCHANGED accepted
         ELSE accepted' = accepted \cup {p} /\ UNCHANGED outbox
  BY DEF HomeserverAccepts
<1>2. /\ outbox[p] \in Seq(Event) /\ outbox \in [Parties -> Seq(Event)]
      /\ e \in Event /\ e \in Sends(p)
      /\ e \in In(outbox[p]) /\ In(outbox[p]) = {e} \cup In(Tail(outbox[p]))
  BY <1>1, PartyTypes, FirstSent, QueueContents
<1>3. call[p].state # "Fledgling"
  BY <1>1, NewNow
<1>4. e.type = "answer" => p # Caller
  BY <1>2 DEF Sends
<1>. HIDE DEF e
<1>5. In(Tail(outbox[p]) \o <<>>) = In(Tail(outbox[p]))
  <2>1. \A t \in Seq(Event) : In(Tail(outbox[p]) \o t) = In(Tail(outbox[p])) \cup In(t)
    BY <1>1, <1>2, DequeuedContents
  <2>2. <<>> \in Seq(Event) /\ In(<<>>) = {}
    BY EmptySeq, SmallQueues
  <2>3. In(Tail(outbox[p]) \o <<>>) = In(Tail(outbox[p])) \cup In(<<>>)
    BY <2>1, <2>2, Zenon
  <2>. QED
    BY <2>2, <2>3
<1>6. CASE e.type = "answer"
  <2>1. /\ outbox'[p] = Tail(outbox[p]) \o <<>> /\ accepted' = accepted
        /\ \A q \in Parties \ {p} : outbox'[q] = outbox[q]
    BY <1>1, <1>2, <1>6 DEF Dequeue
  <2>2. In(outbox[p]) = {e} \cup In(outbox'[p])
    BY <1>2, <1>5, <2>1
  <2>. QED
    BY <1>1, <1>2, <1>3, <1>4, <1>6, <2>1, <2>2 DEF Takes, e
<1>7. CASE e.type # "answer"
  <2>1. accepted' = accepted \cup {p} /\ outbox' = outbox
    BY <1>1, <1>7
  <2>. QED
    BY <1>1, <1>2, <1>3, <1>7, <2>1 DEF Takes, e
<1>. QED
  BY <1>6, <1>7

\* An invite finds every callee new.
LEMMA InviteTaken ==
  ASSUME Good, Resolving, NEW p \in Parties, NEW e, Takes(p, e), e.type = "invite"
  PROVE  /\ p = Caller
         /\ \A q \in Callees : Heeds(q, e) /\ call[q].state = "Fledgling" /\ inbox[q] = <<>>
         /\ ~Heeds(Caller, e)
<1>1. p = Caller /\ e.by = Caller
  BY DEF Takes, Sends
<1>2. Uncalled
  BY <1>1 DEF Takes, Has, Unsent, Uncalled, UncalledAs
<1>3. \A q \in Callees : call[q].state = "Fledgling" /\ inbox[q] = <<>>
  BY <1>2 DEF Resolving, Called
<1>4. \A q \in Callees : q # Caller
  BY CallsAssumption
<1>. QED
  BY <1>1, <1>3, <1>4 DEF Heeds

\* What is taken comes to every device whose call has not ended.
LEMMA TakenIsHeard ==
  ASSUME Good, Resolving, NEW p \in Callees, NEW e, Takes(p, e), NEW q \in Parties, q # p
  PROVE  Heeds(q, e) \/ call[q].over
<1>1. /\ p \in Parties /\ call[p].state # "Fledgling" /\ e.by = p
  BY PartyFacts DEF Takes, Sends
<1>2. CASE call[q].state # "Fledgling"
  BY <1>1, <1>2, BegunNow DEF Begun, Heeds
<1>3. CASE call[q].state = "Fledgling" /\ q = Caller
  <2>1. Uncalled
    BY <1>3 DEF Uncalled, UncalledAs
  <2>. QED
    BY <1>1, <2>1 DEF Resolving, Called
<1>4. CASE call[q].state = "Fledgling" /\ q # Caller
  <2>1. q \in Callees
    BY <1>4, PartyTypes
  <2>2. inbox[q] # <<>>
    BY <1>1, <1>4, <2>1 DEF Resolving, Called
  <2>. QED
    BY <1>1, <1>4, <2>2 DEF Heeds
<1>. QED
  BY <1>2, <1>3, <1>4

\* What happens to the queues when an event has been taken.
LEMMA TakenContents ==
  ASSUME Good, Resolving, NEW p \in Parties, NEW e, Takes(p, e), NEW q \in Parties
  PROVE  /\ In(inbox[q]) \subseteq In(inbox'[q])
         /\ Heeds(q, e) => In(inbox'[q]) = In(inbox[q]) \cup {e} /\ inbox'[q] # <<>>
         /\ ~Heeds(q, e) => inbox'[q] = inbox[q]
         /\ inbox[q] # <<>> => inbox'[q] # <<>>
         /\ call'[q] = call[q] /\ stack'[q] = stack[q]
         /\ Ending(call'[q], outbox'[q]) <=> Ending(call[q], outbox[q])
         /\ call[q].state = "Fledgling" => outbox'[q] = outbox[q]
         /\ q = Caller => outbox'[q] = outbox[q]
<1>1. /\ inbox[q] \in Seq(Event) /\ e \in Event
      /\ inbox'[q] = IF Heeds(q, e) THEN Append(inbox[q], e) ELSE inbox[q]
  BY PartyTypes DEF Takes
<1>2. In(Append(inbox[q], e)) = In(inbox[q]) \cup {e} /\ Append(inbox[q], e) # <<>>
  BY <1>1, AppendedContents
<1>3. call' = call /\ stack' = stack
  BY DEF Takes
<1>4. q # p \/ e.type # "answer" => outbox'[q] = outbox[q]
  BY DEF Takes
<1>5. Ending(call'[q], outbox'[q]) <=> Ending(call[q], outbox[q])
  <2>1. CASE outbox'[q] = outbox[q]
    BY <1>3, <2>1 DEF Ending
  <2>2. CASE q = p /\ e.type = "answer"
    <3>1. In(outbox[q]) = {e} \cup In(outbox'[q]) /\ ~Ends(e)
      BY <2>2 DEF Takes, Ends
    <3>. QED
      BY <1>3, <3>1 DEF Ending
  <2>. QED
    BY <1>4, <2>1, <2>2
<1>6. call[q].state = "Fledgling" \/ q = Caller => outbox'[q] = outbox[q]
  <2>1. q = p => call[q].state # "Fledgling" /\ (q = Caller => e.type # "answer")
    BY DEF Takes, Sends
  <2>. QED
    BY <1>4, <2>1
<1>. QED
  BY <1>1, <1>2, <1>3, <1>5, <1>6

LEMMA TakenSettles ==
  ASSUME Good, Resolving, NEW p \in Parties, NEW e, Takes(p, e), NEW q \in Parties
  PROVE  SettledAs(q, call'[q], stack'[q], outbox'[q], inbox'[q], q \in wants', q \in ensuring')
<1>1. /\ call'[q] = call[q] /\ stack'[q] = stack[q] /\ wants' = wants /\ ensuring' = ensuring
      /\ Heeds(q, e) => In(inbox'[q]) = In(inbox[q]) \cup {e}
      /\ ~Heeds(q, e) => inbox'[q] = inbox[q]
      /\ call[q].state = "Fledgling" => outbox'[q] = outbox[q]
  BY TakenContents DEF Takes
<1>2. CASE call[q].state # "Fledgling"
  <2>1. Begun(q, call[q], stack[q], inbox[q], q \in ensuring)
    BY <1>2, BegunNow
  <2>2. e.type = "invite" => ~Heeds(q, e)
    BY <1>2, InviteTaken, PartyTypes
  <2>3. ~Has(inbox'[q], "invite")
    BY <1>1, <2>1, <2>2 DEF Begun, Has
  <2>. QED
    BY <1>1, <1>2, <2>1, <2>3 DEF SettledAs, Begun
<1>3. CASE call[q].state = "Fledgling"
  <2>1. New(q, call[q], stack[q], outbox[q], inbox[q], q \in wants \/ q \in ensuring)
    BY <1>3 DEF Resolving, Settled, SettledAs
  <2>2. CASE ~Heeds(q, e)
    BY <1>1, <1>3, <2>1, <2>2 DEF SettledAs
  <2>3. CASE Heeds(q, e)
    <3>1. /\ inbox'[q] = Append(inbox[q], e) /\ inbox[q] \in Seq(Event) /\ e \in Event
          /\ call[q].known = FALSE
      BY <1>3, <2>3, PartyTypes, NewNow DEF Takes
    <3>2. /\ inbox[q] # <<>> => /\ Head(inbox'[q]) = Head(inbox[q])
                                /\ inbox'[q] = Append(inbox[q], e)
                                /\ Tail(inbox'[q]) = Append(Tail(inbox[q]), e)
          /\ inbox[q] = <<>> => Head(inbox'[q]) = e /\ Tail(inbox'[q]) = <<>>
      BY <3>1, AppendedContents
    <3>3. CASE e.type = "invite"
      <4>1. q # Caller /\ inbox[q] = <<>>
        BY <2>3, <3>3, InviteTaken, PartyTypes
      <4>2. ~Has(<<>>, "invite")
        BY SmallQueues DEF Has
      <4>. QED
        BY <1>1, <1>3, <2>1, <3>2, <3>3, <4>1, <4>2 DEF SettledAs, New
    <3>4. CASE e.type # "invite"
      <4>1. inbox[q] # <<>>
        BY <2>3, <3>1, <3>4 DEF Heeds
      <4>2. Tail(inbox[q]) \in Seq(Event)
        BY <3>1, <4>1, QueueContents
      <4>3. In(Tail(inbox'[q])) = In(Tail(inbox[q])) \cup {e}
        <5>1. \A t \in Seq(Event) : In(Append(t, e)) = In(t) \cup {e}
          BY <3>1, AppendedContents
        <5>. QED
          BY <3>2, <4>1, <4>2, <5>1, Zenon
      <4>4. ~Has(Tail(inbox'[q]), "invite")
        BY <2>1, <3>4, <4>1, <4>3 DEF New, Has
      <4>. QED
        BY <1>1, <1>3, <2>1, <3>2, <4>1, <4>4 DEF SettledAs, New
    <3>. QED
      BY <3>3, <3>4
  <2>. QED
    BY <2>2, <2>3
<1>. QED
  BY <1>2, <1>3

\* The invite comes to all the callees at the same time.
LEMMA TakenCalls ==
  ASSUME Good, Inv, Resolving, NEW p \in Parties, NEW e, Takes(p, e)
  PROVE  /\ UncalledAs(call'[Caller], stack'[Caller], outbox'[Caller], Caller \in accepted') =>
              \A q \in Callees : ~Called(call'[q], inbox'[q])
         /\ \A q, r \in Callees : Called(call'[q], inbox'[q]) => Called(call'[r], inbox'[r])
<1>0. Caller \in Parties /\ Callees \subseteq Parties
  BY PartyFacts
<1>1. ASSUME NEW q \in Callees, Called(call'[q], inbox'[q]), ~Called(call[q], inbox[q])
      PROVE  e.type = "invite"
  <2>1. Heeds(q, e) /\ call[q].state = "Fledgling" /\ inbox[q] = <<>>
    BY <1>0, <1>1, TakenContents DEF Called
  <2>. QED
    BY <1>0, <2>1, NewNow DEF Heeds
<1>2. ASSUME UncalledAs(call'[Caller], stack'[Caller], outbox'[Caller], Caller \in accepted'),
             NEW q \in Callees
      PROVE  ~Called(call'[q], inbox'[q])
  <2>1. /\ call'[Caller] = call[Caller] /\ stack'[Caller] = stack[Caller]
        /\ outbox'[Caller] = outbox[Caller]
        /\ Caller \in accepted' <=> p = Caller \/ Caller \in accepted
    BY <1>0, TakenContents DEF Takes
  <2>2. Uncalled
    BY <1>2, <2>1 DEF Uncalled, UncalledAs, Unsent
  <2>3. ~Called(call[q], inbox[q])
    BY <2>2 DEF Resolving
  <2>4. ASSUME e.type = "invite"
        PROVE  FALSE
    <3>1. p = Caller /\ e \in In(outbox[Caller]) /\ e = Head(outbox[Caller])
          /\ call[Caller].state # "Fledgling"
      BY <2>4, InviteTaken DEF Takes
    <3>2. stack[Caller] = "offer"
      BY <1>2, <2>1, <2>4, <3>1 DEF UncalledAs, Unsent
    <3>3. HangupsOnly(outbox[Caller])
      BY <3>2 DEF Inv, QuietBefore, Uninvited
    <3>. QED
      BY <2>4, <3>1, <3>3 DEF HangupsOnly, In
  <2>. QED
    BY <1>1, <2>3, <2>4
<1>3. ASSUME NEW q \in Callees, Called(call'[q], inbox'[q]), NEW r \in Callees
      PROVE  Called(call'[r], inbox'[r])
  <2>1. CASE Called(call[q], inbox[q])
    <3>1. Called(call[r], inbox[r])
      BY <2>1 DEF Resolving
    <3>. QED
      BY <1>0, <3>1, TakenContents DEF Called
  <2>2. CASE e.type = "invite"
    <3>1. Heeds(r, e)
      BY <2>2, InviteTaken
    <3>. QED
      BY <1>0, <3>1, TakenContents DEF Called
  <2>. QED
    BY <1>1, <1>3, <2>1, <2>2
<1>. QED
  BY <1>2, <1>3

\* An answer goes to the caller, a hang-up to every device.
LEMMA TakenIsFollowed ==
  ASSUME Good, Resolving, NEW p \in Parties, NEW e, Takes(p, e), NEW q \in Callees,
         Answers(call'[q], outbox'[q])
  PROVE  \/ Ending(call'[Caller], outbox'[Caller]) \/ Taken(link', outbox'[Caller])
         \/ Has(outbox'[q], "answer") \/ AnswerOf(inbox'[Caller], q)
<1>1. /\ Caller \in Parties /\ q \in Parties /\ q # Caller
      /\ link' = link /\ outbox'[Caller] = outbox[Caller] /\ call'[Caller] = call[Caller]
      /\ In(inbox[Caller]) \subseteq In(inbox'[Caller])
  BY PartyFacts, CallsAssumption, TakenContents DEF Takes
<1>2. Followed(q)
  BY <1>1, TakenContents DEF Resolving, Answers
<1>3. ASSUME Has(outbox[q], "answer"), ~Has(outbox'[q], "answer")
      PROVE  Ending(call'[Caller], outbox'[Caller]) \/ AnswerOf(inbox'[Caller], q)
  <2>1. p = q /\ e.type = "answer" /\ e.by = q
    BY <1>1, <1>3 DEF Takes, Sends, Has
  <2>2. Heeds(Caller, e) \/ call[Caller].over
    BY <1>1, <2>1, TakenIsHeard
  <2>3. Heeds(Caller, e) => e \in In(inbox'[Caller])
    BY <1>1, TakenContents
  <2>. QED
    BY <1>1, <2>1, <2>2, <2>3 DEF AnswerOf, Ending
<1>. QED
  BY <1>1, <1>2, <1>3 DEF Followed, Leaving, AnswerOf

LEMMA TakenHangsUp ==
  ASSUME Good, Resolving, NEW p \in Parties, NEW e, Takes(p, e), hungUp', NEW q \in Parties
  PROVE  \/ Ending(call'[q], outbox'[q]) \/ Ending(call'[Caller], outbox'[Caller])
         \/ Has(inbox'[q], "hangup")
<1>1. /\ Caller \in Parties
      /\ \A r \in Parties : Ending(call'[r], outbox'[r]) <=> Ending(call[r], outbox[r])
      /\ In(inbox[q]) \subseteq In(inbox'[q])
      /\ Heeds(q, e) => e \in In(inbox'[q])
  BY PartyFacts, TakenContents
<1>2. CASE hungUp
  <2>1. Leaving(q) \/ Leaving(Caller) \/ Has(inbox[q], "hangup")
    BY <1>2 DEF Resolving
  <2>. QED
    BY <1>1, <2>1 DEF Leaving, Has
<1>3. CASE e.type = "hangup"
  <2>1. Ending(call[p], outbox[p])
    BY <1>3 DEF Takes, Ending, Ends
  <2>2. CASE p = Caller \/ q = p
    BY <1>1, <2>1, <2>2
  <2>3. CASE p # Caller /\ q # p
    <3>1. Heeds(q, e) \/ call[q].over
      BY <2>3, TakenIsHeard, PartyTypes
    <3>. QED
      BY <1>1, <1>3, <3>1 DEF Has, Ending
  <2>. QED
    BY <2>2, <2>3
<1>. QED
  BY <1>2, <1>3 DEF Takes

LEMMA HomeserverResolves ==
  ASSUME Good, Inv, Resolving, NEW p \in Parties, HomeserverAccepts(p)
  PROVE  ResolvingNext
<1>1. PICK e \in Event : Takes(p, e)
  BY HomeserverTakes
<1>2. OnItsWay(call'[Caller], stack'[Caller], outbox'[Caller], link', selected')
  <2>1. /\ call'[Caller] = call[Caller] /\ stack'[Caller] = stack[Caller]
        /\ outbox'[Caller] = outbox[Caller] /\ link' = link /\ selected' = selected
    BY <1>1, PartyFacts, TakenContents DEF Takes
  <2>. QED
    BY <2>1 DEF Resolving
<1>. QED
  BY <1>1, <1>2, TakenSettles, TakenCalls, TakenIsFollowed, TakenHangsUp DEF ResolvingNext

(***************************************************************************)
(* The invariant, and what it says of a system that is at rest.            *)
(***************************************************************************)
LEMMA InitResolves == Init => Resolving
<1>. SUFFICES ASSUME Init
              PROVE  Resolving
  OBVIOUS
<1>1. /\ Caller \in Parties /\ Callees \subseteq Parties /\ ~hungUp /\ link = Caller /\ selected = Caller
      /\ \A p \in Parties : /\ call[p] = Fledgling /\ stack[p] = "none" /\ outbox[p] = <<>>
                            /\ inbox[p] = <<>> /\ p \notin wants /\ p \notin ensuring
  BY PartyFacts DEF Init
<1>2. Fledgling.state = "Fledgling"
  BY DEF Fledgling
<1>3. \A p \in Parties : Settled(p)
  BY <1>1, <1>2 DEF Settled, SettledAs, New
<1>4. OnItsWay(call[Caller], stack[Caller], outbox[Caller], link, selected)
  BY <1>1, <1>2 DEF OnItsWay, Conversation
<1>5. \A p \in Callees : ~Called(call[p], inbox[p]) /\ ~Answers(call[p], outbox[p])
  BY <1>1, <1>2 DEF Called, Answers, Conversation
<1>. QED
  BY <1>1, <1>3, <1>4, <1>5 DEF Resolving

LEMMA ResolvingKept ==
  ASSUME Inv, Resolving, [Next]_vars
  PROVE  Resolving'
<1>0. Good /\ Caller \in Parties /\ Callees \subseteq Parties
  BY GoodIsTypes, PartyFacts DEF Inv
<1>1. ASSUME NEW p \in Parties, Goes(p)
      PROVE  Resolving'
  BY <1>0, <1>1, GoingKeepsResolving, NextMeansNext
<1>2. CASE Users
  BY <1>0, <1>1, <1>2, CallWithVideoGoes, AnsweringGoes, HangsUpGoes DEF Users
<1>3. CASE Trouble
  BY <1>0, <1>1, <1>3, HangsUpGoes, SendFailsGoes DEF Trouble
<1>4. CASE System
  <2>1. ASSUME NEW p \in Callees, TryAnswer(p) \/ EncryptionEnsured(p)
        PROVE  Resolving'
    BY <1>0, <1>1, <2>1, AnsweringGoes
  <2>2. ASSUME NEW p \in Parties, HomeserverAccepts(p)
        PROVE  Resolving'
    BY <1>0, <2>2, HomeserverResolves, NextMeansNext
  <2>3. ASSUME NEW p \in Parties, Stack(p)
        PROVE  Resolving'
    BY <1>0, <1>1, <2>3, OfferCreatedGoes, OfferHandledGoes, SilentGoes, ConnectingGoes, HangsUpGoes
    DEF Stack
  <2>4. ASSUME NEW p \in Parties, ExpireCallInvite(p) \/ Request(p) \/ Receive(p)
        PROVE  Resolving'
    BY <1>0, <1>1, <2>4, ExpiryGoes, RequestGoes, ReceivingGoes
  <2>. QED
    BY <1>4, <2>1, <2>2, <2>3, <2>4 DEF System
<1>5. CASE UNCHANGED vars
  <2>1. ResolvingNext
    BY <1>5 DEF vars, queue, history, ResolvingNext, Resolving, Settled, Uncalled, Followed, Leaving
  <2>. QED
    BY <2>1, NextMeansNext
<1>. QED
  BY <1>2, <1>3, <1>4, <1>5 DEF Next

LEMMA ResolvingAlways == Spec => []Resolving
BY InvAlways, InitResolves, ResolvingKept, PTL DEF Spec

\* Whatever is lost and whoever hangs up: when nothing is left to do, no call rings or
\* connects for ever, and none is connected when a device has hung up.
THEOREM CallsAreResolved == Spec => []CallsResolve
<1>1. ASSUME Inv, Resolving, AtRest, NEW p \in Parties, Live(p), ~call[p].over
      PROVE  ~hungUp /\ call[p].state = "Connected" /\ Linked(p)
  <2>0. /\ Caller \in Parties /\ Callees \subseteq Parties /\ link \in Parties
        /\ (p # Caller => p \in Callees) /\ (link # Caller => link \in Callees) /\ Caller \notin Callees
    BY <1>1, GoodIsTypes, PartyTypes, PartyFacts, CallsAssumption DEF Inv, Good, AnswersGood
  <2>1. \A q \in Parties : /\ outbox[q] = <<>> /\ inbox[q] = <<>> /\ stack[q] = "none"
                           /\ ~call[q].timer
                           /\ ~(call[q].state = "Connecting" /\ Linked(q))
                           /\ call[q].state \in Conversation /\ ~call[q].over => ~PeerIsGone(q)
    BY <1>1 DEF AtRest
  <2>2. /\ \A c : Ending(c, <<>>) <=> c.over
        /\ \A type : ~Has(<<>>, type)
        /\ ~Chosen(<<>>) /\ \A q : ~AnswerOf(<<>>, q)
    BY SmallQueues DEF Ending, Has, Chosen, AnswerOf
  <2>3. call[p].state \in State \ {"Fledgling", "Ended"}
    BY <1>1, GoodIsTypes, PartyTypes DEF Inv, Live, Call
  <2>4. Begun(p, call[p], stack[p], inbox[p], p \in ensuring)
    BY <1>1, <2>3, BegunNow
  <2>5. call[p].state \in Conversation
    <3>1. CASE p = Caller
      <4>1. OnItsWay(call[p], "none", <<>>, link, selected)
        BY <1>1, <2>1, <3>1 DEF Resolving
      <4>2. call[p].state # "Ringing"
        BY <1>1, <3>1 DEF Inv, Origins
      <4>. QED
        BY <1>1, <2>1, <2>2, <2>3, <4>1, <4>2 DEF OnItsWay, State, Conversation
    <3>2. CASE p # Caller
      BY <1>1, <2>1, <2>3, <2>4, <3>2 DEF Begun, Timed, State, Conversation
    <3>. QED
      BY <3>1, <3>2
  <2>6. ~PeerIsGone(p)
    BY <1>1, <2>1, <2>5
  <2>7. link # Caller /\ (p = Caller \/ p = link) /\ ~call[Caller].over /\ ~call[link].over
    <3>1. CASE p = Caller
      <4>1. OnItsWay(call[p], "none", <<>>, link, selected)
        BY <1>1, <2>1, <3>1 DEF Resolving
      <4>2. link # Caller
        BY <1>1, <2>2, <2>5, <4>1 DEF OnItsWay
      <4>. QED
        BY <1>1, <2>6, <3>1, <4>2 DEF PeerIsGone
    <3>2. CASE p # Caller
      <4>1. ~call[Caller].over /\ link \in {Caller, p}
        BY <2>6, <3>2 DEF PeerIsGone
      <4>2. Answers(call[p], outbox[p])
        BY <1>1, <2>1, <2>2, <2>5 DEF Answers
      <4>3. Followed(p)
        BY <1>1, <2>0, <3>2, <4>2 DEF Resolving
      <4>4. link # Caller
        BY <2>0, <2>1, <2>2, <4>1, <4>3 DEF Followed, Leaving, Taken
      <4>. QED
        BY <1>1, <4>1, <4>4
    <3>. QED
      BY <3>1, <3>2
  <2>8. Linked(p)
    BY <2>7 DEF Linked
  <2>9. call[p].state = "Connected"
    BY <1>1, <2>1, <2>5, <2>8 DEF Conversation
  <2>10. ~hungUp
    BY <1>1, <2>0, <2>1, <2>2, <2>7 DEF Resolving, Leaving
  <2>. QED
    BY <2>8, <2>9, <2>10
<1>2. Inv /\ Resolving => CallsResolve
  BY <1>1 DEF CallsResolve
<1>. QED
  BY <1>2, InvAlways, ResolvingAlways, PTL
=============================================================================
