---------------------------- MODULE MegolmProofs ----------------------------
(***************************************************************************)
(* Theorems about MegolmEncryption, for any devices, messages, sessions    *)
(* and disturbances.                                                       *)
(*                                                                         *)
(* The invariant has three layers: what holds of whatever calls are under  *)
(* way; what holds while no two messages are being encrypted at once, when *)
(* every copy of a ratchet that is about to encrypt is ahead of what has   *)
(* been encrypted and shared; and what holds while no two calls are under  *)
(* way at once, when only one call can give a session to anybody.          *)
(***************************************************************************)
EXTENDS MegolmEncryption, SequenceTheorems, TLAPS

(***************************************************************************)
(* The inductive invariant.                                                *)
(***************************************************************************)
\* The messages that have been handed over are the first ones, and no ratchet is ahead of
\* what they need.
Counted(k) ==
  /\ \A m \in Msgs : answer[m] # "unasked" <=> m <= k
  /\ \A i \in DOMAIN pending : pending[i] <= k
  /\ \A m \in Msgs : cipher[m].id # 0 => m <= k
  /\ stored.index + Len(pending) <= k
  /\ \A c \in Calls : calls[c].session.index + Len(pending) <= k

Count == \E k \in 0..MaxMsg : Counted(k)

\* The call has a session, and has not failed.
Busy(c) == calls[c].stage \in {"olm", "send", "ready"}

\* Sessions are numbered as they are created; nobody has one that does not exist.
Numbered ==
  /\ stored.id <= created
  /\ \A c \in Calls : calls[c].session.id <= created
  /\ \A m \in Msgs : cipher[m].id <= created
  /\ \A s \in Sessions, d \in Devices : s > created => shared[s][d] = Never

\* A device that has a key was given it by a request that was marked, or failed.
Given ==
  \A d \in Devices, s \in Sessions :
    keys[d][s] # Never => shared[s][d] # Never \/ <<d, s>> \in unmarked

\* What a call shares, and with whom; and what is known when it has shared it.
Shares(c) ==
  /\ calls[c].targets \cup calls[c].inProgress \subseteq calls[c].shareMap
  /\ calls[c].shareMap \subseteq calls[c].users
  /\ Busy(c) =>
       /\ calls[c].session.id # 0
       /\ \A d \in calls[c].users : 
            shared[calls[c].session.id][d] # Never \/ d \in calls[c].shareMap

\* In the end the devices of the call have the key, or had been given it, or have no
\* Olm session.
Sharing == \A c \in Calls :
  /\ Shares(c)
  /\ calls[c].stage = "ready" => \A d \in calls[c].users :
       \/ keys[d][calls[c].session.id] <= calls[c].session.index
       \/ shared[calls[c].session.id][d] # Never
       \/ d \in calls[c].shareMap \ calls[c].targets

\* One message at a time.
OneAtATime ==
  \/ pending = <<>> /\ \A m \in Msgs : calls[m].stage = "idle"
  \/ \E m \in Msgs : pending = <<m>> /\ \A n \in Msgs : calls[n].stage # "idle" <=> n = m

\* Of one session, what encrypts next is ahead of what has been encrypted, and of what has
\* been shared.
Ahead(s, index) ==
  /\ \A m \in Msgs : cipher[m].id = s => cipher[m].index < index
  /\ \A d \in Devices : shared[s][d] # Never => shared[s][d] <= index

Ratchets ==
  /\ stored.id # 0 => Ahead(stored.id, stored.index)
  /\ \A m \in Msgs : Busy(m) =>
       /\ Ahead(calls[m].session.id, calls[m].session.index)
       /\ stored.id = calls[m].session.id => stored.index = calls[m].session.index
  /\ Busy(Ensure) =>
       /\ stored.id = calls[Ensure].session.id => calls[Ensure].session.index <= stored.index
       /\ \A m \in Msgs : Busy(m) /\ calls[m].session.id = calls[Ensure].session.id =>
            calls[Ensure].session.index <= calls[m].session.index

Encryptions ==
  /\ OneAtATime
  /\ Ratchets
  /\ \A m \in Ciphered : calls[m].stage = "idle"
  /\ NoIndexReuse /\ Decryptable

\* One call at a time.
Private ==
  /\ \A c, e \in Calls : c # e => calls[c].stage = "idle" \/ calls[e].stage = "idle"
  /\ Busy(Ensure) => \A m \in Msgs : cipher[m].id = calls[Ensure].session.id =>
       cipher[m].index < calls[Ensure].session.index
  /\ \A c \in Calls : Busy(c) => \A d \in Devices \ calls[c].users :
       shared[calls[c].session.id][d] = Never
  /\ \A m \in Ciphered : \A d \in Devices \ calls[m].users :
       /\ shared[cipher[m].id][d] > cipher[m].index
       /\ keys[d][cipher[m].id] > cipher[m].index \/ <<d, cipher[m].id>> \in unmarked

Inv ==
  /\ TypeOK /\ Count /\ Numbered /\ Given /\ Sharing
  /\ "encryption" \notin overlapped => Encryptions
  /\ overlapped = {} => Private

(***************************************************************************)
(* Operators.                                                              *)
(***************************************************************************)
LEMMA Numbers ==
  /\ MaxMsg \in Nat /\ MaxSession \in Nat /\ Never = MaxMsg + 1 /\ Never \notin Index
  /\ Index \subseteq Nat /\ Index \cup {Never} \subseteq Nat /\ 0 \in Index
  /\ Msgs \subseteq Calls /\ Ensure \in Calls /\ Ensure \notin Msgs
BY MegolmAssumption, MaxMsgAssumption DEF Never, Index, Msgs, Calls, Ensure

LEMMA MinOfTwo ==
  ASSUME NEW i \in Nat, NEW j \in Nat
  PROVE  Min({i, j}) \in {i, j} /\ Min({i, j}) <= i /\ Min({i, j}) <= j
<1>1. \E x \in {i, j} : \A y \in {i, j} : x <= y
  OBVIOUS
<1>. QED
  BY <1>1 DEF Min

LEMMA Counts ==
  ASSUME TypeOK
  PROVE  /\ Len(pending) \in Nat /\ stored.index \in Nat /\ stored.index \in Index
         /\ \A c \in Calls : calls[c].session.index \in Index /\ calls[c].session.index \in Nat
         /\ \A m \in Msgs : cipher[m].index \in Index /\ cipher[m].index \in Nat
<1>1. Len(pending) \in Nat
  BY LenProperties DEF TypeOK
<1>2. stored.index \in Index /\ \A m \in Msgs : cipher[m].index \in Index
  BY DEF TypeOK, Outbound
<1>3. ASSUME NEW c \in Calls
      PROVE  calls[c].session.index \in Index
  <2>1. calls[c] \in Call
    BY DEF TypeOK
  <2>. QED
    BY <2>1 DEF Call, SessionInfo
<1>. QED
  BY <1>1, <1>2, <1>3, Numbers

\* A call that goes to another stage.
Staged(x, s) == [x EXCEPT !.stage = s]

LEMMA StagedCall ==
  ASSUME NEW x \in Call, NEW s \in Stage, NEW y, y = Staged(x, s)
  PROVE  /\ y \in Call /\ y.stage = s /\ y.users = x.users /\ y.session = x.session
         /\ y.shareMap = x.shareMap /\ y.targets = x.targets /\ y.inProgress = x.inProgress
         /\ y.claim = x.claim
BY DEF Staged, Call

LEMMA CallReplaced ==
  ASSUME calls \in [Calls -> Call], NEW c \in Calls, NEW x \in Call, calls' = [calls EXCEPT ![c] = x]
  PROVE  /\ calls' \in [Calls -> Call] /\ calls'[c] = x
         /\ \A e \in Calls : e # c => calls'[e] = calls[e]
OBVIOUS

LEMMA CallStaged ==
  ASSUME calls \in [Calls -> Call], NEW c \in Calls, NEW s \in Stage,
         calls' = [calls EXCEPT ![c].stage = s]
  PROVE  /\ calls' \in [Calls -> Call] /\ calls'[c] = Staged(calls[c], s)
         /\ \A e \in Calls : e # c => calls'[e] = calls[e]
BY DEF Staged, Call

LEMMA AskedCall ==
  ASSUME TypeOK
  PROVE  /\ Asked \in Call /\ Asked.stage = "devices" /\ Asked.users = room
         /\ Asked.session = [id |-> 0, index |-> 0, useCount |-> 0]
         /\ Asked.shareMap = {} /\ Asked.targets = {} /\ Asked.inProgress = {} /\ Asked.claim = {}
BY Numbers DEF Asked, NoCall, Call, TypeOK, Stage, SessionInfo

LEMMA AfterOlmCall ==
  ASSUME NEW x \in Call, NEW y, y = AfterOlm(x)
  PROVE  /\ y \in Call /\ y.users = x.users /\ y.session = x.session
         /\ y.shareMap = x.shareMap /\ y.targets = x.targets /\ y.inProgress = x.inProgress
         /\ y.claim = x.claim /\ y.stage \in {"olm", "send", "ready"}
         /\ y.stage = "ready" => x.targets = {}
BY StagedCall DEF AfterOlm, Staged, Stage

(***************************************************************************)
(* Steps that give nobody anything: the stages of the calls move on.       *)
(***************************************************************************)
CalmCall(c) ==
  /\ calls'[c].users = calls[c].users /\ calls'[c].session = calls[c].session
  /\ calls'[c].shareMap = calls[c].shareMap
  /\ calls'[c].targets \cup calls'[c].inProgress \subseteq calls[c].shareMap
  /\ calls'[c].stage # "idle" => calls[c].stage # "idle"
  /\ Busy(c)' => Busy(c)
  /\ calls[c].stage = "idle" => calls'[c].targets = calls[c].targets
  /\ calls'[c].stage = "ready" =>
       \/ calls[c].stage = "ready" /\ calls'[c].targets = calls[c].targets
       \/ calls'[c].targets = {}

Calm ==
  /\ \A c \in Calls : CalmCall(c)
  /\ UNCHANGED <<created, shared, cipher, keys, history>>
  /\ stored' \in {stored, NoSession}
  /\ pending' \in {pending, <<>>}
  /\ \A m \in Msgs : answer'[m] = "unasked" <=> answer[m] = "unasked"
  /\ OneAtATime => OneAtATime'

LEMMA SmallerSum ==
  ASSUME NEW i \in Nat, NEW n \in Nat, NEW k \in Nat, i + n <= k,
         NEW j \in Nat, j <= i, NEW p \in Nat, p <= n
  PROVE  j + p <= k
OBVIOUS

LEMMA CalmCounts ==
  ASSUME TypeOK, Count, Calm
  PROVE  Count'
<1>1. PICK k \in 0..MaxMsg : Counted(k)
  BY DEF Count
<1>2. pending' = pending \/ (pending' = <<>> /\ Len(pending') = 0 /\ DOMAIN pending' = {})
  BY DEF Calm
<1>3. Len(pending) \in Nat /\ stored.index \in Nat /\ k \in Nat
      /\ \A c \in Calls : calls[c].session.index \in Nat
  BY Counts
<1>4. stored' = stored \/ stored'.index = 0
  BY DEF Calm, NoSession
<1>5. Len(pending') \in Nat /\ Len(pending') <= Len(pending)
  BY <1>2, <1>3
<1>6. stored'.index + Len(pending') <= k /\ \A c \in Calls : calls'[c].session.index + Len(pending') <= k
  <2>1. stored.index + Len(pending) <= k /\ \A c \in Calls : calls[c].session.index + Len(pending) <= k
    BY <1>1 DEF Counted
  <2>2. \A c \in Calls : calls'[c].session = calls[c].session
    BY DEF Calm, CalmCall
  <2>3. stored'.index + Len(pending') <= k
    <3>1. stored'.index \in Nat /\ stored'.index <= stored.index
      BY <1>3, <1>4
    <3>. QED
      BY <1>3, <1>5, <2>1, <3>1, SmallerSum
  <2>4. ASSUME NEW c \in Calls
        PROVE  calls'[c].session.index + Len(pending') <= k
    <3>1. calls'[c].session.index \in Nat /\ calls'[c].session.index <= calls[c].session.index
      BY <1>3, <2>2
    <3>. QED
      BY <1>3, <1>5, <2>1, <3>1, SmallerSum
  <2>. QED
    BY <2>3, <2>4
<1>7. Counted(k)'
  BY <1>1, <1>2, <1>6 DEF Counted, Calm
<1>. QED
  BY <1>7 DEF Count

LEMMA CalmNumbers ==
  ASSUME TypeOK, Numbered, Given, Calm
  PROVE  Numbered' /\ Given'
<1>1. stored'.id <= created
  BY Numbers DEF TypeOK, Numbered, Calm, NoSession
<1>. QED
  BY <1>1 DEF Numbered, Given, Calm, CalmCall, history

LEMMA CalmShares ==
  ASSUME Sharing, Calm
  PROVE  Sharing'
<1>. SUFFICES ASSUME NEW c \in Calls
              PROVE  /\ Shares(c)'
                     /\ calls'[c].stage = "ready" => \A d \in calls'[c].users :
                          \/ keys'[d][calls'[c].session.id] <= calls'[c].session.index
                          \/ shared'[calls'[c].session.id][d] # Never
                          \/ d \in calls'[c].shareMap \ calls'[c].targets
  BY DEF Sharing
<1>1. Shares(c)'
  BY DEF Sharing, Shares, Calm, CalmCall
<1>2. calls'[c].stage = "ready" => Busy(c)
  BY DEF Calm, CalmCall, Busy
<1>3. ASSUME calls'[c].stage = "ready", calls'[c].targets = {}, NEW d \in calls'[c].users
      PROVE  shared'[calls'[c].session.id][d] # Never \/ d \in calls'[c].shareMap
  BY <1>2, <1>3 DEF Sharing, Shares, Calm, CalmCall
<1>. QED
  BY <1>1, <1>3 DEF Sharing, Calm, CalmCall

LEMMA CalmEncrypts ==
  ASSUME TypeOK, Sharing, Encryptions, Calm
  PROVE  Encryptions'
<1>1. OneAtATime'
  BY DEF Encryptions, Calm
<1>2. Ratchets'
  <2>1. Ratchets /\ UNCHANGED <<cipher, shared>> /\ \A c \in Calls : calls'[c].session = calls[c].session
    BY DEF Encryptions, Calm, CalmCall
  <2>2. \A c \in Calls : Busy(c)' => Busy(c) /\ calls[c].session.id # 0
    BY DEF Calm, CalmCall, Sharing, Shares
  <2>3. stored' = stored \/ stored'.id = 0
    BY DEF Calm, NoSession
  <2>. QED
    BY <2>1, <2>2, <2>3, Numbers DEF Ratchets, Ahead
<1>3. Ciphered' = Ciphered /\ \A m \in Ciphered : m \in Calls /\ calls[m].stage = "idle"
  BY Numbers DEF Encryptions, Ciphered, Calm
<1>4. (\A m \in Ciphered : calls[m].stage = "idle")'
  BY <1>3 DEF Calm, CalmCall
<1>5. NoIndexReuse'
  BY <1>3 DEF Encryptions, NoIndexReuse, Calm, history
<1>6. Decryptable'
  BY <1>3 DEF Encryptions, Decryptable, Calm, CalmCall, history
<1>. QED
  BY <1>1, <1>2, <1>4, <1>5, <1>6 DEF Encryptions

LEMMA CalmIsPrivate ==
  ASSUME Private, Calm
  PROVE  Private'
<1>1. Ciphered' = Ciphered /\ Ciphered \subseteq Calls
  BY Numbers DEF Ciphered, Calm
<1>2. Ensure \in Calls
  BY Numbers
<1>. QED
  BY <1>1, <1>2 DEF Private, Calm, CalmCall, history

LEMMA CalmKeeps ==
  ASSUME Inv, TypeOK', Calm
  PROVE  Inv'
<1>1. overlapped' = overlapped
  BY DEF Calm, history
<1>. QED
  BY <1>1, CalmCounts, CalmNumbers, CalmShares, CalmEncrypts, CalmIsPrivate DEF Inv

LEMMA Disturbed ==
  ASSUME TypeOK, Disturb
  PROVE  events' \in 0..MaxEvents
BY MegolmAssumption DEF TypeOK, Disturb

\* A call that stays as it is.
LEMMA SameCall ==
  ASSUME Sharing, NEW c \in Calls, calls'[c] = calls[c]
  PROVE  CalmCall(c)
BY DEF Sharing, Shares, CalmCall, Busy

\* A call that fails or ends.
LEMMA EndedCall ==
  ASSUME TypeOK, Sharing, NEW c \in Calls, NEW s \in {"idle", "failed"},
         calls'[c] = Staged(calls[c], s), calls[c].stage # "idle"
  PROVE  CalmCall(c)
<1>1. calls[c] \in Call /\ s \in Stage
  BY DEF TypeOK, Stage
<1>2. /\ calls'[c].stage = s /\ calls'[c].users = calls[c].users /\ calls'[c].session = calls[c].session
      /\ calls'[c].shareMap = calls[c].shareMap /\ calls'[c].targets = calls[c].targets
      /\ calls'[c].inProgress = calls[c].inProgress
  BY <1>1, StagedCall
<1>. QED
  BY <1>2 DEF Sharing, Shares, CalmCall, Busy

LEMMA SameQueue ==
  ASSUME pending' = pending,
         \A m \in Msgs : calls'[m].stage = "idle" <=> calls[m].stage = "idle"
  PROVE  OneAtATime => OneAtATime'
BY DEF OneAtATime

LEMMA QuietKeeps ==
  ASSUME Inv, MembersChange \/ \E m \in Msgs : CancelSendingOperation(m)
  PROVE  Inv'
<1>1. /\ UNCHANGED <<store, claiming, calls, pending, answer, cipher, keys, history>>
      /\ room' \in SUBSET Devices /\ cancelled' \in SUBSET Msgs /\ events' \in 0..MaxEvents
  BY MegolmAssumption DEF MembersChange, CancelSendingOperation, Disturb, Inv, TypeOK, messages
<1>2. TypeOK'
  BY <1>1 DEF Inv, TypeOK, store, history
<1>3. Calm
  <2>1. \A c \in Calls : CalmCall(c)
    BY <1>1, SameCall DEF Inv
  <2>2. OneAtATime => OneAtATime'
    BY <1>1, SameQueue
  <2>. QED
    BY <1>1, <2>1, <2>2 DEF Calm, store, history
<1>. QED
  BY <1>2, <1>3, CalmKeeps

LEMMA DiscardKeeps ==
  ASSUME Inv, DiscardOutboundGroupSession
  PROVE  Inv'
<1>1. /\ UNCHANGED <<room, created, shared, olm, claiming, calls, pending, messages, cipher, keys, history>>
      /\ stored' = NoSession /\ events' \in 0..MaxEvents
  BY MegolmAssumption DEF DiscardOutboundGroupSession, Disturb, Inv, TypeOK
<1>2. TypeOK'
  BY <1>1, Numbers DEF Inv, TypeOK, Outbound, NoSession, messages, history
<1>3. Calm
  <2>1. \A c \in Calls : CalmCall(c)
    BY <1>1, SameCall DEF Inv
  <2>2. OneAtATime => OneAtATime'
    BY <1>1, SameQueue
  <2>. QED
    BY <1>1, <2>1, <2>2 DEF Calm, messages, history
<1>. QED
  BY <1>2, <1>3, CalmKeeps

LEMMA GetDevicesFailsKeeps ==
  ASSUME Inv, NEW c \in Calls, GetDevicesFails(c)
  PROVE  Inv'
<1>1. /\ UNCHANGED <<room, store, claiming, pending, messages, cipher, keys, history>>
      /\ events' \in 0..MaxEvents
      /\ calls[c].stage = "devices" /\ calls' = [calls EXCEPT ![c].stage = "failed"]
  BY MegolmAssumption DEF GetDevicesFails, Disturb, Inv, TypeOK
<1>2. TypeOK /\ Sharing /\ calls \in [Calls -> Call] /\ "failed" \in Stage
  BY DEF Inv, TypeOK, Stage
<1>3. /\ calls' \in [Calls -> Call] /\ calls'[c] = Staged(calls[c], "failed")
      /\ \A e \in Calls : e # c => calls'[e] = calls[e]
  BY <1>1, <1>2, CallStaged
<1>4. TypeOK'
  BY <1>1, <1>2, <1>3 DEF TypeOK, store, messages, history
<1>5. Calm
  <2>1. CalmCall(c)
    BY <1>1, <1>2, <1>3, EndedCall
  <2>2. \A e \in Calls : CalmCall(e)
    BY <1>2, <1>3, <2>1, SameCall
  <2>3. calls'[c].stage = "failed"
    BY <1>2, <1>3, StagedCall
  <2>4. OneAtATime => OneAtATime'
    BY <1>1, <1>3, <2>3, SameQueue, Numbers
  <2>. QED
    BY <1>1, <2>2, <2>4 DEF Calm, store, messages, history
<1>. QED
  BY <1>4, <1>5, CalmKeeps

LEMMA EnsureEndsKeeps ==
  ASSUME Inv, EnsureEnds
  PROVE  Inv'
<1>1. /\ UNCHANGED <<room, store, claiming, pending, messages, cipher, keys, history, events>>
      /\ calls[Ensure].stage # "idle" /\ calls' = [calls EXCEPT ![Ensure].stage = "idle"]
  BY DEF EnsureEnds
<1>2. TypeOK /\ Sharing /\ calls \in [Calls -> Call] /\ "idle" \in Stage
  BY DEF Inv, TypeOK, Stage
<1>3. /\ calls' \in [Calls -> Call] /\ calls'[Ensure] = Staged(calls[Ensure], "idle")
      /\ \A e \in Calls : e # Ensure => calls'[e] = calls[e]
  BY <1>1, <1>2, CallStaged, Numbers
<1>4. TypeOK'
  BY <1>1, <1>2, <1>3 DEF TypeOK, store, messages, history
<1>5. Calm
  <2>1. CalmCall(Ensure)
    BY <1>1, <1>2, <1>3, EndedCall, Numbers
  <2>2. \A e \in Calls : CalmCall(e)
    BY <1>2, <1>3, <2>1, SameCall
  <2>4. OneAtATime => OneAtATime'
    BY <1>1, <1>3, SameQueue, Numbers
  <2>. QED
    BY <1>1, <2>2, <2>4 DEF Calm, store, messages, history
<1>. QED
  BY <1>4, <1>5, CalmKeeps

LEMMA AnsweredMessages ==
  ASSUME TypeOK, NEW outcome \in {"encrypted", "failed"}, answer' = Answered(outcome),
         \A i \in DOMAIN pending : answer[pending[i]] # "unasked"
  PROVE  /\ answer' \in [Msgs -> {"unasked", "waiting", "encrypted", "failed"}]
         /\ \A m \in Msgs : answer'[m] = "unasked" <=> answer[m] = "unasked"
BY DEF TypeOK, Answered

LEMMA PendingAsked ==
  ASSUME TypeOK, Count
  PROVE  \A i \in DOMAIN pending : pending[i] \in Msgs /\ answer[pending[i]] # "unasked"
<1>1. \A i \in DOMAIN pending : pending[i] \in Msgs
  BY DEF TypeOK
<1>. QED
  BY <1>1 DEF Count, Counted

LEMMA FailPendingKeeps ==
  ASSUME Inv, NEW c \in Calls, FailPending(c)
  PROVE  Inv'
<1>1. /\ UNCHANGED <<room, store, claiming, cancelled, cipher, keys, history, events>>
      /\ calls[c].stage # "idle" /\ calls' = [calls EXCEPT ![c].stage = "idle"] /\ c \in Msgs
      /\ pending' = <<>> /\ answer' = Answered("failed")
  BY DEF FailPending, Calls
<1>2. TypeOK /\ Sharing /\ calls \in [Calls -> Call] /\ "idle" \in Stage /\ Count
  BY DEF Inv, TypeOK, Stage
<1>3. /\ calls' \in [Calls -> Call] /\ calls'[c] = Staged(calls[c], "idle")
      /\ \A e \in Calls : e # c => calls'[e] = calls[e]
  BY <1>1, <1>2, CallStaged
<1>4. /\ answer' \in [Msgs -> {"unasked", "waiting", "encrypted", "failed"}]
      /\ \A m \in Msgs : answer'[m] = "unasked" <=> answer[m] = "unasked"
  BY <1>1, <1>2, PendingAsked, AnsweredMessages
<1>5. pending' \in Seq(Msgs)
  BY <1>1
<1>6. TypeOK'
  BY <1>1, <1>2, <1>3, <1>4, <1>5 DEF TypeOK, store, history
<1>7. Calm
  <2>1. CalmCall(c)
    BY <1>1, <1>2, <1>3, EndedCall
  <2>2. \A e \in Calls : CalmCall(e)
    BY <1>2, <1>3, <2>1, SameCall
  <2>3. calls'[c].stage = "idle"
    BY <1>2, <1>3, StagedCall
  <2>4. OneAtATime => OneAtATime'
    BY <1>1, <1>3, <2>3, Numbers DEF OneAtATime
  <2>. QED
    BY <1>1, <1>4, <2>2, <2>4 DEF Calm, store, history
<1>. QED
  BY <1>6, <1>7, CalmKeeps

LEMMA RestartKeeps ==
  ASSUME Inv, Restart
  PROVE  Inv'
<1>1. /\ UNCHANGED <<room, store, cancelled, cipher, keys, history>> /\ events' \in 0..MaxEvents
      /\ claiming' = {} /\ pending' = <<>>
      /\ answer' = [m \in Msgs |-> IF answer[m] = "waiting" THEN "failed" ELSE answer[m]]
      /\ calls' = [c \in Calls |->
           [calls[c] EXCEPT !.stage = "idle", !.claim = {}, !.inProgress = {}]]
  BY Disturbed DEF Restart, Inv
<1>2. TypeOK /\ Sharing /\ calls \in [Calls -> Call] /\ pending' = <<>>
  BY <1>1 DEF Inv, TypeOK
<1>3. ASSUME NEW c \in Calls
      PROVE  /\ calls'[c] \in Call /\ calls'[c].stage = "idle" /\ calls'[c].inProgress = {}
             /\ calls'[c].users = calls[c].users /\ calls'[c].session = calls[c].session
             /\ calls'[c].shareMap = calls[c].shareMap /\ calls'[c].targets = calls[c].targets
  <2>1. calls[c] \in Call /\ calls'[c] = [calls[c] EXCEPT !.stage = "idle", !.claim = {}, !.inProgress = {}]
    BY <1>1, <1>2
  <2>. QED
    BY <2>1 DEF Call, Stage
<1>4. TypeOK'
  <2>1. calls' \in [Calls -> Call]
    BY <1>1, <1>3
  <2>2. answer' \in [Msgs -> {"unasked", "waiting", "encrypted", "failed"}]
    BY <1>1, <1>2 DEF TypeOK
  <2>3. pending' \in Seq(Msgs)
    BY <1>2
  <2>. QED
    BY <1>1, <1>2, <2>1, <2>2, <2>3 DEF TypeOK, store, history
<1>5. Calm
  <2>1. \A c \in Calls : CalmCall(c)
    BY <1>2, <1>3 DEF Sharing, Shares, CalmCall, Busy
  <2>2. OneAtATime'
    BY <1>1, <1>3, Numbers DEF OneAtATime
  <2>3. \A m \in Msgs : answer'[m] = "unasked" <=> answer[m] = "unasked"
    BY <1>1
  <2>. QED
    BY <1>1, <2>1, <2>2, <2>3 DEF Calm, store, history
<1>. QED
  BY <1>4, <1>5, CalmKeeps

LEMMA ClaimAnsweredKeeps ==
  ASSUME Inv, NEW c \in Calls, NEW got \in SUBSET calls[c].claim, ClaimAnswered(c, got)
  PROVE  Inv'
<1>. DEFINE claim == calls[c].claim
            notified(d) == [calls[d] EXCEPT !.inProgress = @ \ claim,
                              !.targets = @ \cup (calls[d].inProgress \cap got)]
            after(d) == IF Waits(d, claim) THEN AfterOlm(notified(d)) ELSE calls[d]
<1>1. /\ UNCHANGED <<room, stored, created, shared, pending, messages, cipher, keys, history, events>>
      /\ olm' = olm \cup got /\ claiming' = claiming \ (claim \cap Awaited(claim))
      /\ calls' = [d \in Calls |-> IF d = c THEN [after(d) EXCEPT !.claim = {}] ELSE after(d)]
  BY DEF ClaimAnswered
<1>2. TypeOK /\ Sharing /\ calls \in [Calls -> Call] /\ claim \in SUBSET Devices /\ got \in SUBSET Devices
  BY DEF Inv, TypeOK, Call
<1>3. ASSUME NEW d \in Calls, Waits(d, claim)
      PROVE  /\ after(d) \in Call /\ after(d).stage \in {"olm", "send", "ready"} /\ calls[d].stage = "olm"
             /\ after(d).users = calls[d].users /\ after(d).session = calls[d].session
             /\ after(d).shareMap = calls[d].shareMap
             /\ after(d).targets \cup after(d).inProgress \subseteq calls[d].targets \cup calls[d].inProgress
             /\ after(d).stage = "ready" => after(d).targets = {}
  <2>. DEFINE n == notified(d)
  <2>1. calls[d] \in Call
    BY <1>2
  <2>2. /\ n \in Call /\ n.users = calls[d].users /\ n.session = calls[d].session
        /\ n.shareMap = calls[d].shareMap /\ n.inProgress = calls[d].inProgress \ claim
        /\ n.targets = calls[d].targets \cup (calls[d].inProgress \cap got)
    BY <2>1 DEF Call
  <2>3. after(d) = AfterOlm(n) /\ calls[d].stage = "olm"
    BY <1>3 DEF Waits
  <2>. HIDE DEF n
  <2>. QED
    BY <2>2, <2>3, AfterOlmCall
<1>4. ASSUME NEW d \in Calls
      PROVE  /\ after(d) \in Call /\ after(d).users = calls[d].users /\ after(d).session = calls[d].session
             /\ after(d).shareMap = calls[d].shareMap
             /\ after(d).targets \cup after(d).inProgress \subseteq calls[d].targets \cup calls[d].inProgress
             /\ \/ after(d).stage = calls[d].stage /\ after(d).targets = calls[d].targets
                \/ /\ calls[d].stage = "olm" /\ after(d).stage \in {"olm", "send", "ready"}
                   /\ after(d).stage = "ready" => after(d).targets = {}
  <2>1. CASE Waits(d, claim)
    BY <1>3, <2>1
  <2>2. CASE ~Waits(d, claim)
    BY <1>2, <2>2
  <2>. QED
    BY <2>1, <2>2
<1>. HIDE DEF after
<1>5. ASSUME NEW d \in Calls
      PROVE  /\ calls'[d] \in Call /\ calls'[d].users = calls[d].users
             /\ calls'[d].session = calls[d].session /\ calls'[d].shareMap = calls[d].shareMap
             /\ calls'[d].targets = after(d).targets /\ calls'[d].inProgress = after(d).inProgress
             /\ calls'[d].stage = after(d).stage
  <2>1. calls'[d] = IF d = c THEN [after(d) EXCEPT !.claim = {}] ELSE after(d)
    BY <1>1
  <2>2. after(d) \in Call
    BY <1>4
  <2>. QED
    BY <1>4, <2>1, <2>2 DEF Call
<1>6. TypeOK'
  <2>1. calls' \in [Calls -> Call]
    BY <1>1, <1>5
  <2>. QED
    BY <1>1, <1>2, <2>1 DEF TypeOK, messages, history
<1>7. Calm
  <2>1. \A d \in Calls : CalmCall(d)
    BY <1>2, <1>4, <1>5 DEF Sharing, Shares, CalmCall, Busy
  <2>2. OneAtATime => OneAtATime'
    <3>1. \A d \in Calls : calls'[d].stage = "idle" <=> calls[d].stage = "idle"
      BY <1>4, <1>5
    <3>. QED
      BY <1>1, <3>1, SameQueue, Numbers
  <2>. QED
    BY <1>1, <2>1, <2>2 DEF Calm, messages, history
<1>. QED
  BY <1>6, <1>7, CalmKeeps

LEMMA ClaimFailsKeeps ==
  ASSUME Inv, NEW c \in Calls, ClaimFails(c)
  PROVE  Inv'
<1>. DEFINE claim == calls[c].claim
            after(d) == IF Waits(d, claim) THEN [calls[d] EXCEPT !.stage = "failed", !.inProgress = {}]
                        ELSE calls[d]
<1>1. /\ UNCHANGED <<room, store, pending, messages, cipher, keys, history>>
      /\ claiming' = IF Awaited(claim) = {} THEN claiming ELSE claiming \ claim
      /\ calls' = [d \in Calls |-> IF d = c THEN [after(d) EXCEPT !.claim = {}] ELSE after(d)]
      /\ events' \in 0..MaxEvents
  BY Disturbed DEF ClaimFails, Inv
<1>2. TypeOK /\ Sharing /\ calls \in [Calls -> Call]
  BY DEF Inv, TypeOK
<1>4. ASSUME NEW d \in Calls
      PROVE  /\ after(d) \in Call /\ after(d).users = calls[d].users /\ after(d).session = calls[d].session
             /\ after(d).shareMap = calls[d].shareMap /\ after(d).targets = calls[d].targets
             /\ after(d).inProgress \subseteq calls[d].inProgress
             /\ after(d).stage = calls[d].stage \/ (after(d).stage = "failed" /\ calls[d].stage = "olm")
  <2>1. calls[d] \in Call
    BY <1>2
  <2>. QED
    BY <2>1 DEF Call, Stage, Waits
<1>. HIDE DEF after
<1>5. ASSUME NEW d \in Calls
      PROVE  /\ calls'[d] \in Call /\ calls'[d].users = calls[d].users
             /\ calls'[d].session = calls[d].session /\ calls'[d].shareMap = calls[d].shareMap
             /\ calls'[d].targets = after(d).targets /\ calls'[d].inProgress = after(d).inProgress
             /\ calls'[d].stage = after(d).stage
  <2>1. calls'[d] = IF d = c THEN [after(d) EXCEPT !.claim = {}] ELSE after(d)
    BY <1>1
  <2>2. after(d) \in Call
    BY <1>4
  <2>. QED
    BY <1>4, <2>1, <2>2 DEF Call
<1>6. TypeOK'
  <2>1. calls' \in [Calls -> Call]
    BY <1>1, <1>5
  <2>2. claiming' \in SUBSET Devices
    BY <1>1, <1>2 DEF TypeOK
  <2>. QED
    BY <1>1, <1>2, <2>1, <2>2 DEF TypeOK, store, messages, history
<1>7. Calm
  <2>1. \A d \in Calls : CalmCall(d)
    BY <1>2, <1>4, <1>5 DEF Sharing, Shares, CalmCall, Busy
  <2>2. OneAtATime => OneAtATime'
    <3>1. \A d \in Calls : calls'[d].stage = "idle" <=> calls[d].stage = "idle"
      BY <1>4, <1>5
    <3>. QED
      BY <1>1, <3>1, SameQueue, Numbers
  <2>. QED
    BY <1>1, <2>1, <2>2 DEF Calm, store, messages, history
<1>. QED
  BY <1>6, <1>7, CalmKeeps

(***************************************************************************)
(* The entries.                                                            *)
(***************************************************************************)
\* A call that starts has no session yet.
Starts(c) ==
  /\ \A e \in Calls : e # c => calls'[e] = calls[e]
  /\ calls'[c] \in Call /\ calls'[c].stage = "devices"
  /\ calls'[c].session = [id |-> 0, index |-> 0, useCount |-> 0]
  /\ calls'[c].shareMap = {} /\ calls'[c].targets = {} /\ calls'[c].inProgress = {}
  /\ UNCHANGED <<stored, created, shared, cipher, keys, unmarked>>
  /\ overlapped' = overlapped \cup Overlaps(c)

LEMMA StartShares ==
  ASSUME Sharing, NEW c \in Calls, Starts(c)
  PROVE  Sharing'
<1>1. ASSUME NEW e \in Calls, e # c
      PROVE  calls'[e] = calls[e]
  BY <1>1 DEF Starts
<1>2. shared' = shared /\ keys' = keys
  BY DEF Starts
<1>3. Shares(c)' /\ calls'[c].stage # "ready"
  BY DEF Starts, Shares, Busy
<1>. QED
  BY <1>1, <1>2, <1>3 DEF Sharing, Shares, Busy

LEMMA StartNumbers ==
  ASSUME TypeOK, Numbered, Given, NEW c \in Calls, Starts(c)
  PROVE  Numbered' /\ Given'
<1>1. calls'[c].session.id = 0 /\ 0 <= created
  BY DEF Starts, TypeOK
<1>. QED
  BY <1>1 DEF Numbered, Given, Starts

\* The messages that have been encrypted are those of other calls.
LEMMA StartEncrypts ==
  ASSUME Encryptions, NEW c \in Calls, Starts(c), c \notin Ciphered,
         "encryption" \notin overlapped', OneAtATime'
  PROVE  Encryptions'
<1>1. /\ ~Busy(c)' /\ \A e \in Calls : e # c => calls'[e] = calls[e]
      /\ UNCHANGED <<stored, created, shared, cipher, keys, unmarked>>
  BY DEF Starts, Busy
<1>2. Ratchets'
  BY <1>1, Numbers DEF Encryptions, Ratchets, Busy, Ahead
<1>3. Ciphered' = Ciphered /\ \A m \in Ciphered : m \in Calls /\ calls'[m] = calls[m]
  BY <1>1, Numbers DEF Ciphered
<1>4. "encryption" \notin overlapped
  BY DEF Starts
<1>5. NoIndexReuse' /\ Decryptable' /\ (\A m \in Ciphered : calls[m].stage = "idle")'
  BY <1>1, <1>3, <1>4 DEF Encryptions, NoIndexReuse, Decryptable
<1>. QED
  BY <1>2, <1>5 DEF Encryptions

LEMMA StartIsPrivate ==
  ASSUME Private, NEW c \in Calls, Starts(c), c \notin Ciphered, overlapped' = {}
  PROVE  Private'
<1>1. /\ ~Busy(c)' /\ \A e \in Calls : e # c => calls'[e] = calls[e]
      /\ UNCHANGED <<stored, created, shared, cipher, keys, unmarked>>
  BY DEF Starts, Busy
<1>2. \A e \in Calls : calls[e].stage = "idle"
  BY DEF Starts, Overlaps, UnderWay
<1>3. Ciphered' = Ciphered /\ \A m \in Ciphered : m \in Calls /\ calls'[m] = calls[m]
  BY <1>1, Numbers DEF Ciphered
<1>4. (\A d, e \in Calls : d # e => calls[d].stage = "idle" \/ calls[e].stage = "idle")'
  BY <1>1, <1>2
<1>5. \A e \in Calls : ~Busy(e)'
  BY <1>1, <1>2 DEF Busy
<1>. QED
  BY <1>1, <1>3, <1>4, <1>5, Numbers DEF Private

LEMMA EnsureEncryptionKeeps ==
  ASSUME Inv, EnsureEncryptionInRoom
  PROVE  Inv'
<1>1. /\ UNCHANGED <<room, store, claiming, pending, messages, cipher, keys, unmarked>>
      /\ events' \in 0..MaxEvents /\ calls' = [calls EXCEPT ![Ensure] = Asked]
      /\ overlapped' = overlapped \cup Overlaps(Ensure)
  BY Disturbed DEF EnsureEncryptionInRoom, Inv
<1>2. TypeOK /\ calls \in [Calls -> Call] /\ Ensure \in Calls /\ Asked \in Call
  BY Numbers, AskedCall DEF Inv, TypeOK
<1>3. /\ calls' \in [Calls -> Call] /\ calls'[Ensure] = Asked
      /\ \A e \in Calls : e # Ensure => calls'[e] = calls[e]
  BY <1>1, <1>2, CallReplaced
<1>4. Starts(Ensure)
  BY <1>1, <1>2, <1>3, AskedCall DEF Starts, store
<1>5. TypeOK'
  <2>1. overlapped' \in SUBSET {"share", "encryption"}
    BY <1>1, <1>2 DEF TypeOK, Overlaps
  <2>. QED
    BY <1>1, <1>2, <1>3, <2>1 DEF TypeOK, store, messages
<1>6. OneAtATime => OneAtATime'
  BY <1>1, <1>3, SameQueue, Numbers
<1>7. Count'
  <2>1. PICK k \in 0..MaxMsg : Counted(k)
    BY DEF Inv, Count
  <2>2. Len(pending) \in Nat /\ stored.index \in Nat /\ k \in Nat /\ stored.index + Len(pending) <= k
    BY <1>2, <2>1, Counts DEF Counted
  <2>3. calls'[Ensure].session.index = 0
    BY <1>4 DEF Starts
  <2>4. Counted(k)'
    BY <1>1, <1>3, <2>1, <2>2, <2>3 DEF Counted, store, messages
  <2>. QED
    BY <2>4 DEF Count
<1>8. Ensure \notin Ciphered
  BY Numbers DEF Ciphered
<1>9. overlapped \subseteq overlapped'
  BY <1>1
<1>. QED
  BY <1>2, <1>4, <1>5, <1>6, <1>7, <1>8, <1>9, StartShares, StartNumbers, StartEncrypts, StartIsPrivate
  DEF Inv, Encryptions

\* The next message: nobody has seen it, and it waits alone or overlaps.
LEMMA EncryptEventContentKeeps ==
  ASSUME Inv, NEW m \in Msgs, EncryptEventContent(m)
  PROVE  Inv'
<1>1. /\ UNCHANGED <<room, store, claiming, cancelled, cipher, keys, unmarked, events>>
      /\ answer[m] = "unasked" /\ answer' = [answer EXCEPT ![m] = "waiting"]
      /\ \A n \in Msgs : n < m => answer[n] # "unasked"
      /\ calls' = [calls EXCEPT ![m] = Asked] /\ pending' = Append(pending, m)
      /\ overlapped' = overlapped \cup Overlaps(m)
  BY DEF EncryptEventContent
<1>2. TypeOK /\ calls \in [Calls -> Call] /\ m \in Calls /\ Asked \in Call
  BY Numbers, AskedCall DEF Inv, TypeOK
<1>3. /\ calls' \in [Calls -> Call] /\ calls'[m] = Asked
      /\ \A e \in Calls : e # m => calls'[e] = calls[e]
  BY <1>1, <1>2, CallReplaced
<1>4. Starts(m)
  BY <1>1, <1>2, <1>3, AskedCall DEF Starts, store
<1>5. TypeOK'
  <2>1. overlapped' \in SUBSET {"share", "encryption"}
    BY <1>1, <1>2 DEF TypeOK, Overlaps
  <2>2. pending' \in Seq(Msgs)
    BY <1>1, <1>2 DEF TypeOK
  <2>3. answer' \in [Msgs -> {"unasked", "waiting", "encrypted", "failed"}]
    BY <1>1, <1>2 DEF TypeOK
  <2>. QED
    BY <1>1, <1>2, <1>3, <2>1, <2>2, <2>3 DEF TypeOK, store
<1>6. PICK k \in 0..MaxMsg : Counted(k)
  BY DEF Inv, Count
<1>7. m = k + 1 /\ k + 1 \in 0..MaxMsg /\ k \in Nat
  <2>0. m \in Nat /\ k \in Nat
    BY DEF Msgs
  <2>1. m > k
    BY <1>1, <1>6, <2>0 DEF Counted
  <2>2. k + 1 \in Msgs /\ m \in 1..MaxMsg
    BY <2>1, Numbers DEF Msgs
  <2>3. ~(k + 1 < m)
    BY <1>1, <1>6, <2>2 DEF Counted
  <2>. QED
    BY <2>1, <2>2, <2>3, Numbers
<1>8. Count'
  <2>1. Len(pending) \in Nat /\ stored.index \in Nat /\ stored.index + Len(pending) <= k
        /\ \A c \in Calls : calls[c].session.index \in Nat /\ calls[c].session.index + Len(pending) <= k
    BY <1>2, <1>6, Counts DEF Counted
  <2>2. Len(pending') = Len(pending) + 1 /\ DOMAIN pending' = 1..(Len(pending) + 1)
        /\ pending'[Len(pending) + 1] = m
        /\ \A i \in DOMAIN pending : pending'[i] = pending[i]
        /\ DOMAIN pending = 1..Len(pending)
    BY <1>1, <1>2 DEF TypeOK
  <2>3. \A i \in DOMAIN pending' : pending'[i] <= k + 1
    <3>1. \A i \in DOMAIN pending : pending[i] <= k /\ pending[i] \in Nat
      BY <1>2, <1>6, PendingAsked DEF Inv, Counted, Msgs
    <3>. QED
      BY <1>7, <2>1, <2>2, <3>1
  <2>4. \A n \in Msgs : answer'[n] # "unasked" <=> n <= k + 1
    <3>1. ASSUME NEW n \in Msgs
          PROVE  answer'[n] # "unasked" <=> n = m \/ answer[n] # "unasked"
      BY <1>1, <1>2 DEF TypeOK
    <3>2. \A n \in Msgs : n \in Nat
      BY DEF Msgs
    <3>. QED
      BY <1>6, <1>7, <3>1, <3>2 DEF Counted
  <2>5. \A n \in Msgs : cipher'[n].id # 0 => n <= k + 1
    BY <1>1, <1>6, <1>7 DEF Counted, Msgs
  <2>6. \A c \in Calls : calls'[c].session.index + Len(pending') <= k + 1
    BY <1>3, <1>4, <1>7, <2>1, <2>2 DEF Starts
  <2>7. stored'.index + Len(pending') <= k + 1
    BY <1>1, <1>7, <2>1, <2>2 DEF store
  <2>8. Counted(k + 1)'
    BY <1>7, <2>3, <2>4, <2>5, <2>6, <2>7 DEF Counted
  <2>. QED
    BY <1>7, <2>8 DEF Count
<1>9. m \notin Ciphered
  BY <1>6, <1>7 DEF Ciphered, Counted
<1>10. overlapped \subseteq overlapped'
  BY <1>1
<1>11. ASSUME "encryption" \notin overlapped'
       PROVE  Encryptions /\ OneAtATime'
  <2>1. Encryptions /\ \A n \in Msgs : calls[n].stage = "idle"
    BY <1>1, <1>10, <1>11, Numbers DEF Inv, Overlaps, UnderWay
  <2>2. pending = <<>>
    BY <2>1 DEF Encryptions, OneAtATime
  <2>3. pending' = <<m>>
    BY <1>1, <2>2
  <2>4. \A n \in Msgs : calls'[n].stage # "idle" <=> n = m
    BY <1>3, <1>4, <2>1, Numbers DEF Starts
  <2>. QED
    BY <2>1, <2>3, <2>4 DEF OneAtATime
<1>. QED
  BY <1>2, <1>4, <1>5, <1>8, <1>9, <1>10, <1>11, StartShares, StartNumbers, StartEncrypts, StartIsPrivate
  DEF Inv

(***************************************************************************)
(* A call gets its session: the one of the store, or a new one.            *)
(***************************************************************************)
\* What ensureOutboundSession leaves: the call has a copy of what is in the store.
Outfitted(c, y) ==
  /\ calls[c].stage = "devices" /\ y \in Call /\ calls'[c] = y
  /\ \A e \in Calls : e # c => calls'[e] = calls[e]
  /\ y.users = calls[c].users /\ y.stage \in {"olm", "send", "ready"}
  /\ y.session.id = stored'.id /\ y.session.index = stored'.index /\ stored'.id \in Sessions
  /\ y.shareMap = y.users \ SharedWith(stored'.id)
  /\ y.targets \cup y.inProgress \subseteq y.shareMap
  /\ y.stage = "ready" => y.targets = {}
  /\ UNCHANGED <<shared, cipher, keys, history, pending, answer>>
  /\ \/ stored'.id = created + 1 /\ stored'.index = 0 /\ created' = created + 1
     \/ stored' = stored /\ created' = created /\ SharedWith(stored.id) \subseteq y.users

LEMMA SessionFound ==
  ASSUME TypeOK, NEW c \in Calls, NEW old \in BOOLEAN, EnsureOutboundSession(c, old)
  PROVE  TypeOK' /\ Outfitted(c, calls'[c])
<1>. DEFINE found == OutboundSession
            devices == calls[c].users
            rotate == found.id = 0 \/ NeedsRotation(found, old) \/ SharedWithTooManyDevices(found, devices)
            session == IF rotate THEN [id |-> created + 1, index |-> 0, useCount |-> 0] ELSE found
            shareMap == ShareMap(session, devices)
            x == [calls[c] EXCEPT !.session = session, !.shareMap = shareMap,
                       !.targets = shareMap \cap olm, !.inProgress = shareMap \ olm,
                       !.claim = (shareMap \ olm) \ claiming]
<1>1. /\ calls[c].stage = "devices"
      /\ rotate => created < MaxSession
      /\ stored' = IF rotate THEN [id |-> created + 1, index |-> 0] ELSE stored
      /\ created' = IF rotate THEN created + 1 ELSE created
      /\ calls' = [calls EXCEPT ![c] = AfterOlm(x)] /\ claiming' = claiming \cup (shareMap \ olm)
      /\ events' = events \/ Disturb
      /\ UNCHANGED <<room, shared, olm, pending, messages, cipher, keys, history>>
  BY DEF EnsureOutboundSession, ShareKey
<1>2. /\ calls[c] \in Call /\ devices \in SUBSET Devices /\ stored \in Outbound
      /\ created \in 0..MaxSession /\ created \in Nat /\ MaxSession \in Nat /\ olm \in SUBSET Devices
      /\ claiming \in SUBSET Devices
  BY Numbers DEF TypeOK, Call
<1>3. found.id = stored.id /\ found.index = stored.index /\ found \in SessionInfo
  BY <1>2, Numbers DEF OutboundSession, SessionInfo, Outbound
<1>4. /\ session \in SessionInfo /\ stored' \in Outbound /\ created' \in 0..MaxSession
      /\ session.id = stored'.id /\ session.index = stored'.index /\ stored'.id \in Sessions
      /\ \/ stored'.id = created + 1 /\ stored'.index = 0 /\ created' = created + 1
         \/ stored' = stored /\ created' = created /\ SharedWith(stored.id) \subseteq devices
  <2>. HIDE DEF found, devices, x, rotate
  <2>1. CASE rotate
    <3>1. session = [id |-> created + 1, index |-> 0, useCount |-> 0]
          /\ stored' = [id |-> created + 1, index |-> 0]
      BY <1>1, <2>1
    <3>2. created < MaxSession /\ created' = created + 1
      BY <1>1, <2>1
    <3>3. created + 1 \in Sessions /\ created' \in 0..MaxSession
      BY <1>2, <3>2 DEF Sessions
    <3>. HIDE DEF session
    <3>. QED
      BY <3>1, <3>2, <3>3, Numbers DEF SessionInfo, Outbound
  <2>2. CASE ~rotate
    <3>1. session = found /\ stored' = stored /\ created' = created /\ stored.id \in Sessions
      BY <1>1, <1>2, <1>3, <2>2 DEF Outbound, rotate
    <3>2. SharedWith(stored.id) \subseteq devices
      BY <1>3, <2>2 DEF SharedWithTooManyDevices, rotate
    <3>. HIDE DEF session
    <3>. QED
      BY <1>2, <1>3, <3>1, <3>2
  <2>. QED
    BY <2>1, <2>2
<1>5. shareMap = devices \ SharedWith(session.id)
  BY DEF ShareMap
<1>. HIDE DEF found, rotate, session, shareMap
<1>6. /\ x \in Call /\ x.users = devices /\ x.session = session /\ x.shareMap = shareMap
      /\ x.targets = shareMap \cap olm /\ x.inProgress = shareMap \ olm
  BY <1>2, <1>4, <1>5 DEF Call
<1>. HIDE DEF x
<1>7. /\ calls' \in [Calls -> Call] /\ calls'[c] = AfterOlm(x)
      /\ \A e \in Calls : e # c => calls'[e] = calls[e]
  <2>1. AfterOlm(x) \in Call /\ calls \in [Calls -> Call]
    BY <1>6, AfterOlmCall DEF TypeOK
  <2>. QED
    BY <1>1, <2>1, CallReplaced
<1>8. TypeOK'
  <2>1. events' \in 0..MaxEvents
    BY <1>1, Disturbed DEF TypeOK
  <2>2. claiming' \in SUBSET Devices
    BY <1>1, <1>2, <1>5
  <2>. QED
    BY <1>1, <1>4, <1>7, <2>1, <2>2 DEF TypeOK, messages, history
<1>9. Outfitted(c, calls'[c])
  <2>. DEFINE y == AfterOlm(x)
  <2>1. /\ y \in Call /\ y.users = devices /\ y.session = session /\ y.shareMap = shareMap
        /\ y.targets \cup y.inProgress \subseteq y.shareMap
        /\ y.stage \in {"olm", "send", "ready"}
        /\ y.stage = "ready" => y.targets = {}
    BY <1>6, AfterOlmCall
  <2>. HIDE DEF y
  <2>2. calls'[c] = y
    BY <1>7 DEF y
  <2>3. /\ y.session.id = stored'.id /\ y.session.index = stored'.index /\ stored'.id \in Sessions
        /\ y.shareMap = y.users \ SharedWith(stored'.id)
        /\ \/ stored'.id = created + 1 /\ stored'.index = 0 /\ created' = created + 1
           \/ stored' = stored /\ created' = created /\ SharedWith(stored.id) \subseteq y.users
    BY <1>4, <1>5, <2>1
  <2>. HIDE DEF devices
  <2>4. UNCHANGED <<shared, cipher, keys, history, pending, answer>>
    BY <1>1 DEF messages
  <2>5. calls[c].stage = "devices" /\ devices = calls[c].users
    BY <1>1 DEF devices
  <2>6. \A e \in Calls : e # c => calls'[e] = calls[e]
    BY <1>7
  <2>. QED
    BY <2>1, <2>2, <2>3, <2>4, <2>5, <2>6 DEF Outfitted
<1>. QED
  BY <1>8, <1>9

\* Nothing of the session, new or old, is ahead of the copy.
LEMMA CopyIsAhead ==
  ASSUME TypeOK, Numbered, NEW c \in Calls, Outfitted(c, calls'[c])
  PROVE  /\ Ratchets => Ahead(stored'.id, stored'.index)
         /\ stored' = stored \/ \A d \in Devices : shared[stored'.id][d] = Never
         /\ \A m \in Msgs : stored' = stored \/ cipher[m].id # stored'.id
<1>1. CASE stored'.id = created + 1 /\ stored'.index = 0
  <2>1. created \in Nat /\ created + 1 \in Sessions
    BY <1>1, Numbers DEF TypeOK, Outfitted
  <2>2. \A m \in Msgs : cipher[m].id <= created /\ cipher[m].id \in Nat
    BY DEF TypeOK, Outbound, Sessions, Numbered
  <2>3. \A d \in Devices : shared[created + 1][d] = Never
    BY <2>1 DEF Numbered
  <2>4. \A m \in Msgs : cipher[m].id # created + 1
    BY <2>1, <2>2
  <2>. QED
    BY <1>1, <2>3, <2>4 DEF Ahead
<1>2. CASE stored' = stored
  <2>1. stored.id # 0
    BY <1>2 DEF Outfitted, Sessions
  <2>. QED
    BY <1>2, <2>1 DEF Ratchets
<1>. QED
  BY <1>1, <1>2 DEF Outfitted

LEMMA OutfitCounts ==
  ASSUME TypeOK, TypeOK', Count, NEW c \in Calls, Outfitted(c, calls'[c])
  PROVE  Count'
<1>1. PICK k \in 0..MaxMsg : Counted(k)
  BY DEF Count
<1>2. Len(pending) \in Nat /\ stored.index \in Nat /\ k \in Nat
  BY Counts
<1>3. stored'.index + Len(pending) <= k
  BY <1>1, <1>2 DEF Outfitted, Counted
<1>4. calls'[c].session.index = stored'.index
  BY DEF Outfitted
<1>5. Counted(k)'
  BY <1>1, <1>3, <1>4 DEF Outfitted, Counted
<1>. QED
  BY <1>5 DEF Count

LEMMA OutfitNumbers ==
  ASSUME TypeOK, Numbered, Given, NEW c \in Calls, Outfitted(c, calls'[c])
  PROVE  Numbered' /\ Given'
<1>1. /\ created \in Nat /\ created <= created' /\ stored'.id <= created' /\ created' \in Nat
      /\ calls'[c].session.id = stored'.id
  BY Numbers DEF TypeOK, Outfitted, Numbered
<1>2. \A e \in Calls : calls[e].session.id \in Nat
  <2>1. \A e \in Calls : calls[e] \in Call
    BY DEF TypeOK
  <2>. QED
    BY <2>1 DEF Call, SessionInfo, Sessions
<1>3. \A m \in Msgs : cipher[m].id \in Nat
  BY DEF TypeOK, Outbound, Sessions
<1>4. \A e \in Calls : calls'[e].session.id <= created'
  BY <1>1, <1>2 DEF Numbered, Outfitted
<1>5. \A m \in Msgs : cipher'[m].id <= created'
  BY <1>1, <1>3 DEF Numbered, Outfitted
<1>6. \A s \in Sessions, d \in Devices : s > created' => shared'[s][d] = Never
  BY <1>1 DEF Numbered, Outfitted, Sessions
<1>. QED
  BY <1>1, <1>4, <1>5, <1>6 DEF Numbered, Given, Outfitted, history

LEMMA OutfitShares ==
  ASSUME TypeOK, Sharing, NEW c \in Calls, Outfitted(c, calls'[c])
  PROVE  Sharing'
<1>1. UNCHANGED <<shared, keys>> /\ \A e \in Calls : e # c => calls'[e] = calls[e]
  BY DEF Outfitted
<1>2. calls'[c].users \subseteq Devices /\ calls'[c].session.id = stored'.id
  BY DEF Outfitted, Call
<1>3. \A d \in calls'[c].users : shared[stored'.id][d] # Never \/ d \in calls'[c].shareMap
  BY <1>2 DEF Outfitted, SharedWith
<1>4. Shares(c)'
  BY <1>1, <1>2, <1>3 DEF Outfitted, Shares, Sessions
<1>5. calls'[c].stage = "ready" => calls'[c].targets = {}
  BY DEF Outfitted
<1>. QED
  BY <1>1, <1>2, <1>3, <1>4, <1>5 DEF Sharing, Shares, Busy

LEMMA OutfitEncrypts ==
  ASSUME TypeOK, Numbered, Sharing, Encryptions, NEW c \in Calls, Outfitted(c, calls'[c])
  PROVE  Encryptions'
<1>1. /\ UNCHANGED <<shared, cipher, keys, pending, overlapped>>
      /\ \A e \in Calls : e # c => calls'[e] = calls[e] /\ (Busy(e)' <=> Busy(e))
      /\ calls[c].stage = "devices" /\ calls'[c].stage \in {"olm", "send", "ready"}
      /\ calls'[c].session.id = stored'.id /\ calls'[c].session.index = stored'.index
  BY DEF Outfitted, Busy, history
<1>2. Ahead(stored'.id, stored'.index)
  BY CopyIsAhead DEF Encryptions
<1>3. ASSUME NEW m \in Calls, m # c, Busy(m), stored'.id = calls[m].session.id
      PROVE  stored' = stored
  <2>1. created \in Nat /\ calls[m].session.id <= created /\ calls[m].session.id \in Nat
    <3>1. calls[m] \in Call
      BY DEF TypeOK
    <3>. QED
      BY <3>1, Numbers DEF TypeOK, Numbered, Call, SessionInfo, Sessions
  <2>. QED
    BY <1>3, <2>1 DEF Outfitted
<1>4. Ratchets /\ \A m \in Calls : calls[m].session.index \in Nat
  BY Counts DEF Encryptions
<1>5. stored'.index \in Nat
  BY <1>1, Counts, Numbers DEF Outfitted, Call, SessionInfo
<1>6. \A m \in Msgs : Busy(m)' =>
        /\ Ahead(calls'[m].session.id, calls'[m].session.index)
        /\ stored'.id = calls'[m].session.id => stored'.index = calls'[m].session.index
  BY <1>1, <1>2, <1>3, <1>4, Numbers DEF Ratchets
<1>7. Busy(Ensure)' /\ stored'.id = calls'[Ensure].session.id => calls'[Ensure].session.index <= stored'.index
  BY <1>1, <1>3, <1>4, <1>5, Numbers DEF Ratchets
<1>8. ASSUME NEW m \in Msgs, Busy(Ensure)', Busy(m)', calls'[m].session.id = calls'[Ensure].session.id
      PROVE  calls'[Ensure].session.index <= calls'[m].session.index
  <2>1. CASE c = m
    BY <1>1, <1>7, <1>8, <2>1
  <2>2. CASE c = Ensure
    <3>1. m # c /\ Busy(m) /\ calls'[m] = calls[m] /\ stored'.id = calls[m].session.id
      BY <1>1, <1>8, <2>2, Numbers
    <3>2. stored' = stored
      BY <1>3, <3>1, Numbers
    <3>. QED
      BY <1>1, <1>4, <1>5, <2>2, <3>1, <3>2 DEF Ratchets
  <2>3. CASE c # m /\ c # Ensure
    BY <1>1, <1>4, <1>8, <2>3, Numbers DEF Ratchets
  <2>. QED
    BY <2>1, <2>2, <2>3
<1>9. Ratchets'
  BY <1>1, <1>2, <1>6, <1>7, <1>8 DEF Ratchets, Ahead
<1>10. Ciphered' = Ciphered /\ \A m \in Ciphered : m \in Calls /\ m # c /\ calls'[m] = calls[m]
  BY <1>1, Numbers DEF Ciphered, Encryptions
<1>11. NoIndexReuse' /\ Decryptable' /\ (\A m \in Ciphered : calls[m].stage = "idle")'
  BY <1>1, <1>10 DEF Encryptions, NoIndexReuse, Decryptable
<1>12. OneAtATime'
  <2>1. \A m \in Msgs : calls'[m].stage = "idle" <=> calls[m].stage = "idle"
    BY <1>1, Numbers
  <2>. QED
    BY <1>1, <2>1, SameQueue DEF Encryptions
<1>. QED
  BY <1>9, <1>11, <1>12 DEF Encryptions

LEMMA OutfitIsPrivate ==
  ASSUME TypeOK, Numbered, Encryptions, Private, NEW c \in Calls, Outfitted(c, calls'[c])
  PROVE  Private'
<1>1. /\ UNCHANGED <<shared, cipher, keys, history>>
      /\ \A e \in Calls : e # c => calls'[e] = calls[e] /\ (Busy(e)' <=> Busy(e))
      /\ calls[c].stage = "devices" /\ calls'[c].stage \in {"olm", "send", "ready"}
      /\ calls'[c].session.id = stored'.id /\ calls'[c].session.index = stored'.index
      /\ calls'[c].users = calls[c].users
  BY DEF Outfitted, Busy
<1>2. \A e \in Calls : e # c => calls[e].stage = "idle" /\ ~Busy(e)
  BY <1>1 DEF Private, Busy
<1>3. Ahead(stored'.id, stored'.index)
  BY CopyIsAhead DEF Encryptions
<1>4. \A d \in Devices \ calls'[c].users : shared[stored'.id][d] = Never
  <2>1. CASE stored' = stored
    <3>1. stored.id # 0 /\ SharedWith(stored.id) \subseteq calls'[c].users
      BY <2>1, Numbers DEF Outfitted, Sessions, TypeOK, Numbered
    <3>. QED
      BY <2>1, <3>1 DEF SharedWith
  <2>2. CASE stored' # stored
    BY <2>2, CopyIsAhead
  <2>. QED
    BY <2>1, <2>2
<1>5. Ciphered' = Ciphered /\ \A m \in Ciphered : m \in Calls /\ m # c /\ calls'[m] = calls[m]
  BY <1>1, Numbers DEF Ciphered, Encryptions
<1>6. (\A d, e \in Calls : d # e => calls[d].stage = "idle" \/ calls[e].stage = "idle")'
  BY <1>1, <1>2
<1>7. Busy(Ensure)' => \A m \in Msgs : cipher'[m].id = calls'[Ensure].session.id =>
        cipher'[m].index < calls'[Ensure].session.index
  BY <1>1, <1>2, <1>3, Numbers DEF Ahead
<1>8. \A e \in Calls : Busy(e)' => \A d \in Devices \ calls'[e].users :
        shared'[calls'[e].session.id][d] = Never
  BY <1>1, <1>2, <1>4
<1>. QED
  BY <1>1, <1>5, <1>6, <1>7, <1>8 DEF Private, history

LEMMA EnsureOutboundKeeps ==
  ASSUME Inv, NEW c \in Calls, NEW old \in BOOLEAN, EnsureOutboundSession(c, old)
  PROVE  Inv'
<1>1. TypeOK' /\ Outfitted(c, calls'[c])
  BY SessionFound DEF Inv
<1>2. overlapped' = overlapped
  BY <1>1 DEF Outfitted, history
<1>. QED
  BY <1>1, <1>2, OutfitCounts, OutfitNumbers, OutfitShares, OutfitEncrypts, OutfitIsPrivate DEF Inv

(***************************************************************************)
(* A key reaches devices, and is marked, or the request fails.             *)
(***************************************************************************)
\* What /sendToDevice changes, at each device and session.
Gives(c, s, i) ==
  /\ calls[c].stage = "send" /\ s = calls[c].session.id /\ i = calls[c].session.index /\ s \in Sessions
  /\ \A d \in Devices, r \in Sessions :
       /\ keys'[d][r] <= keys[d][r]
       /\ keys'[d][r] # keys[d][r] =>
            /\ r = s /\ d \in calls[c].targets /\ keys'[d][r] = i
            /\ shared'[r][d] # Never \/ <<d, r>> \in unmarked'
       /\ shared'[r][d] # shared[r][d] =>
            r = s /\ d \in calls[c].shareMap /\ shared[r][d] = Never /\ shared'[r][d] = i
  /\ unmarked \subseteq unmarked'
  /\ \A e \in Calls : e # c => calls'[e] = calls[e]
  /\ calls'[c].users = calls[c].users /\ calls'[c].session = calls[c].session
  /\ calls'[c].shareMap = calls[c].shareMap /\ calls'[c].targets = calls[c].targets
  /\ calls'[c].inProgress = calls[c].inProgress
  /\ calls'[c].stage \in {"ready", "failed"}
  /\ calls'[c].stage = "ready" => \A d \in calls[c].targets : keys'[d][s] <= i
  /\ UNCHANGED <<stored, created, pending, cipher, answer, overlapped>>

\* The devices of t have the session s, at the index i or before.
Handed(t, s, i) ==
  /\ keys' \in [Devices -> [Sessions -> Index \cup {Never}]]
  /\ \A d \in Devices, r \in Sessions :
       /\ keys'[d][r] <= keys[d][r]
       /\ keys'[d][r] # keys[d][r] => r = s /\ d \in t /\ keys'[d][r] = i
  /\ \A d \in t : keys'[d][s] <= i

LEMMA DeliveredKeys ==
  ASSUME TypeOK, NEW t \in SUBSET Devices, NEW session \in SessionInfo, session.id \in Sessions,
         keys' = Delivered(t, session)
  PROVE  Handed(t, session.id, session.index)
<1>1. session.index \in Index /\ session.index \in Nat
  BY Numbers DEF SessionInfo
<1>2. ASSUME NEW d \in Devices
      PROVE  /\ keys'[d] \in [Sessions -> Index \cup {Never}]
             /\ \A r \in Sessions :
                  /\ keys'[d][r] <= keys[d][r]
                  /\ keys'[d][r] # keys[d][r] => r = session.id /\ d \in t /\ keys'[d][r] = session.index
             /\ d \in t => keys'[d][session.id] <= session.index
  <2>0. keys[d] \in [Sessions -> Index \cup {Never}]
    BY DEF TypeOK
  <2>1. \A r \in Sessions : keys[d][r] \in Nat
    BY <2>0, Numbers
  <2>. DEFINE j == Min({keys[d][session.id], session.index})
  <2>2. j \in {keys[d][session.id], session.index} /\ j <= keys[d][session.id] /\ j <= session.index
    BY <1>1, <2>1, MinOfTwo
  <2>3. keys'[d] = IF d \in t THEN [keys[d] EXCEPT ![session.id] = j] ELSE keys[d]
    BY DEF Delivered
  <2>. HIDE DEF j
  <2>. QED
    BY <1>1, <2>0, <2>1, <2>2, <2>3
<1>3. keys' = [d \in Devices |-> keys'[d]]
  BY DEF Delivered
<1>. QED
  BY <1>2, <1>3 DEF Handed

LEMMA MarkedDevices ==
  ASSUME TypeOK, NEW call \in Call, call.session.id \in Sessions, NEW given, given = Marked(call)
  PROVE  /\ given \in [Sessions -> [Devices -> Index \cup {Never}]]
         /\ \A d \in Devices, r \in Sessions :
              /\ given[r][d] # shared[r][d] =>
                   /\ r = call.session.id /\ d \in call.shareMap
                   /\ shared[r][d] = Never /\ given[r][d] = call.session.index
              /\ r = call.session.id /\ d \in call.shareMap => given[r][d] # Never
<1>1. call.session.index \in Index /\ call.session.index # Never
  BY Numbers DEF Call, SessionInfo
<1>. DEFINE row == [d \in Devices |->
       IF d \in call.shareMap /\ shared[call.session.id][d] = Never THEN call.session.index
       ELSE shared[call.session.id][d]]
<1>2. row \in [Devices -> Index \cup {Never}]
  BY <1>1 DEF TypeOK
<1>3. given = [shared EXCEPT ![call.session.id] = row]
  BY DEF Marked
<1>4. \A d \in Devices : row[d] = IF d \in call.shareMap /\ shared[call.session.id][d] = Never
                                  THEN call.session.index ELSE shared[call.session.id][d]
  OBVIOUS
<1>. HIDE DEF row
<1>. QED
  BY <1>1, <1>2, <1>3, <1>4 DEF TypeOK

LEMMA SentGives ==
  ASSUME Inv, NEW c \in Calls, KeySent(c)
  PROVE  TypeOK' /\ Gives(c, calls[c].session.id, calls[c].session.index)
<1>1. /\ calls[c].stage = "send" /\ keys' = Delivered(calls[c].targets, calls[c].session)
      /\ shared' = Marked(calls[c]) /\ calls' = [calls EXCEPT ![c].stage = "ready"]
      /\ UNCHANGED <<room, stored, created, olm, claiming, pending, messages, cipher, history, events>>
  BY DEF KeySent
<1>2. /\ TypeOK /\ calls \in [Calls -> Call] /\ calls[c] \in Call /\ calls[c].session \in SessionInfo
      /\ calls[c].targets \in SUBSET Devices /\ "ready" \in Stage
      /\ calls[c].targets \subseteq calls[c].shareMap
  BY DEF Inv, TypeOK, Call, Stage, Sharing, Shares
<1>3. calls[c].session.id \in Sessions
  BY <1>1, <1>2 DEF Inv, Sharing, Shares, Busy, SessionInfo
<1>4. /\ calls' \in [Calls -> Call] /\ calls'[c] = Staged(calls[c], "ready")
      /\ \A e \in Calls : e # c => calls'[e] = calls[e]
  BY <1>1, <1>2, CallStaged
<1>5. /\ calls'[c].stage = "ready" /\ calls'[c].users = calls[c].users
      /\ calls'[c].session = calls[c].session /\ calls'[c].shareMap = calls[c].shareMap
      /\ calls'[c].targets = calls[c].targets /\ calls'[c].inProgress = calls[c].inProgress
  BY <1>2, <1>4, StagedCall
<1>6. Handed(calls[c].targets, calls[c].session.id, calls[c].session.index)
  <2>. PICK t : t = calls[c].targets
    OBVIOUS
  <2>. PICK session : session = calls[c].session
    OBVIOUS
  <2>1. keys' = Delivered(t, session) /\ t \in SUBSET Devices /\ session \in SessionInfo
        /\ session.id \in Sessions /\ TypeOK
    BY <1>1, <1>2, <1>3
  <2>2. Handed(t, session.id, session.index)
    BY <2>1, DeliveredKeys
  <2>. QED
    BY <2>2
<1>7. /\ shared' \in [Sessions -> [Devices -> Index \cup {Never}]]
      /\ \A d \in Devices, r \in Sessions :
           /\ shared'[r][d] # shared[r][d] =>
                /\ r = calls[c].session.id /\ d \in calls[c].shareMap
                /\ shared[r][d] = Never /\ shared'[r][d] = calls[c].session.index
           /\ r = calls[c].session.id /\ d \in calls[c].shareMap => shared'[r][d] # Never
  BY <1>1, <1>2, <1>3, MarkedDevices
<1>8. TypeOK'
  BY <1>1, <1>2, <1>4, <1>6, <1>7 DEF Handed, TypeOK, messages, history
<1>9. Gives(c, calls[c].session.id, calls[c].session.index)
  <2>1. \A d \in Devices, r \in Sessions :
          keys'[d][r] # keys[d][r] => shared'[r][d] # Never
    BY <1>2, <1>6, <1>7 DEF Handed
  <2>. PICK s, i : s = calls[c].session.id /\ i = calls[c].session.index
    OBVIOUS
  <2>2. \A d \in Devices, r \in Sessions :
          /\ keys'[d][r] <= keys[d][r]
          /\ keys'[d][r] # keys[d][r] =>
               r = s /\ d \in calls[c].targets /\ keys'[d][r] = i /\ shared'[r][d] # Never
    BY <1>6, <2>1 DEF Handed
  <2>3. \A d \in calls[c].targets : keys'[d][s] <= i
    BY <1>6 DEF Handed
  <2>4. \A d \in Devices, r \in Sessions : shared'[r][d] # shared[r][d] =>
          r = s /\ d \in calls[c].shareMap /\ shared[r][d] = Never /\ shared'[r][d] = i
    BY <1>7
  <2>5. Gives(c, s, i)
    BY <1>1, <1>3, <1>4, <1>5, <2>2, <2>3, <2>4 DEF Gives, messages, history
  <2>. QED
    BY <2>5
<1>. QED
  BY <1>8, <1>9

LEMMA NotSentGives ==
  ASSUME Inv, NEW c \in Calls, NEW lost \in BOOLEAN, KeyNotSent(c, lost)
  PROVE  TypeOK' /\ Gives(c, calls[c].session.id, calls[c].session.index)
<1>1. /\ calls[c].stage = "send" /\ calls' = [calls EXCEPT ![c].stage = "failed"]
      /\ keys' = IF lost THEN Delivered(calls[c].targets, calls[c].session) ELSE keys
      /\ unmarked' = IF lost THEN unmarked \cup (calls[c].targets \X {calls[c].session.id}) ELSE unmarked
      /\ UNCHANGED <<room, store, claiming, pending, messages, cipher, overlapped>>
      /\ events' \in 0..MaxEvents
  BY Disturbed DEF KeyNotSent, Inv
<1>2. /\ TypeOK /\ calls \in [Calls -> Call] /\ calls[c] \in Call /\ calls[c].session \in SessionInfo
      /\ calls[c].targets \in SUBSET Devices /\ "failed" \in Stage
  BY DEF Inv, TypeOK, Call, Stage
<1>3. calls[c].session.id \in Sessions
  BY <1>1, <1>2 DEF Inv, Sharing, Shares, Busy, SessionInfo
<1>4. /\ calls' \in [Calls -> Call] /\ calls'[c] = Staged(calls[c], "failed")
      /\ \A e \in Calls : e # c => calls'[e] = calls[e]
  BY <1>1, <1>2, CallStaged
<1>5. /\ calls'[c].stage = "failed" /\ calls'[c].users = calls[c].users
      /\ calls'[c].session = calls[c].session /\ calls'[c].shareMap = calls[c].shareMap
      /\ calls'[c].targets = calls[c].targets /\ calls'[c].inProgress = calls[c].inProgress
  BY <1>2, <1>4, StagedCall
<1>6. CASE lost
  <2>1. Handed(calls[c].targets, calls[c].session.id, calls[c].session.index)
    <3>. PICK t : t = calls[c].targets
      OBVIOUS
    <3>. PICK session : session = calls[c].session
      OBVIOUS
    <3>1. keys' = Delivered(t, session) /\ t \in SUBSET Devices /\ session \in SessionInfo
          /\ session.id \in Sessions /\ TypeOK
      BY <1>1, <1>2, <1>3, <1>6
    <3>2. Handed(t, session.id, session.index)
      BY <3>1, DeliveredKeys
    <3>. QED
      BY <3>2
  <2>2. unmarked' = unmarked \cup (calls[c].targets \X {calls[c].session.id})
    BY <1>1, <1>6
  <2>3. unmarked' \in SUBSET (Devices \X Sessions)
    BY <1>2, <1>3, <2>2 DEF TypeOK
  <2>4. \A d \in Devices, r \in Sessions : keys'[d][r] # keys[d][r] => <<d, r>> \in unmarked'
    BY <2>1, <2>2 DEF Handed
  <2>5. TypeOK'
    BY <1>1, <1>2, <1>4, <2>1, <2>3 DEF Handed, TypeOK, store, messages
  <2>6. Gives(c, calls[c].session.id, calls[c].session.index)
    BY <1>1, <1>3, <1>4, <1>5, <2>1, <2>2, <2>4 DEF Handed, Gives, store, messages
  <2>. QED
    BY <2>5, <2>6
<1>7. CASE ~lost
  <2>1. keys' = keys /\ unmarked' = unmarked /\ \A d \in Devices, r \in Sessions : keys[d][r] \in Nat
    BY <1>1, <1>2, <1>7, Numbers DEF TypeOK
  <2>5. TypeOK'
    BY <1>1, <1>2, <1>4, <2>1 DEF TypeOK, store, messages
  <2>6. Gives(c, calls[c].session.id, calls[c].session.index)
    BY <1>1, <1>3, <1>4, <1>5, <2>1 DEF Gives, store, messages
  <2>. QED
    BY <2>5, <2>6
<1>. QED
  BY <1>6, <1>7

\* Nobody loses anything, and what is new has the index of the call.
LEMMA GivenNumbers ==
  ASSUME TypeOK, TypeOK', NEW c \in Calls, NEW s \in Sessions, NEW i, Gives(c, s, i)
  PROVE  /\ i \in Nat /\ i \in Index /\ i < Never
         /\ \A d \in Devices, r \in Sessions :
              /\ keys[d][r] \in Nat /\ keys'[d][r] \in Nat /\ shared[r][d] \in Nat /\ shared'[r][d] \in Nat
              /\ keys'[d][r] = keys[d][r] \/ (r = s /\ d \in calls[c].targets /\ keys'[d][r] = i)
              /\ shared[r][d] # Never => shared'[r][d] = shared[r][d]
              /\ shared'[r][d] # shared[r][d] => r = s /\ d \in calls[c].shareMap /\ shared'[r][d] = i
<1>1. i \in Index /\ i \in Nat
  BY Counts DEF Gives
<1>2. i < Never
  BY <1>1, Numbers DEF Index
<1>3. ASSUME NEW d \in Devices, NEW r \in Sessions
      PROVE  keys[d][r] \in Nat /\ keys'[d][r] \in Nat /\ shared[r][d] \in Nat /\ shared'[r][d] \in Nat
  <2>1. keys[d] \in [Sessions -> Index \cup {Never}] /\ keys'[d] \in [Sessions -> Index \cup {Never}]
    BY DEF TypeOK
  <2>2. shared[r] \in [Devices -> Index \cup {Never}] /\ shared'[r] \in [Devices -> Index \cup {Never}]
    BY DEF TypeOK
  <2>. QED
    BY <2>1, <2>2, Numbers
<1>. QED
  BY <1>1, <1>2, <1>3 DEF Gives

LEMMA GivenCounts ==
  ASSUME Count, NEW c \in Calls, NEW s \in Sessions, NEW i, Gives(c, s, i)
  PROVE  Count'
<1>1. PICK k \in 0..MaxMsg : Counted(k)
  BY DEF Count
<1>2. \A e \in Calls : calls'[e].session = calls[e].session
  BY DEF Gives
<1>3. Counted(k)'
  BY <1>1, <1>2 DEF Counted, Gives
<1>. QED
  BY <1>3 DEF Count

LEMMA GivenNumbered ==
  ASSUME TypeOK, TypeOK', Numbered, Given, NEW c \in Calls, NEW s \in Sessions, NEW i, Gives(c, s, i)
  PROVE  Numbered' /\ Given'
<1>1. \A e \in Calls : calls'[e].session = calls[e].session
  BY DEF Gives
<1>2. s <= created /\ created \in Nat /\ s \in Nat
  BY DEF Gives, Numbered, TypeOK, Sessions
<1>3. ASSUME NEW r \in Sessions, NEW d \in Devices, r > created
      PROVE  shared'[r][d] = Never
  <2>1. r # s
    BY <1>2, <1>3
  <2>. QED
    BY <1>3, <2>1, GivenNumbers DEF Numbered
<1>4. ASSUME NEW r \in Sessions, NEW d \in Devices, keys'[d][r] # Never
      PROVE  shared'[r][d] # Never \/ <<d, r>> \in unmarked'
  <2>1. CASE keys'[d][r] = keys[d][r]
    BY <1>4, <2>1, GivenNumbers DEF Given, Gives
  <2>2. CASE keys'[d][r] # keys[d][r]
    BY <2>2 DEF Gives
  <2>. QED
    BY <2>1, <2>2
<1>5. Numbered'
  BY <1>1, <1>3 DEF Numbered, Gives
<1>. QED
  BY <1>4, <1>5 DEF Given

LEMMA GivenShares ==
  ASSUME TypeOK, TypeOK', Sharing, NEW c \in Calls, NEW s \in Sessions, NEW i, Gives(c, s, i)
  PROVE  Sharing'
<1>1. ASSUME NEW e \in Calls
      PROVE  /\ calls'[e].users = calls[e].users /\ calls'[e].session = calls[e].session
             /\ calls'[e].shareMap = calls[e].shareMap /\ calls'[e].targets = calls[e].targets
             /\ calls'[e].inProgress = calls[e].inProgress
             /\ Busy(e)' => Busy(e)
  BY DEF Gives, Busy
<1>2. ASSUME NEW e \in Calls, NEW d \in calls[e].users, Busy(e)
      PROVE  calls[e].session.id \in Sessions /\ d \in Devices
  <2>1. calls[e] \in Call
    BY DEF TypeOK
  <2>2. calls[e].session.id # 0
    BY <1>2 DEF Sharing, Shares
  <2>. QED
    BY <2>1, <2>2 DEF Call, SessionInfo
<1>3. ASSUME NEW e \in Calls
      PROVE  Shares(e)'
  <2>1. ASSUME Busy(e)', NEW d \in calls'[e].users
        PROVE  shared'[calls'[e].session.id][d] # Never \/ d \in calls'[e].shareMap
    <3>1. Busy(e) /\ d \in calls[e].users
      BY <1>1, <2>1
    <3>2. shared[calls[e].session.id][d] # Never \/ d \in calls[e].shareMap
      BY <3>1 DEF Sharing, Shares
    <3>. QED
      BY <1>1, <1>2, <3>1, <3>2, GivenNumbers
  <2>. QED
    BY <1>1, <2>1 DEF Sharing, Shares
<1>4. ASSUME NEW e \in Calls, calls'[e].stage = "ready", NEW d \in calls'[e].users
      PROVE  \/ keys'[d][calls'[e].session.id] <= calls'[e].session.index
             \/ shared'[calls'[e].session.id][d] # Never
             \/ d \in calls'[e].shareMap \ calls'[e].targets
  <2>1. CASE e = c
    <3>1. calls[c].stage = "send" /\ s = calls[c].session.id /\ i = calls[c].session.index
          /\ d \in calls[c].users
      BY <1>1, <2>1, <1>4 DEF Gives
    <3>2. shared[s][d] # Never \/ d \in calls[c].shareMap
      BY <3>1 DEF Sharing, Shares, Busy
    <3>3. d \in Devices
      BY <1>2, <3>1 DEF Busy
    <3>4. d \in calls[c].targets => keys'[d][s] <= i
      BY <1>4, <2>1 DEF Gives
    <3>. QED
      BY <1>1, <2>1, <3>1, <3>2, <3>3, <3>4, GivenNumbers
  <2>2. CASE e # c
    <3>1. calls'[e] = calls[e] /\ Busy(e) /\ calls[e].stage = "ready" /\ d \in calls[e].users
      BY <1>1, <1>4, <2>2 DEF Gives, Busy
    <3>2. \/ keys[d][calls[e].session.id] <= calls[e].session.index
          \/ shared[calls[e].session.id][d] # Never
          \/ d \in calls[e].shareMap \ calls[e].targets
      BY <3>1 DEF Sharing
    <3>3. d \in Devices /\ calls[e].session.id \in Sessions /\ calls[e].session.index \in Nat
      BY <1>2, <3>1, Counts
    <3>4. keys'[d][calls[e].session.id] <= keys[d][calls[e].session.id]
      BY <3>3 DEF Gives
    <3>5. /\ keys[d][calls[e].session.id] \in Nat /\ keys'[d][calls[e].session.id] \in Nat
          /\ shared[calls[e].session.id][d] # Never => shared'[calls[e].session.id][d] # Never
      BY <3>3, GivenNumbers
    <3>. QED
      BY <3>1, <3>2, <3>3, <3>4, <3>5
  <2>. QED
    BY <2>1, <2>2
<1>. QED
  BY <1>3, <1>4 DEF Sharing

\* What the call gives is not ahead of what will encrypt with the same session.
LEMMA GivenIsBehind ==
  ASSUME TypeOK, TypeOK', NEW c \in Calls, NEW s \in Sessions, NEW i, Gives(c, s, i),
         NEW x, NEW index \in Nat, Ahead(x, index), x \in Sessions, x = s => i <= index
  PROVE  Ahead(x, index)'
<1>1. \A d \in Devices : shared'[x][d] # Never => shared'[x][d] <= index
  BY GivenNumbers DEF Ahead
<1>. QED
  BY <1>1 DEF Ahead, Gives

LEMMA GivenEncrypts ==
  ASSUME TypeOK, TypeOK', Sharing, Encryptions, NEW c \in Calls, NEW s \in Sessions, NEW i, Gives(c, s, i)
  PROVE  Encryptions'
<1>1. ASSUME NEW e \in Calls
      PROVE  /\ calls'[e].session = calls[e].session /\ (Busy(e)' => Busy(e))
             /\ calls'[e].stage = "idle" <=> calls[e].stage = "idle"
  BY DEF Gives, Busy
<1>2. /\ Busy(c) /\ calls[c].stage # "idle" /\ s = calls[c].session.id /\ i = calls[c].session.index
      /\ i \in Nat
  BY GivenNumbers DEF Gives, Busy
<1>3. OneAtATime'
  <2>1. pending' = pending
    BY DEF Gives
  <2>2. \A m \in Msgs : calls'[m].stage = "idle" <=> calls[m].stage = "idle"
    BY <1>1, Numbers
  <2>. QED
    BY <2>1, <2>2, SameQueue DEF Encryptions
<1>4. stored.id # 0 => Ahead(stored.id, stored.index)'
  <2>1. stored.index \in Nat /\ stored.id \in {0} \cup Sessions
    BY Counts DEF TypeOK, Outbound
  <2>2. stored.id = s => i <= stored.index
    <3>1. c \in Msgs \/ c = Ensure
      BY DEF Calls
    <3>. QED
      BY <1>2, <2>1, <3>1 DEF Encryptions, Ratchets
  <2>. PICK x, j : x = stored.id /\ j = stored.index
    OBVIOUS
  <2>3. stored'.id = x /\ stored'.index = j
    BY DEF Gives
  <2>4. ASSUME x # 0
        PROVE  Ahead(x, j)'
    <3>1. x \in Sessions /\ j \in Nat /\ Ahead(x, j) /\ (x = s => i <= j)
      BY <2>1, <2>2, <2>4 DEF Encryptions, Ratchets
    <3>. QED
      BY <3>1, GivenIsBehind
  <2>. QED
    BY <2>3, <2>4
<1>5. ASSUME NEW m \in Msgs, Busy(m)
      PROVE  Ahead(calls[m].session.id, calls[m].session.index)'
  <2>0. m \in Calls
    BY Numbers
  <2>1. calls[m].session.index \in Nat /\ calls[m].session.id \in Sessions
    <3>1. calls[m] \in Call /\ calls[m].session.id # 0
      BY <1>5, <2>0 DEF TypeOK, Sharing, Shares
    <3>. QED
      BY <2>0, <3>1, Counts DEF Call, SessionInfo
  <2>2. Ahead(calls[m].session.id, calls[m].session.index)
    BY <1>5 DEF Encryptions, Ratchets
  <2>3. calls[m].session.id = s => i <= calls[m].session.index
    <3>1. CASE c = m
      BY <1>2, <2>1, <3>1
    <3>2. CASE c = Ensure
      BY <1>2, <1>5, <3>2 DEF Encryptions, Ratchets
    <3>3. CASE c \in Msgs /\ c # m
      BY <1>2, <1>5, <3>3 DEF Encryptions, OneAtATime, Busy
    <3>. QED
      BY <3>1, <3>2, <3>3 DEF Calls
  <2>. PICK x : x = calls[m].session.id
    OBVIOUS
  <2>. PICK j : j = calls[m].session.index
    OBVIOUS
  <2>4. Ahead(x, j)'
    BY <2>1, <2>2, <2>3, GivenIsBehind
  <2>. QED
    BY <1>1, <2>0, <2>4
<1>6. Ratchets'
  <2>1. stored' = stored
    BY DEF Gives
  <2>2. stored'.id # 0 => Ahead(stored.id, stored.index)'
    BY <1>4, <2>1
  <2>3. ASSUME NEW m \in Msgs, Busy(m)'
        PROVE  /\ Ahead(calls[m].session.id, calls[m].session.index)'
               /\ stored'.id = calls'[m].session.id => stored'.index = calls'[m].session.index
    <3>1. m \in Calls /\ Busy(m) /\ calls'[m].session = calls[m].session
      BY <1>1, <2>3, Numbers
    <3>. QED
      BY <1>5, <2>1, <3>1 DEF Encryptions, Ratchets
  <2>4. Busy(Ensure)' =>
          /\ stored'.id = calls'[Ensure].session.id => calls'[Ensure].session.index <= stored'.index
          /\ \A m \in Msgs : Busy(m)' /\ calls'[m].session.id = calls'[Ensure].session.id =>
               calls'[Ensure].session.index <= calls'[m].session.index
    BY <1>1, <2>1, Numbers DEF Encryptions, Ratchets
  <2>. QED
    BY <2>2, <2>3, <2>4 DEF Ratchets
<1>7. Ciphered' = Ciphered /\ \A m \in Ciphered : m \in Calls /\ m # c /\ calls'[m] = calls[m]
  <2>1. \A m \in Ciphered : m # c
    BY <1>2 DEF Encryptions
  <2>. QED
    BY <2>1, Numbers DEF Ciphered, Gives
<1>8. NoIndexReuse' /\ (\A m \in Ciphered : calls[m].stage = "idle")'
  BY <1>7 DEF Encryptions, NoIndexReuse, Gives
<1>9. ASSUME "encryption" \notin overlapped
      PROVE  Decryptable'
  <2>1. ASSUME NEW m \in Ciphered, NEW d \in calls[m].users
        PROVE  \/ keys'[d][cipher[m].id] <= cipher[m].index
               \/ shared'[cipher[m].id][d] <= cipher[m].index
               \/ d \in calls[m].shareMap \ calls[m].targets
    <3>1. /\ cipher[m].id \in Sessions /\ cipher[m].index \in Index /\ cipher[m].index \in Nat
          /\ d \in Devices /\ cipher[m].index < Never
      <4>1. m \in Msgs /\ m \in Calls /\ calls[m] \in Call
        BY Numbers DEF Ciphered, TypeOK
      <4>2. cipher[m].id \in Sessions /\ cipher[m].index \in Index /\ d \in Devices
        BY <4>1 DEF Ciphered, TypeOK, Outbound, Call
      <4>. QED
        BY <4>2, Numbers DEF Index
    <3>2. \/ keys[d][cipher[m].id] <= cipher[m].index
          \/ shared[cipher[m].id][d] <= cipher[m].index
          \/ d \in calls[m].shareMap \ calls[m].targets
      BY <1>9 DEF Encryptions, Decryptable
    <3>3. /\ keys'[d][cipher[m].id] <= keys[d][cipher[m].id]
          /\ keys[d][cipher[m].id] \in Nat /\ keys'[d][cipher[m].id] \in Nat
      <4>1. keys'[d][cipher[m].id] <= keys[d][cipher[m].id]
        BY <3>1 DEF Gives
      <4>2. keys[d][cipher[m].id] \in Nat /\ keys'[d][cipher[m].id] \in Nat
        BY <3>1, GivenNumbers
      <4>. QED
        BY <4>1, <4>2
    <3>4. shared[cipher[m].id][d] <= cipher[m].index => shared'[cipher[m].id][d] = shared[cipher[m].id][d]
      BY <3>1, GivenNumbers
    <3>. QED
      BY <3>1, <3>2, <3>3, <3>4
  <2>2. cipher' = cipher
    BY DEF Gives
  <2>. QED
    BY <1>7, <2>1, <2>2 DEF Decryptable
<1>10. "encryption" \in overlapped => Decryptable'
  BY DEF Gives, Decryptable
<1>. QED
  BY <1>3, <1>6, <1>8, <1>9, <1>10 DEF Encryptions

LEMMA GivenIsPrivate ==
  ASSUME TypeOK, TypeOK', Sharing, Encryptions, Private,
         NEW c \in Calls, NEW s \in Sessions, NEW i, Gives(c, s, i)
  PROVE  Private'
<1>1. ASSUME NEW e \in Calls, e # c
      PROVE  calls'[e] = calls[e] /\ calls[e].stage = "idle" /\ ~Busy(e)'
  BY <1>1 DEF Gives, Private, Busy
<1>2. /\ Busy(c) /\ s = calls[c].session.id /\ i = calls[c].session.index /\ calls'[c].session = calls[c].session
      /\ calls'[c].users = calls[c].users /\ cipher' = cipher
      /\ calls[c].targets \cup calls[c].shareMap \subseteq calls[c].users
  BY DEF Gives, Busy, Sharing, Shares
<1>3. (\A b, e \in Calls : b # e => calls[b].stage = "idle" \/ calls[e].stage = "idle")'
  BY <1>1
<1>4. Busy(Ensure)' => \A m \in Msgs : cipher'[m].id = calls'[Ensure].session.id =>
        cipher'[m].index < calls'[Ensure].session.index
  BY <1>1, <1>2, Numbers DEF Private
<1>5. ASSUME NEW e \in Calls, Busy(e)', NEW d \in Devices \ calls'[e].users
      PROVE  shared'[calls'[e].session.id][d] = Never
  <2>1. e = c
    BY <1>1, <1>5
  <2>2. shared[s][d] = Never /\ d \notin calls[c].shareMap
    BY <1>2, <1>5, <2>1 DEF Private
  <2>. QED
    BY <1>2, <2>1, <2>2, GivenNumbers
<1>6. \A m \in Msgs : cipher[m].id = s => cipher[m].index < i
  <2>1. CASE c = Ensure
    BY <1>2, <2>1 DEF Private
  <2>2. CASE c \in Msgs
    BY <1>2, <2>2 DEF Encryptions, Ratchets, Ahead
  <2>. QED
    BY <2>1, <2>2 DEF Calls
<1>7. Ciphered' = Ciphered /\ \A m \in Ciphered : m \in Msgs /\ calls'[m].users = calls[m].users
  BY <1>1, <1>2, Numbers DEF Ciphered
<1>8. ASSUME NEW m \in Ciphered, NEW d \in Devices \ calls[m].users
      PROVE  /\ shared'[cipher[m].id][d] > cipher[m].index
             /\ keys'[d][cipher[m].id] > cipher[m].index \/ <<d, cipher[m].id>> \in unmarked'
  <2>1. /\ cipher[m].id \in Sessions /\ cipher[m].index \in Nat /\ m \in Msgs
    <3>1. m \in Msgs
      BY DEF Ciphered
    <3>. QED
      BY <3>1, Counts DEF Ciphered, TypeOK, Outbound
  <2>2. /\ shared[cipher[m].id][d] > cipher[m].index
        /\ keys[d][cipher[m].id] > cipher[m].index \/ <<d, cipher[m].id>> \in unmarked
    BY DEF Private
  <2>3. cipher[m].id = s => i > cipher[m].index
    BY <1>6, <2>1, GivenNumbers
  <2>4. shared'[cipher[m].id][d] = shared[cipher[m].id][d]
          \/ (cipher[m].id = s /\ shared'[cipher[m].id][d] = i)
    BY <2>1, GivenNumbers
  <2>5. keys'[d][cipher[m].id] = keys[d][cipher[m].id]
          \/ (cipher[m].id = s /\ keys'[d][cipher[m].id] = i)
    BY <2>1, GivenNumbers
  <2>6. unmarked \subseteq unmarked'
    BY DEF Gives
  <2>. QED
    BY <2>2, <2>3, <2>4, <2>5, <2>6
<1>. QED
  BY <1>2, <1>3, <1>4, <1>5, <1>7, <1>8 DEF Private

LEMMA GivesKeeps ==
  ASSUME Inv, TypeOK', NEW c \in Calls, NEW s, NEW i, Gives(c, s, i)
  PROVE  Inv'
<1>1. overlapped' = overlapped /\ s \in Sessions
  BY DEF Gives
<1>. QED
  BY <1>1, GivenCounts, GivenNumbered, GivenShares, GivenEncrypts, GivenIsPrivate DEF Inv

LEMMA KeySentKeeps ==
  ASSUME Inv, NEW c \in Calls, KeySent(c)
  PROVE  Inv'
<1>. PICK s, i : s = calls[c].session.id /\ i = calls[c].session.index
  OBVIOUS
<1>1. TypeOK' /\ Gives(c, s, i)
  BY SentGives
<1>. QED
  BY <1>1, GivesKeeps

LEMMA KeyNotSentKeeps ==
  ASSUME Inv, NEW c \in Calls, NEW lost \in BOOLEAN, KeyNotSent(c, lost)
  PROVE  Inv'
<1>. PICK s, i : s = calls[c].session.id /\ i = calls[c].session.index
  OBVIOUS
<1>1. TypeOK' /\ Gives(c, s, i)
  BY NotSentGives
<1>. QED
  BY <1>1, GivesKeeps

(***************************************************************************)
(* A device asks again for what it has been given.                         *)
(***************************************************************************)
\* One device may get a session at the index at which it was shared with it.
Reshares(d, s) ==
  /\ shared[s][d] # Never
  /\ \A e \in Devices, r \in Sessions :
       /\ keys[e][r] \in Nat /\ keys'[e][r] \in Nat /\ keys'[e][r] <= keys[e][r]
       /\ keys'[e][r] # keys[e][r] => e = d /\ r = s /\ keys'[e][r] = shared[s][d]
  /\ UNCHANGED <<stored, created, shared, calls, pending, answer, cipher, history>>

LEMMA ReshareStep ==
  ASSUME Inv, NEW d \in Devices, NEW s \in Sessions, ReshareKey(d, s)
  PROVE  TypeOK' /\ Reshares(d, s)
<1>1. /\ shared[s][d] # Never /\ olm' = olm \cup {d}
      /\ keys' = [keys EXCEPT ![d][s] = Min({@, shared[s][d]})]
      /\ UNCHANGED <<room, stored, created, shared, claiming, calls, pending, messages, cipher,
                     history, events>>
  BY DEF ReshareKey
<1>2. TypeOK /\ keys \in [Devices -> [Sessions -> Index \cup {Never}]]
      /\ shared \in [Sessions -> [Devices -> Index \cup {Never}]]
  BY DEF Inv, TypeOK
<1>3. \A e \in Devices, r \in Sessions : keys[e][r] \in Nat /\ keys[e][r] \in Index \cup {Never}
  BY <1>2, Numbers
<1>4. shared[s][d] \in Nat /\ shared[s][d] \in Index \cup {Never}
  BY <1>2, Numbers
<1>. DEFINE j == Min({keys[d][s], shared[s][d]})
<1>5. j \in {keys[d][s], shared[s][d]} /\ j <= keys[d][s]
  BY <1>3, <1>4, MinOfTwo
<1>6. keys' = [keys EXCEPT ![d] = [keys[d] EXCEPT ![s] = j]]
  BY <1>1, <1>2
<1>7. j \in Index \cup {Never} /\ j \in Nat
  BY <1>3, <1>4, <1>5
<1>. HIDE DEF j
<1>8. keys' \in [Devices -> [Sessions -> Index \cup {Never}]]
  <2>1. [keys[d] EXCEPT ![s] = j] \in [Sessions -> Index \cup {Never}]
    BY <1>2, <1>7
  <2>. QED
    BY <1>2, <1>6, <2>1
<1>9. \A e \in Devices, r \in Sessions :
        keys'[e][r] = IF e = d /\ r = s THEN j ELSE keys[e][r]
  BY <1>2, <1>6
<1>10. \A e \in Devices, r \in Sessions :
         /\ keys[e][r] \in Nat /\ keys'[e][r] \in Nat /\ keys'[e][r] <= keys[e][r]
         /\ keys'[e][r] # keys[e][r] => e = d /\ r = s /\ keys'[e][r] = shared[s][d]
  BY <1>3, <1>5, <1>7, <1>9
<1>11. TypeOK'
  BY <1>1, <1>2, <1>8 DEF TypeOK, messages, history
<1>. QED
  BY <1>1, <1>10, <1>11 DEF Reshares, messages

LEMMA ReshareKeeps ==
  ASSUME Inv, NEW d \in Devices, NEW s \in Sessions, ReshareKey(d, s)
  PROVE  Inv'
<1>1. TypeOK' /\ Reshares(d, s) /\ TypeOK /\ overlapped' = overlapped
  BY ReshareStep DEF Inv, Reshares, history
<1>2. Count' /\ Numbered'
  BY <1>1 DEF Inv, Count, Counted, Numbered, Reshares
<1>3. Given'
  BY <1>1 DEF Inv, Given, Reshares, history
<1>4. ASSUME NEW c \in Calls, NEW e \in calls[c].users, Busy(c)
      PROVE  e \in Devices /\ calls[c].session.id \in Sessions /\ calls[c].session.index \in Nat
  <2>1. calls[c] \in Call /\ calls[c].session.id # 0
    BY <1>1, <1>4 DEF Inv, TypeOK, Sharing, Shares
  <2>. QED
    BY <1>1, <2>1, Counts DEF Call, SessionInfo
<1>5. Sharing'
  <2>1. \A c \in Calls : Shares(c)'
    BY <1>1 DEF Inv, Sharing, Shares, Busy, Reshares
  <2>2. ASSUME NEW c \in Calls, calls[c].stage = "ready", NEW e \in calls[c].users
        PROVE  \/ keys'[e][calls[c].session.id] <= calls[c].session.index
               \/ shared[calls[c].session.id][e] # Never
               \/ e \in calls[c].shareMap \ calls[c].targets
    <3>1. \/ keys[e][calls[c].session.id] <= calls[c].session.index
          \/ shared[calls[c].session.id][e] # Never
          \/ e \in calls[c].shareMap \ calls[c].targets
      BY <2>2 DEF Inv, Sharing
    <3>2. e \in Devices /\ calls[c].session.id \in Sessions /\ calls[c].session.index \in Nat
      BY <1>4, <2>2 DEF Busy
    <3>. QED
      BY <1>1, <3>1, <3>2 DEF Reshares
  <2>3. UNCHANGED <<calls, shared>>
    BY <1>1 DEF Reshares
  <2>. QED
    BY <2>1, <2>2, <2>3 DEF Sharing
<1>6. ASSUME NEW m \in Ciphered
      PROVE  /\ cipher[m].id \in Sessions /\ cipher[m].index \in Nat /\ m \in Msgs
             /\ calls[m].users \subseteq Devices
  <2>1. m \in Msgs /\ m \in Calls /\ calls[m] \in Call
    BY <1>1, Numbers DEF Ciphered, TypeOK
  <2>2. calls[m].users \subseteq Devices
    BY <2>1 DEF Call
  <2>. QED
    BY <1>1, <2>1, <2>2, Counts DEF Ciphered, TypeOK, Outbound
<1>7. ASSUME "encryption" \notin overlapped
      PROVE  Encryptions'
  <2>1. UNCHANGED <<stored, calls, pending, cipher, shared, overlapped>> /\ Ciphered' = Ciphered
    BY <1>1 DEF Reshares, history, Ciphered
  <2>2. OneAtATime' /\ Ratchets' /\ NoIndexReuse' /\ (\A m \in Ciphered : calls[m].stage = "idle")'
    BY <1>7, <2>1 DEF Inv, Encryptions, OneAtATime, Ratchets, Ahead, Busy, NoIndexReuse
  <2>3. ASSUME NEW m \in Ciphered, NEW e \in calls[m].users
        PROVE  \/ keys'[e][cipher[m].id] <= cipher[m].index
               \/ shared[cipher[m].id][e] <= cipher[m].index
               \/ e \in calls[m].shareMap \ calls[m].targets
    <3>1. \/ keys[e][cipher[m].id] <= cipher[m].index
          \/ shared[cipher[m].id][e] <= cipher[m].index
          \/ e \in calls[m].shareMap \ calls[m].targets
      BY <1>7 DEF Inv, Encryptions, Decryptable
    <3>2. e \in Devices /\ cipher[m].id \in Sessions /\ cipher[m].index \in Nat
      BY <1>6
    <3>. QED
      BY <1>1, <3>1, <3>2 DEF Reshares
  <2>4. Decryptable'
    BY <2>1, <2>3 DEF Decryptable
  <2>. QED
    BY <2>2, <2>4 DEF Encryptions
<1>8. ASSUME overlapped = {}
      PROVE  Private'
  <2>1. UNCHANGED <<calls, cipher, shared, unmarked>> /\ Ciphered' = Ciphered
    BY <1>1 DEF Reshares, history, Ciphered
  <2>2. ASSUME NEW m \in Ciphered, NEW e \in Devices \ calls[m].users
        PROVE  /\ shared[cipher[m].id][e] > cipher[m].index
               /\ keys'[e][cipher[m].id] > cipher[m].index \/ <<e, cipher[m].id>> \in unmarked
    <3>1. /\ shared[cipher[m].id][e] > cipher[m].index
          /\ keys[e][cipher[m].id] > cipher[m].index \/ <<e, cipher[m].id>> \in unmarked
      BY <1>8 DEF Inv, Private
    <3>2. keys'[e][cipher[m].id] = keys[e][cipher[m].id] \/ keys'[e][cipher[m].id] = shared[cipher[m].id][e]
      BY <1>1, <1>6 DEF Reshares
    <3>. QED
      BY <3>1, <3>2
  <2>. QED
    BY <1>8, <2>1, <2>2 DEF Inv, Private, Busy
<1>. QED
  BY <1>1, <1>2, <1>3, <1>5, <1>7, <1>8 DEF Inv

(***************************************************************************)
(* The messages that wait are encrypted.                                   *)
(***************************************************************************)
\* Each with the index its place in the queue gives it; the ratchet moves past them.
Encrypts(c) ==
  /\ calls[c].stage = "ready" /\ calls[c].session.id \in Sessions
  /\ \A m \in Msgs :
       \/ /\ \A i \in DOMAIN pending : pending[i] # m
          /\ cipher'[m] = cipher[m]
       \/ \E i \in DOMAIN pending :
            /\ pending[i] = m /\ cipher'[m].id = calls[c].session.id
            /\ cipher'[m].index = calls[c].session.index + i - 1
  /\ pending = <<>> => stored' = stored
  /\ pending # <<>> => stored'.id = calls[c].session.id
                         /\ stored'.index = calls[c].session.index + Len(pending)
  /\ pending' = <<>>
  /\ \A m \in Msgs : answer'[m] = "unasked" <=> answer[m] = "unasked"
  /\ \A e \in Calls : e # c => calls'[e] = calls[e]
  /\ calls'[c].stage = "idle" /\ calls'[c].users = calls[c].users
  /\ calls'[c].session = calls[c].session /\ calls'[c].shareMap = calls[c].shareMap
  /\ calls'[c].targets = calls[c].targets /\ calls'[c].inProgress = calls[c].inProgress
  /\ UNCHANGED <<created, shared, keys, history>>

LEMMA EncryptStep ==
  ASSUME Inv, NEW c \in Msgs, EncryptPending(c)
  PROVE  TypeOK' /\ Encrypts(c)
<1>. PICK session : session = calls[c].session
  OBVIOUS
<1>1. /\ calls[c].stage = "ready" /\ calls' = [calls EXCEPT ![c].stage = "idle"]
      /\ cipher' = [m \in Msgs |->
           IF \E i \in DOMAIN pending : pending[i] = m
             THEN LET i == CHOOSE i \in DOMAIN pending : pending[i] = m
                  IN  [id |-> session.id, index |-> session.index + i - 1]
             ELSE cipher[m]]
      /\ stored' = StoreOutboundGroupSession(session, Len(pending))
      /\ answer' = Answered("encrypted") /\ pending' = <<>>
      /\ UNCHANGED <<room, created, shared, olm, claiming, cancelled, keys, history, events>>
  BY DEF EncryptPending
<1>2. TypeOK /\ c \in Calls /\ calls \in [Calls -> Call] /\ calls[c] \in Call /\ "idle" \in Stage /\ Count
  BY Numbers DEF Inv, TypeOK, Stage
<1>3. session.id \in Sessions /\ session.index \in Nat
  <2>1. Busy(c) /\ session.id \in {0} \cup Sessions
    BY <1>1, <1>2 DEF Busy, Call, SessionInfo
  <2>2. session.id # 0
    BY <1>2, <2>1 DEF Inv, Sharing, Shares
  <2>. QED
    BY <1>2, <2>1, <2>2, Counts
<1>4. Len(pending) \in Nat /\ DOMAIN pending = 1..Len(pending) /\ (pending = <<>> <=> Len(pending) = 0)
      /\ pending \in Seq(Msgs)
  BY <1>2, LenProperties, EmptySeq DEF TypeOK
<1>5. PICK k \in 0..MaxMsg : session.index + Len(pending) <= k
  BY <1>2 DEF Count, Counted
<1>6. /\ calls' \in [Calls -> Call] /\ calls'[c] = Staged(calls[c], "idle")
      /\ \A e \in Calls : e # c => calls'[e] = calls[e]
  BY <1>1, <1>2, CallStaged
<1>7. /\ calls'[c].stage = "idle" /\ calls'[c].users = calls[c].users
      /\ calls'[c].session = calls[c].session /\ calls'[c].shareMap = calls[c].shareMap
      /\ calls'[c].targets = calls[c].targets /\ calls'[c].inProgress = calls[c].inProgress
  BY <1>2, <1>6, StagedCall
<1>8. /\ answer' \in [Msgs -> {"unasked", "waiting", "encrypted", "failed"}]
      /\ \A m \in Msgs : answer'[m] = "unasked" <=> answer[m] = "unasked"
  BY <1>1, <1>2, PendingAsked, AnsweredMessages
<1>9. ASSUME NEW m \in Msgs
      PROVE  /\ cipher'[m] \in Outbound
             /\ \/ /\ \A i \in DOMAIN pending : pending[i] # m
                   /\ cipher'[m] = cipher[m]
                \/ \E i \in DOMAIN pending :
                     /\ pending[i] = m /\ cipher'[m].id = session.id
                     /\ cipher'[m].index = session.index + i - 1
  <2>1. CASE \E i \in DOMAIN pending : pending[i] = m
    <3>. PICK i : i = CHOOSE j \in DOMAIN pending : pending[j] = m
      OBVIOUS
    <3>1. i \in DOMAIN pending /\ pending[i] = m
      BY <2>1
    <3>2. cipher'[m] = [id |-> session.id, index |-> session.index + i - 1]
      BY <1>1, <2>1
    <3>3. session.index + i - 1 \in Index
      <4>1. i \in Nat /\ 1 <= i /\ i <= Len(pending)
        BY <1>4, <3>1
      <4>2. k \in Nat /\ k <= MaxMsg
        BY Numbers
      <4>. QED
        BY <1>3, <1>4, <1>5, <4>1, <4>2, Numbers DEF Index
    <3>4. cipher'[m] \in Outbound
      BY <1>3, <3>2, <3>3 DEF Outbound
    <3>5. cipher'[m].id = session.id /\ cipher'[m].index = session.index + i - 1
      BY <3>2
    <3>. QED
      BY <3>1, <3>4, <3>5
  <2>2. CASE ~\E i \in DOMAIN pending : pending[i] = m
    BY <1>1, <1>2, <2>2 DEF TypeOK
  <2>. QED
    BY <2>1, <2>2
<1>10. /\ stored' \in Outbound
       /\ pending = <<>> => stored' = stored
       /\ pending # <<>> => stored'.id = session.id /\ stored'.index = session.index + Len(pending)
  <2>1. session.index + Len(pending) \in Index
    BY <1>3, <1>4, <1>5, Numbers DEF Index
  <2>. QED
    BY <1>1, <1>2, <1>3, <1>4, <2>1 DEF StoreOutboundGroupSession, TypeOK, Outbound
<1>11. TypeOK'
  <2>1. cipher' \in [Msgs -> Outbound]
    BY <1>1, <1>9
  <2>2. pending' \in Seq(Msgs)
    BY <1>1
  <2>. QED
    BY <1>1, <1>2, <1>6, <1>8, <1>10, <2>1, <2>2 DEF TypeOK, history
<1>. QED
  BY <1>1, <1>3, <1>6, <1>7, <1>8, <1>9, <1>10, <1>11 DEF Encrypts, history

LEMMA EncryptCounts ==
  ASSUME TypeOK, Count, NEW c \in Msgs, Encrypts(c)
  PROVE  Count'
<1>1. PICK k \in 0..MaxMsg : Counted(k)
  BY DEF Count
<1>2. Len(pending) \in Nat /\ stored.index \in Nat /\ k \in Nat
      /\ \A e \in Calls : calls[e].session.index \in Nat
  BY Counts
<1>3. pending' = <<>> /\ Len(pending') = 0 /\ DOMAIN pending' = {}
  BY DEF Encrypts
<1>4. \A m \in Msgs : cipher'[m].id # 0 => m <= k
  BY <1>1 DEF Encrypts, Counted
<1>5. \A e \in Calls : calls'[e].session = calls[e].session
  BY DEF Encrypts
<1>6. stored'.index + Len(pending') <= k /\ \A e \in Calls : calls'[e].session.index + Len(pending') <= k
  <2>1. c \in Calls
    BY Numbers
  <2>2. stored.index + Len(pending) <= k /\ \A e \in Calls : calls[e].session.index + Len(pending) <= k
    BY <1>1 DEF Counted
  <2>3. stored'.index = stored.index \/ stored'.index = calls[c].session.index + Len(pending)
    BY DEF Encrypts
  <2>4. stored'.index <= k /\ stored'.index \in Nat
    BY <1>2, <2>1, <2>2, <2>3
  <2>5. \A e \in Calls : calls'[e].session.index <= k /\ calls'[e].session.index \in Nat
    BY <1>2, <1>5, <2>2
  <2>. QED
    BY <1>3, <2>4, <2>5
<1>7. Counted(k)'
  BY <1>1, <1>3, <1>4, <1>5, <1>6 DEF Counted, Encrypts
<1>. QED
  BY <1>7 DEF Count

LEMMA EncryptNumbers ==
  ASSUME Numbered, Given, Sharing, NEW c \in Msgs, Encrypts(c)
  PROVE  Numbered' /\ Given' /\ Sharing'
<1>1. c \in Calls /\ \A e \in Calls : calls'[e].session = calls[e].session
  BY Numbers DEF Encrypts
<1>2. stored'.id <= created /\ \A m \in Msgs : cipher'[m].id <= created
  BY <1>1 DEF Numbered, Encrypts
<1>3. Numbered' /\ Given'
  BY <1>1, <1>2 DEF Numbered, Given, Encrypts, history
<1>4. Shares(c)' /\ calls'[c].stage # "ready"
  BY <1>1 DEF Sharing, Shares, Busy, Encrypts
<1>5. \A e \in Calls : e # c => calls'[e] = calls[e]
  BY DEF Encrypts
<1>6. UNCHANGED <<shared, keys>>
  BY DEF Encrypts
<1>7. Sharing'
  BY <1>4, <1>5, <1>6 DEF Sharing, Shares, Busy
<1>. QED
  BY <1>3, <1>7

\* While messages are encrypted one at a time, it is the one of the call.
LEMMA EncryptsOne ==
  ASSUME TypeOK, OneAtATime, NEW c \in Msgs, Encrypts(c)
  PROVE  /\ cipher'[c].id = calls[c].session.id /\ cipher'[c].index = calls[c].session.index
         /\ stored'.id = calls[c].session.id /\ stored'.index = calls[c].session.index + 1
         /\ calls[c].session.index \in Nat /\ calls[c].session.index \in Index
         /\ calls[c].session.id \in Sessions
         /\ \A m \in Msgs : m # c => cipher'[m] = cipher[m] /\ calls'[m] = calls[m]
                                       /\ calls[m].stage = "idle"
         /\ Busy(c) /\ calls'[c].stage = "idle"
<1>1. c \in Calls /\ calls[c].stage = "ready" /\ \A m \in Msgs : m \in Calls
  BY Numbers DEF Encrypts
<1>2. pending = <<c>> /\ \A m \in Msgs : m # c => calls[m].stage = "idle"
  BY <1>1 DEF OneAtATime
<1>3. pending # <<>> /\ Len(pending) = 1 /\ DOMAIN pending = {1} /\ pending[1] = c
  BY <1>2
<1>4. calls[c].session.index \in Nat /\ calls[c].session.index \in Index
  BY <1>1, Counts
<1>5. cipher'[c].id = calls[c].session.id /\ cipher'[c].index = calls[c].session.index
  <2>1. cipher'[c].id = calls[c].session.id /\ cipher'[c].index = calls[c].session.index + 1 - 1
    BY <1>3 DEF Encrypts
  <2>. QED
    BY <1>4, <2>1
<1>6. \A m \in Msgs : m # c => cipher'[m] = cipher[m]
  BY <1>3 DEF Encrypts
<1>7. stored'.id = calls[c].session.id /\ stored'.index = calls[c].session.index + 1
  BY <1>3 DEF Encrypts
<1>. QED
  BY <1>1, <1>2, <1>4, <1>5, <1>6, <1>7 DEF Encrypts, Busy

LEMMA EncryptEncrypts ==
  ASSUME TypeOK, Sharing, Encryptions, NEW c \in Msgs, Encrypts(c), "encryption" \notin overlapped
  PROVE  Encryptions'
<1>. PICK s, i : s = calls[c].session.id /\ i = calls[c].session.index
  OBVIOUS
<1>1. /\ cipher'[c].id = s /\ cipher'[c].index = i /\ stored'.id = s /\ stored'.index = i + 1
      /\ i \in Nat /\ i \in Index /\ s \in Sessions
      /\ \A m \in Msgs : m # c => cipher'[m] = cipher[m] /\ calls'[m] = calls[m] /\ calls[m].stage = "idle"
      /\ Busy(c) /\ calls'[c].stage = "idle"
  BY EncryptsOne DEF Encryptions
<1>2. OneAtATime'
  BY <1>1 DEF OneAtATime, Encrypts
<1>3. Ahead(s, i)
  BY <1>1 DEF Encryptions, Ratchets
<1>4. /\ c \in Calls /\ UNCHANGED <<shared, keys, overlapped>>
      /\ \A d \in Devices : shared[s][d] \in Nat
      /\ \A m \in Msgs : cipher[m].index \in Nat
  <2>1. shared[s] \in [Devices -> Index \cup {Never}]
    BY <1>1 DEF TypeOK
  <2>2. \A d \in Devices : shared[s][d] \in Nat
    BY <2>1, Numbers
  <2>. QED
    BY <2>2, Counts, Numbers DEF Encrypts, history
<1>5. Ahead(s, i + 1)'
  <2>1. \A m \in Msgs : cipher'[m].id = s => cipher'[m].index < i + 1
    BY <1>1, <1>3, <1>4 DEF Ahead
  <2>2. \A d \in Devices : shared'[s][d] # Never => shared'[s][d] <= i + 1
    BY <1>1, <1>3, <1>4 DEF Ahead
  <2>. QED
    BY <2>1, <2>2 DEF Ahead
<1>6. Ratchets'
  <2>1. \A m \in Msgs : ~Busy(m)'
    BY <1>1 DEF Busy
  <2>2. calls'[Ensure] = calls[Ensure] /\ calls[Ensure].session.index \in Nat
    BY Numbers, Counts DEF Encrypts
  <2>3. Busy(Ensure)' /\ stored'.id = calls'[Ensure].session.id =>
          calls'[Ensure].session.index <= stored'.index
    <3>1. ASSUME Busy(Ensure), calls[c].session.id = calls[Ensure].session.id
          PROVE  calls[Ensure].session.index <= i
      BY <1>1, <3>1 DEF Encryptions, Ratchets
    <3>2. Busy(Ensure)' => Busy(Ensure)
      BY <2>2 DEF Busy
    <3>. QED
      BY <1>1, <2>2, <3>1, <3>2
  <2>4. Ahead(stored.id, stored.index)'
    BY <1>1, <1>5
  <2>. QED
    BY <2>1, <2>3, <2>4 DEF Ratchets
<1>7. ASSUME NEW m \in Ciphered', m # c
      PROVE  m \in Ciphered /\ cipher'[m] = cipher[m] /\ calls'[m] = calls[m] /\ m \in Msgs
  BY <1>1, <1>7 DEF Ciphered
<1>8. (\A m \in Ciphered : calls[m].stage = "idle")'
  BY <1>1 DEF Ciphered
<1>9. ASSUME NEW m \in Ciphered', m # c
      PROVE  <<cipher'[m].id, cipher'[m].index>> # <<cipher'[c].id, cipher'[c].index>>
  BY <1>1, <1>3, <1>4, <1>7, <1>9 DEF Ahead
<1>10. NoIndexReuse'
  <2>1. ASSUME NEW m \in Ciphered', NEW n \in Ciphered', m # n
        PROVE  <<cipher'[m].id, cipher'[m].index>> # <<cipher'[n].id, cipher'[n].index>>
    <3>1. CASE m # c /\ n # c
      BY <1>7, <2>1, <3>1 DEF Encryptions, NoIndexReuse
    <3>2. CASE m = c \/ n = c
      BY <1>9, <2>1, <3>2
    <3>. QED
      BY <3>1, <3>2
  <2>. QED
    BY <2>1 DEF NoIndexReuse
<1>11. ASSUME NEW m \in Ciphered', NEW d \in calls'[m].users
       PROVE  \/ keys'[d][cipher'[m].id] <= cipher'[m].index
              \/ shared'[cipher'[m].id][d] <= cipher'[m].index
              \/ d \in calls'[m].shareMap \ calls'[m].targets
  <2>1. CASE m = c
    <3>1. calls'[c].users = calls[c].users /\ calls'[c].shareMap = calls[c].shareMap
          /\ calls'[c].targets = calls[c].targets /\ calls[c].stage = "ready"
      BY DEF Encrypts
    <3>2. d \in Devices /\ d \in calls[c].users
      BY <1>4, <1>11, <2>1, <3>1 DEF TypeOK, Call
    <3>3. keys[d][s] <= i \/ shared[s][d] # Never \/ d \in calls[c].shareMap \ calls[c].targets
      BY <1>4, <3>1, <3>2 DEF Sharing
    <3>. QED
      BY <1>1, <1>3, <1>4, <2>1, <3>1, <3>2, <3>3 DEF Ahead
  <2>2. CASE m # c
    BY <1>4, <1>7, <1>11, <2>2 DEF Encryptions, Decryptable
  <2>. QED
    BY <2>1, <2>2
<1>12. Decryptable'
  BY <1>11 DEF Decryptable
<1>. QED
  BY <1>2, <1>6, <1>8, <1>10, <1>12 DEF Encryptions

LEMMA EncryptIsPrivate ==
  ASSUME TypeOK, Given, Encryptions, Private, NEW c \in Msgs, Encrypts(c)
  PROVE  Private'
<1>. PICK s, i : s = calls[c].session.id /\ i = calls[c].session.index
  OBVIOUS
<1>1. /\ cipher'[c].id = s /\ cipher'[c].index = i /\ i \in Nat /\ i \in Index /\ s \in Sessions
      /\ \A m \in Msgs : m # c => cipher'[m] = cipher[m] /\ calls'[m] = calls[m]
      /\ Busy(c) /\ calls'[c].stage = "idle"
  BY EncryptsOne DEF Encryptions
<1>2. c \in Calls /\ UNCHANGED <<shared, keys, unmarked>> /\ calls'[c].users = calls[c].users
  BY Numbers DEF Encrypts, history
<1>3. \A e \in Calls : calls'[e].stage = "idle"
  BY <1>1, <1>2 DEF Encrypts, Private, Busy
<1>4. i < Never
  BY <1>1, Numbers DEF Index
<1>5. ASSUME NEW m \in Ciphered', NEW d \in Devices \ calls'[m].users
      PROVE  /\ shared'[cipher'[m].id][d] > cipher'[m].index
             /\ keys'[d][cipher'[m].id] > cipher'[m].index \/ <<d, cipher'[m].id>> \in unmarked'
  <2>1. CASE m = c
    <3>1. shared[s][d] = Never
      BY <1>1, <1>2, <1>5, <2>1 DEF Private
    <3>2. keys[d][s] = Never \/ <<d, s>> \in unmarked
      BY <1>1, <3>1 DEF Given
    <3>. QED
      BY <1>1, <1>2, <1>4, <2>1, <3>1, <3>2, Numbers
  <2>2. CASE m # c
    <3>1. m \in Ciphered /\ cipher'[m] = cipher[m] /\ calls'[m] = calls[m]
      BY <1>1, <1>5, <2>2 DEF Ciphered
    <3>. QED
      BY <1>2, <1>5, <3>1 DEF Private
  <2>. QED
    BY <2>1, <2>2
<1>6. \A e \in Calls : ~Busy(e)'
  BY <1>3 DEF Busy
<1>. QED
  BY <1>3, <1>5, <1>6, Numbers DEF Private

LEMMA EncryptPendingKeeps ==
  ASSUME Inv, NEW c \in Calls, EncryptPending(c)
  PROVE  Inv'
<1>1. c \in Msgs
  BY DEF EncryptPending, Calls
<1>2. TypeOK' /\ Encrypts(c)
  BY <1>1, EncryptStep
<1>3. overlapped' = overlapped
  BY <1>2 DEF Encrypts, history
<1>. QED
  BY <1>1, <1>2, <1>3, EncryptCounts, EncryptNumbers, EncryptEncrypts, EncryptIsPrivate DEF Inv

(***************************************************************************)
(* The invariant is inductive.                                             *)
(***************************************************************************)
LEMMA InitIsInv == Init => Inv
<1>. SUFFICES ASSUME Init PROVE Inv
  OBVIOUS
<1>1. /\ \A c \in Calls : calls[c] = NoCall
      /\ \A m \in Msgs : m \in Calls /\ calls[m] = NoCall /\ cipher[m] = NoSession /\ answer[m] = "unasked"
  BY Numbers DEF Init
<1>2. NoCall \in Call /\ NoCall.stage = "idle" /\ NoCall.targets = {} /\ NoCall.inProgress = {}
      /\ NoCall.shareMap = {} /\ NoCall.session.id = 0 /\ NoCall.session.index = 0
  BY Numbers DEF NoCall, Call, Stage, SessionInfo
<1>3. NoSession \in Outbound /\ NoSession.id = 0 /\ NoSession.index = 0
  BY Numbers DEF NoSession, Outbound
<1>4. TypeOK
  BY <1>2, <1>3, Numbers, MegolmAssumption, EmptySeq DEF Init, TypeOK
<1>5. Len(pending) = 0 /\ DOMAIN pending = {}
  BY DEF Init
<1>6. Count
  <2>1. Counted(0)
    BY <1>1, <1>2, <1>3, <1>5 DEF Counted, Msgs, Init
  <2>. QED
    BY <2>1, Numbers DEF Count
<1>7. Numbered /\ Given
  BY <1>1, <1>2, <1>3 DEF Init, Numbered, Given
<1>8. Sharing
  BY <1>1, <1>2 DEF Sharing, Shares, Busy
<1>9. Ciphered = {} /\ \A c \in Calls : ~Busy(c)
  BY <1>1, <1>2, <1>3 DEF Ciphered, Busy
<1>10. Encryptions
  <2>1. OneAtATime
    BY <1>1, <1>2 DEF Init, OneAtATime
  <2>2. Ratchets
    BY <1>3, <1>9, Numbers DEF Init, Ratchets
  <2>. QED
    BY <1>9, <2>1, <2>2 DEF Encryptions, NoIndexReuse, Decryptable
<1>11. Private
  BY <1>1, <1>2, <1>9, Numbers DEF Private
<1>. QED
  BY <1>4, <1>6, <1>7, <1>8, <1>10, <1>11 DEF Inv

LEMMA StutterKeeps ==
  ASSUME Inv, UNCHANGED vars
  PROVE  Inv'
<1>1. UNCHANGED <<room, store, claiming, calls, pending, messages, cipher, keys, history, events>>
  BY DEF vars
<1>2. TypeOK'
  BY <1>1 DEF Inv, TypeOK, store, messages, history
<1>3. Calm
  <2>1. \A c \in Calls : CalmCall(c)
    BY <1>1, SameCall DEF Inv
  <2>2. OneAtATime => OneAtATime'
    BY <1>1, SameQueue
  <2>. QED
    BY <1>1, <2>1, <2>2 DEF Calm, store, messages, history
<1>. QED
  BY <1>2, <1>3, CalmKeeps

LEMMA InvKept == Inv /\ [Next]_vars => Inv'
<1>. SUFFICES ASSUME Inv, [Next]_vars PROVE Inv'
  OBVIOUS
<1>1. ASSUME NEW m \in Msgs, EncryptEventContent(m) PROVE Inv'
  BY <1>1, EncryptEventContentKeeps
<1>2. ASSUME NEW m \in Msgs, CancelSendingOperation(m) PROVE Inv'
  BY <1>2, QuietKeeps
<1>3. ASSUME NEW c \in Calls, Work(c) PROVE Inv'
  <2>1. CASE EnsureOutboundSession(c, FALSE)
    BY <2>1, EnsureOutboundKeeps
  <2>2. ASSUME NEW got \in SUBSET calls[c].claim, ClaimAnswered(c, got) PROVE Inv'
    BY <2>2, ClaimAnsweredKeeps
  <2>3. CASE KeySent(c)
    BY <2>3, KeySentKeeps
  <2>4. CASE EncryptPending(c)
    BY <2>4, EncryptPendingKeeps
  <2>5. CASE FailPending(c)
    BY <2>5, FailPendingKeeps
  <2>. QED
    BY <1>3, <2>1, <2>2, <2>3, <2>4, <2>5 DEF Work
<1>4. ASSUME NEW c \in Calls, Trouble(c) PROVE Inv'
  <2>1. CASE EnsureOutboundSession(c, TRUE)
    BY <2>1, EnsureOutboundKeeps
  <2>2. CASE GetDevicesFails(c)
    BY <2>2, GetDevicesFailsKeeps
  <2>3. CASE ClaimFails(c)
    BY <2>3, ClaimFailsKeeps
  <2>4. ASSUME NEW lost \in BOOLEAN, KeyNotSent(c, lost) PROVE Inv'
    BY <2>4, KeyNotSentKeeps
  <2>. QED
    BY <1>4, <2>1, <2>2, <2>3, <2>4 DEF Trouble
<1>5. ASSUME EnsureEnds PROVE Inv'
  BY <1>5, EnsureEndsKeeps
<1>6. ASSUME NEW d \in Devices, NEW s \in Sessions, ReshareKey(d, s) PROVE Inv'
  BY <1>6, ReshareKeeps
<1>7. ASSUME EnsureEncryptionInRoom PROVE Inv'
  BY <1>7, EnsureEncryptionKeeps
<1>8. ASSUME MembersChange PROVE Inv'
  BY <1>8, QuietKeeps
<1>9. ASSUME DiscardOutboundGroupSession PROVE Inv'
  BY <1>9, DiscardKeeps
<1>10. ASSUME Restart PROVE Inv'
  BY <1>10, RestartKeeps
<1>11. ASSUME UNCHANGED vars PROVE Inv'
  BY <1>11, StutterKeeps
<1>. QED
  BY <1>1, <1>2, <1>3, <1>4, <1>5, <1>6, <1>7, <1>8, <1>9, <1>10, <1>11 DEF Next

LEMMA AlwaysInv == Spec => []Inv
<1>. QED
  BY InitIsInv, InvKept, PTL DEF Spec

\* What the calls of MXMegolmEncryption, the store and the requests handle is what they
\* declare: no ratchet is moved further than there are messages.
THEOREM MegolmTypeCorrect == Spec => []TypeOK
<1>1. Inv => TypeOK
  BY DEF Inv
<1>. QED
  BY <1>1, AlwaysInv, PTL

\* Unless two messages of a room have been encrypted at once, encryptGroupMessage never
\* uses an index of a session twice, whatever is rotated, discarded, reshared, fails or
\* restarts in between.
THEOREM NoIndexIsReused == Spec => []NoIndexReuse
<1>1. Inv => NoIndexReuse
  BY DEF Inv, Encryptions, NoIndexReuse
<1>. QED
  BY <1>1, AlwaysInv, PTL

\* Unless calls have overlapped, or a request whose key arrived has failed, a device that
\* was not in the room when a message was handed over never has the key that opens it.
THEOREM NoDeviceLearnsMore == Spec => []NoLeak
<1>1. Inv => NoLeak
  BY DEF Inv, Private, NoLeak
<1>. QED
  BY <1>1, AlwaysInv, PTL

\* Unless two messages of a room have been encrypted at once, each device that was in the
\* room can open a message when it is encrypted, or will when it asks again, or had no
\* one-time key when the key of the session was shared.
THEOREM MembersCanDecrypt == Spec => []Decryptable
<1>1. Inv => Decryptable
  BY DEF Inv, Encryptions, Decryptable
<1>. QED
  BY <1>1, AlwaysInv, PTL
=============================================================================
