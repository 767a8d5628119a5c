--------------------------- MODULE OutgoingProofs ---------------------------
(***************************************************************************)
(* Theorems about OutgoingMessages, for any number of messages, any texts  *)
(* and any number of cancellations, failures and restarts: what the        *)
(* application was told is sent is in the room in the order of its calls,  *)
(* and the local echoes end as they should.                                *)
(*                                                                         *)
(* Only the first of the queue runs, but for what cancelSendingOperation   *)
(* has taken out of it; so when the request of a message leaves, every     *)
(* earlier message has ended, or never will be sent.  And a message whose  *)
(* sending has ended stores no echo any more: until then it has at most    *)
(* one, which is stored anew in each of its states.                        *)
(***************************************************************************)
EXTENDS OutgoingMessages, SequenceTheorems, TLAPS

WF == INSTANCE WellFoundedInduction
FS == INSTANCE FiniteSetTheorems

Running == {"uploading", "encrypting", "sending"}
InQueue(m) == \E i \in DOMAIN ordered : ordered[i] = m
InRoom(m) == \E i \in DOMAIN timeline : timeline[i] = m

Increasing(q) == \A i, j \in DOMAIN q : i < j => q[i] < q[j]

(***************************************************************************)
(* The inductive invariant.                                                *)
(***************************************************************************)
Typed ==
  /\ stage \in [Msgs -> Sending]
  /\ ordered \in Seq(Msgs) /\ timeline \in Seq(Msgs)
  /\ told \in [Msgs -> {"nothing", "sent", "failed"}]
  /\ starting \subseteq Msgs /\ inFlight \subseteq Msgs

\* The queue is in the order of the calls; all but its first wait.
QueueInOrder ==
  /\ Increasing(ordered)
  /\ \A i \in DOMAIN ordered :
       /\ ordered[i] \notin aborted
       /\ stage[ordered[i]] \notin {"unsent", "over"}
       /\ i # 1 => stage[ordered[i]] = "queued"

\* The calls come in order, and cancellations after them.
CallsInOrder ==
  /\ \A m, n \in Msgs : m < n /\ stage[m] = "unsent" => stage[n] = "unsent"
  /\ \A m \in Msgs : stage[m] = "unsent" => m \notin aborted

\* What runs, or is about to, is the first of the queue.
FirstRuns ==
  /\ \A m \in starting : stage[m] = "queued"
  /\ \A m \in Msgs \ aborted : stage[m] \in Running \/ m \in starting =>
       ordered # <<>> /\ ordered[1] = m

\* A request leaves when its operation gets there, and reaches the room once.
Requested ==
  /\ \A m \in Msgs : m \in inFlight \/ InRoom(m) => stage[m] \in {"sending", "over"}
  /\ \A m \in inFlight : ~InRoom(m)
  /\ \A i, j \in DOMAIN timeline : timeline[i] = timeline[j] => i = j

\* Who is told that a message is sent has it in the room.
ToldInRoom == \A m \in Msgs : told[m] = "sent" => InRoom(m)

\* When a request has left, what was called before has ended, or will not run.
Ended(m) == stage[m] \notin Running /\ ~InQueue(m)
EarlierEnded ==
  \A m, n \in Msgs \ aborted : m < n /\ (n \in inFlight \/ InRoom(n)) => Ended(m)

\* Nothing comes to the room after a later message and is told to be sent.
RoomInOrder ==
  \A i, j \in DOMAIN timeline :
    /\ timeline[i] < timeline[j] /\ told[timeline[i]] = "sent"
    /\ timeline[i] \notin aborted /\ timeline[j] \notin aborted
    => i < j

Inv ==
  /\ Typed /\ QueueInOrder /\ CallsInOrder /\ FirstRuns
  /\ Requested /\ ToldInRoom /\ EarlierEnded /\ RoomInOrder

(***************************************************************************)
(* Sequences of messages.                                                  *)
(***************************************************************************)
Below == {p \in Nat \X Nat : p[1] < p[2]}

LEMMA BelowIsWellFounded == WF!IsWellFoundedOn(Below, Nat)
<1>1. Below = WF!OpToRel(<, Nat)
  BY Zenon DEF Below, WF!OpToRel
<1>. QED
  BY <1>1, WF!NatLessThanWellFounded, Zenon

LEMMA LeastIn ==
  ASSUME NEW S, S \subseteq Nat, S # {}
  PROVE  Min(S) \in S /\ \A x \in S : Min(S) <= x
<1>1. PICK x \in S : \A y \in S : <<y, x>> \notin Below
  BY BelowIsWellFounded, WF!WFMin, Zenon
<1>2. \A y \in S : x <= y
  <2>1. ASSUME NEW y \in S
        PROVE  x <= y
    <3>1. x \in Nat /\ y \in Nat /\ <<y, x>> \notin Below
      BY <1>1
    <3>. QED
      BY <3>1 DEF Below
  <2>. QED
    BY <2>1
<1>. QED
  BY <1>2 DEF Min

LEMMA MsgsAreNaturals == Msgs \subseteq Nat
BY DEF Msgs

\* r is q, without some of its messages.
Part(r, q) ==
  /\ r \in Seq(Msgs) /\ Increasing(r)
  /\ \A i \in DOMAIN r : \E j \in DOMAIN q : r[i] = q[j]

LEMMA RemovedAt ==
  ASSUME NEW S, NEW q \in Seq(S), NEW p \in DOMAIN q
  PROVE  /\ RemoveAt(q, p) \in Seq(S) /\ Len(RemoveAt(q, p)) = Len(q) - 1
         /\ \A i \in 1 .. Len(q) - 1 : RemoveAt(q, p)[i] = IF i < p THEN q[i] ELSE q[i + 1]
<1>. DEFINE a == SubSeq(q, 1, p - 1)
            b == SubSeq(q, p + 1, Len(q))
<1>1. Len(q) \in Nat /\ DOMAIN q = 1 .. Len(q) /\ p \in 1 .. Len(q) /\ \A i \in 1 .. Len(q) : q[i] \in S
  BY LenProperties
<1>2. a \in Seq(S) /\ Len(a) = p - 1 /\ \A i \in 1 .. p - 1 : a[i] = q[i]
  <2>1. \A i \in 1 .. p - 1 : q[i] \in S
    BY <1>1
  <2>2. /\ a \in Seq(S) /\ Len(a) = IF 1 <= p - 1 THEN p - 1 - 1 + 1 ELSE 0
        /\ \A i \in 1 .. p - 1 - 1 + 1 : a[i] = q[1 + i - 1]
    BY <1>1, <2>1, SubSeqProperties
  <2>. HIDE DEF a
  <2>. QED
    BY <1>1, <2>2
<1>3. b \in Seq(S) /\ Len(b) = Len(q) - p /\ \A i \in 1 .. Len(q) - p : b[i] = q[p + i]
  <2>1. \A i \in p + 1 .. Len(q) : q[i] \in S
    BY <1>1
  <2>2. /\ b \in Seq(S) /\ Len(b) = IF p + 1 <= Len(q) THEN Len(q) - (p + 1) + 1 ELSE 0
        /\ \A i \in 1 .. Len(q) - (p + 1) + 1 : b[i] = q[(p + 1) + i - 1]
    BY <1>1, <2>1, SubSeqProperties
  <2>. HIDE DEF b
  <2>3. Len(b) = Len(q) - p
    BY <1>1, <2>2
  <2>4. ASSUME NEW i \in 1 .. Len(q) - p
        PROVE  b[i] = q[p + i]
    <3>1. i \in 1 .. Len(q) - (p + 1) + 1 /\ (p + 1) + i - 1 = p + i
      BY <1>1
    <3>2. b[i] = q[(p + 1) + i - 1]
      BY <2>2, <3>1
    <3>. QED
      BY <3>1, <3>2
  <2>. QED
    BY <2>2, <2>3, <2>4
<1>4. RemoveAt(q, p) = a \o b
  BY DEF RemoveAt
<1>. HIDE DEF a, b
<1>5. /\ a \o b \in Seq(S) /\ Len(a \o b) = Len(a) + Len(b)
      /\ \A i \in 1 .. Len(a) + Len(b) : (a \o b)[i] = IF i <= Len(a) THEN a[i] ELSE b[i - Len(a)]
  BY <1>2, <1>3, ConcatProperties
<1>6. ASSUME NEW i \in 1 .. Len(q) - 1
      PROVE  (a \o b)[i] = IF i < p THEN q[i] ELSE q[i + 1]
  <2>1. i \in 1 .. Len(a) + Len(b) /\ (i <= Len(a) <=> i < p)
    BY <1>1, <1>2, <1>3
  <2>2. CASE i < p
    BY <1>1, <1>2, <1>5, <2>1, <2>2
  <2>3. CASE ~(i < p)
    <3>0. p \in Nat /\ Len(q) \in Nat /\ i \in Nat /\ ~(i <= Len(a))
      BY <1>1, <2>1, <2>3
    <3>a. (a \o b)[i] = b[i - Len(a)]
      BY <1>5, <2>1, <3>0
    <3>b. i - (p - 1) \in 1 .. Len(q) - p /\ p + (i - (p - 1)) = i + 1
      BY <2>3, <3>0
    <3>1. (a \o b)[i] = b[i - (p - 1)] /\ i - (p - 1) \in 1 .. Len(q) - p /\ p + (i - (p - 1)) = i + 1
      BY <1>2, <3>a, <3>b
    <3>2. b[i - (p - 1)] = q[p + (i - (p - 1))]
      BY <1>3, <3>1
    <3>. QED
      BY <2>3, <3>1, <3>2
  <2>. QED
    BY <2>2, <2>3
<1>. QED
  BY <1>1, <1>2, <1>3, <1>4, <1>5, <1>6

Places(q, m) == {i \in DOMAIN q : q[i] = m}

LEMMA RemovedFrom ==
  ASSUME NEW q \in Seq(Msgs), Increasing(q), NEW m, NEW r, r = RemoveFrom(q, Places(q, m))
  PROVE  /\ Part(r, q) /\ \A i \in DOMAIN r : r[i] # m
         /\ q # <<>> /\ q[1] # m => r # <<>> /\ r[1] = q[1]
<1>. DEFINE places == Places(q, m)
<1>1. Len(q) \in Nat /\ DOMAIN q = 1 .. Len(q) /\ \A i \in 1 .. Len(q) : q[i] \in Msgs /\ q[i] \in Nat
  BY LenProperties, MsgsAreNaturals
<1>2. CASE places = {}
  <2>1. r = q /\ \A i \in DOMAIN q : q[i] # m
    BY <1>2 DEF RemoveFrom, Places
  <2>. QED
    BY <2>1 DEF Part
<1>3. CASE places # {}
  <2>. PICK p : p = Min(places)
    OBVIOUS
  <2>1. p \in 1 .. Len(q) /\ q[p] = m
    <3>1. places \subseteq Nat
      BY <1>1 DEF Places
    <3>2. p \in places
      BY <1>3, <3>1, LeastIn
    <3>. QED
      BY <1>1, <3>2 DEF Places
  <2>2. r = RemoveAt(q, p)
    BY <1>3 DEF RemoveFrom
  <2>3. /\ r \in Seq(Msgs) /\ Len(r) = Len(q) - 1 /\ DOMAIN r = 1 .. Len(q) - 1
        /\ \A i \in 1 .. Len(q) - 1 : r[i] = IF i < p THEN q[i] ELSE q[i + 1]
    <3>1. p \in DOMAIN q /\ q \in Seq(Msgs)
      BY <1>1, <2>1
    <3>2. /\ r \in Seq(Msgs) /\ Len(r) = Len(q) - 1
          /\ \A i \in 1 .. Len(q) - 1 : r[i] = IF i < p THEN q[i] ELSE q[i + 1]
      BY <2>2, <3>1, RemovedAt
    <3>. QED
      BY <3>2, LenProperties
  <2>4. \A i, j \in 1 .. Len(q) : i < j => q[i] < q[j]
    BY <1>1 DEF Increasing
  <2>. HIDE DEF places
  <2>5. \A i \in 1 .. Len(q) : q[i] = m => i = p
    BY <1>1, <2>1, <2>4
  <2>6. ASSUME NEW i \in 1 .. Len(q) - 1
        PROVE  \E k \in 1 .. Len(q) : /\ r[i] = q[k] /\ k # p
                                      /\ (k = i /\ i < p) \/ (k = i + 1 /\ p <= i)
    <3>1. i \in 1 .. Len(q) /\ i + 1 \in 1 .. Len(q) /\ i \in Nat /\ p \in Nat
      BY <1>1, <2>1
    <3>2. CASE i < p
      <4>1. r[i] = q[i] /\ i # p
        BY <2>3, <3>1, <3>2
      <4>. QED
        BY <3>1, <3>2, <4>1
    <3>3. CASE p <= i
      <4>1. ~(i < p) /\ i + 1 # p
        BY <3>1, <3>3
      <4>2. r[i] = q[i + 1]
        BY <2>3, <4>1
      <4>. QED
        BY <3>1, <3>3, <4>1, <4>2
    <3>. QED
      BY <3>1, <3>2, <3>3
  <2>7. ASSUME NEW i \in 1 .. Len(q) - 1
        PROVE  r[i] # m /\ \E j \in DOMAIN q : r[i] = q[j]
    BY <1>1, <2>5, <2>6
  <2>9. Increasing(r)
    <3>1. ASSUME NEW i \in 1 .. Len(q) - 1, NEW j \in 1 .. Len(q) - 1, i < j
          PROVE  r[i] < r[j]
      <4>1. PICK k \in 1 .. Len(q) : r[i] = q[k] /\ ((k = i /\ i < p) \/ (k = i + 1 /\ p <= i))
        BY <2>6
      <4>2. PICK l \in 1 .. Len(q) : r[j] = q[l] /\ ((l = j /\ j < p) \/ (l = j + 1 /\ p <= j))
        BY <2>6
      <4>3. k < l
        BY <1>1, <2>1, <3>1, <4>1, <4>2
      <4>. QED
        BY <2>4, <4>1, <4>2, <4>3
    <3>. QED
      BY <2>3, <3>1 DEF Increasing
  <2>8. ASSUME q # <<>>, q[1] # m
        PROVE  r # <<>> /\ r[1] = q[1]
    <3>1. p # 1 /\ 1 \in 1 .. Len(q) - 1 /\ 1 < p
      BY <1>1, <2>1, <2>8
    <3>2. r[1] = q[1] /\ 1 \in DOMAIN r
      BY <2>3, <3>1
    <3>. QED
      BY <3>2
  <2>. QED
    BY <2>3, <2>7, <2>8, <2>9 DEF Part
<1>. QED
  BY <1>2, <1>3

LEMMA Skipped ==
  ASSUME NEW q \in Seq(Msgs), Increasing(q), NEW without, NEW r, r = SkipCancelled(q, without)
  PROVE  Part(r, q)
<1>. DEFINE live == {i \in DOMAIN q : q[i] \notin without}
<1>1. Len(q) \in Nat /\ DOMAIN q = 1 .. Len(q) /\ \A i \in 1 .. Len(q) : q[i] \in Msgs
  BY LenProperties
<1>2. CASE live = {}
  <2>1. r = <<>> /\ DOMAIN r = {} /\ r \in Seq(Msgs)
    BY <1>2 DEF SkipCancelled
  <2>. QED
    BY <2>1 DEF Part, Increasing
<1>3. CASE live # {}
  <2>. PICK p : p = Min(live)
    OBVIOUS
  <2>1. p \in 1 .. Len(q)
    <3>1. live \subseteq Nat
      BY <1>1
    <3>2. p \in live
      BY <1>3, <3>1, LeastIn
    <3>. QED
      BY <1>1, <3>2
  <2>2. r = SubSeq(q, p, Len(q))
    BY <1>3 DEF SkipCancelled
  <2>. HIDE DEF live
  <2>3. /\ r \in Seq(Msgs) /\ Len(r) = IF p <= Len(q) THEN Len(q) - p + 1 ELSE 0
        /\ \A i \in 1 .. Len(q) - p + 1 : r[i] = q[p + i - 1]
    <3>1. \A i \in p .. Len(q) : q[i] \in Msgs
      BY <1>1, <2>1
    <3>. QED
      BY <1>1, <2>1, <2>2, <3>1, SubSeqProperties
  <2>4. DOMAIN r = 1 .. Len(q) - p + 1
    BY <1>1, <2>1, <2>3, LenProperties
  <2>5. ASSUME NEW i \in 1 .. Len(q) - p + 1
        PROVE  p + i - 1 \in 1 .. Len(q) /\ r[i] = q[p + i - 1]
    BY <1>1, <2>1, <2>3
  <2>6. Increasing(r)
    <3>1. ASSUME NEW i \in 1 .. Len(q) - p + 1, NEW j \in 1 .. Len(q) - p + 1, i < j
          PROVE  r[i] < r[j]
      <4>1. p + i - 1 < p + j - 1
        BY <1>1, <2>1, <3>1
      <4>2. q[p + i - 1] < q[p + j - 1]
        BY <1>1, <2>5, <4>1 DEF Increasing
      <4>. QED
        BY <2>5, <4>2
    <3>. QED
      BY <2>4, <3>1 DEF Increasing
  <2>. QED
    BY <1>1, <2>3, <2>4, <2>5, <2>6 DEF Part
<1>. QED
  BY <1>2, <1>3

(***************************************************************************)
(* An operation leaves the queue, and the next one is launched.            *)
(***************************************************************************)
Launched(m, n) == ordered # <<>> /\ ordered[1] = m /\ ordered' # <<>> /\ n = ordered'[1]

HandsOver(m, st) ==
  /\ ordered' \in Seq(Msgs) /\ Increasing(ordered')
  /\ \A i \in DOMAIN ordered' : ordered'[i] # m /\ InQueue(ordered'[i])
  /\ ordered # <<>> /\ ordered[1] # m => ordered' # <<>> /\ ordered'[1] = ordered[1]
  /\ stage' \in [Msgs -> Sending]
  /\ \A n \in Msgs : stage'[n] = IF Launched(m, n) THEN Block(n) ELSE IF n = m THEN st ELSE stage[n]
  /\ inFlight' = inFlight \cup {n \in Msgs : Launched(m, n) /\ Block(n) = "sending"}

LEMMA Blocks == \A m : Block(m) \in Running
BY DEF Block, Running

LEMMA FirstOfQueue ==
  ASSUME NEW q \in Seq(Msgs), q # <<>>
  PROVE  1 \in DOMAIN q /\ Head(q) = q[1] /\ q[1] \in Msgs
BY LenProperties

LEMMA HandedOver ==
  ASSUME Typed, QueueInOrder, NEW m \in Msgs, NEW st \in Sending, NEW without,
         HandleNextOperationAfter(m, st, without)
  PROVE  HandsOver(m, st)
<1>. DEFINE rest == RemoveFrom(ordered, {i \in DOMAIN ordered : ordered[i] = m})
            next == IF IsRunning(m) THEN SkipCancelled(rest, without) ELSE rest
            launched == IF IsRunning(m) /\ next # <<>> THEN {Head(next)} ELSE {}
<1>1. /\ ordered' = next
      /\ stage' = [n \in Msgs |->
           IF n \in launched THEN Block(n) ELSE IF n = m THEN st ELSE stage[n]]
      /\ inFlight' = inFlight \cup {n \in launched : Block(n) = "sending"}
  BY DEF HandleNextOperationAfter
<1>2. ordered \in Seq(Msgs) /\ Increasing(ordered)
  BY DEF Typed, QueueInOrder
<1>3. IsRunning(m) <=> ordered # <<>> /\ ordered[1] = m
  BY <1>2, FirstOfQueue DEF IsRunning
<1>4. /\ Part(rest, ordered) /\ \A i \in DOMAIN rest : rest[i] # m
      /\ ordered # <<>> /\ ordered[1] # m => rest # <<>> /\ rest[1] = ordered[1]
  <2>. PICK q : q = ordered
    OBVIOUS
  <2>. PICK r : r = RemoveFrom(q, Places(q, m))
    OBVIOUS
  <2>1. q \in Seq(Msgs) /\ Increasing(q)
    BY <1>2
  <2>2. /\ Part(r, q) /\ \A i \in DOMAIN r : r[i] # m
        /\ q # <<>> /\ q[1] # m => r # <<>> /\ r[1] = q[1]
    BY <2>1, RemovedFrom
  <2>3. rest = r
    BY DEF Places
  <2>. HIDE DEF rest
  <2>. QED
    BY <2>2, <2>3
<1>. HIDE DEF rest
<1>5. Part(next, rest)
  <2>1. rest \in Seq(Msgs) /\ Increasing(rest)
    BY <1>4 DEF Part
  <2>2. Part(SkipCancelled(rest, without), rest)
    BY <2>1, Skipped
  <2>3. Part(rest, rest)
    BY <2>1 DEF Part
  <2>. QED
    BY <2>2, <2>3
<1>6. ordered # <<>> /\ ordered[1] # m => next # <<>> /\ next[1] = ordered[1]
  BY <1>3, <1>4
<1>. HIDE DEF next
<1>7. /\ next \in Seq(Msgs) /\ Increasing(next)
      /\ \A i \in DOMAIN next : next[i] # m /\ InQueue(next[i])
  BY <1>4, <1>5 DEF Part, InQueue
<1>8. \A n : n \in launched <=> Launched(m, n)
  BY <1>1, <1>3, <1>7, FirstOfQueue DEF Launched
<1>9. \A n \in launched : n \in Msgs
  BY <1>1, <1>7, <1>8, FirstOfQueue DEF Launched
<1>. HIDE DEF launched
<1>10. inFlight' = inFlight \cup {n \in Msgs : Launched(m, n) /\ Block(n) = "sending"}
  BY <1>1, <1>8, <1>9
<1>11. \A n \in Msgs : stage'[n] = IF Launched(m, n) THEN Block(n) ELSE IF n = m THEN st ELSE stage[n]
  BY <1>1, <1>8
<1>12. stage' \in [Msgs -> Sending]
  <2>1. \A n \in Msgs : (IF n \in launched THEN Block(n) ELSE IF n = m THEN st ELSE stage[n]) \in Sending
    BY Blocks DEF Typed, Running, Sending
  <2>. QED
    BY <1>1, <2>1
<1>. QED
  BY <1>1, <1>6, <1>7, <1>10, <1>11, <1>12 DEF HandsOver

\* The operation has come to its end, or is taken out of the queue.
LEMMA HandOverKeeps ==
  ASSUME Inv, NEW m \in Msgs, NEW st, HandsOver(m, st), UNCHANGED <<starting, timeline>>,
         \/ stage[m] \in Running /\ st = "over" /\ aborted' = aborted
         \/ InQueue(m) /\ st = stage[m] /\ aborted' = aborted \cup {m}
  PROVE  QueueInOrder' /\ CallsInOrder' /\ FirstRuns' /\ Requested' /\ EarlierEnded'
<1>1. /\ Typed /\ QueueInOrder /\ FirstRuns /\ ordered \in Seq(Msgs) /\ ordered' \in Seq(Msgs)
      /\ Increasing(ordered')
  BY DEF Inv, Typed, HandsOver
<1>2. ASSUME NEW n \in Msgs, InQueue(n)'
      PROVE  n # m /\ InQueue(n) /\ ordered # <<>>
  <2>1. n # m /\ InQueue(n)
    BY <1>2 DEF HandsOver, InQueue
  <2>. QED
    BY <2>1 DEF InQueue
<1>3. ASSUME NEW n \in Msgs, Launched(m, n)
      PROVE  InQueue(n)' /\ InQueue(n) /\ n # m /\ stage[n] = "queued" /\ n \notin aborted /\ n \notin starting
  <2>1. InQueue(n)'
    BY <1>1, <1>3, FirstOfQueue DEF Launched, InQueue
  <2>2. InQueue(n) /\ n # m
    BY <1>2, <2>1
  <2>3. PICK j \in DOMAIN ordered : ordered[j] = n
    BY <2>2 DEF InQueue
  <2>4. j # 1 /\ ordered[1] = m
    BY <1>3, <2>2, <2>3 DEF Launched
  <2>5. stage[n] = "queued" /\ n \notin aborted
    BY <1>1, <2>3, <2>4 DEF QueueInOrder
  <2>6. n \notin starting
    BY <1>1, <2>2, <2>4, <2>5 DEF FirstRuns
  <2>. QED
    BY <2>1, <2>2, <2>5, <2>6
<1>4. ASSUME NEW n \in Msgs
      PROVE  \/ Launched(m, n) /\ stage'[n] \in Running
             \/ ~Launched(m, n) /\ n # m /\ stage'[n] = stage[n]
             \/ n = m /\ stage'[n] = st /\ ~Launched(m, n)
  BY Blocks DEF HandsOver
<1>5. stage[m] # "unsent" /\ st # "unsent" /\ (st = "over" \/ m \in aborted')
  BY <1>1 DEF QueueInOrder, InQueue, Running
<1>6. aborted \subseteq aborted' /\ \A n \in Msgs : n # m => (n \in aborted' <=> n \in aborted)
  OBVIOUS
<1>7. ASSUME NEW n \in Msgs, InQueue(n)'
      PROVE  /\ n \notin aborted' /\ stage'[n] \notin {"unsent", "over"}
             /\ Launched(m, n) \/ stage'[n] = stage[n]
             /\ stage[n] = "queued" \/ (ordered' # <<>> /\ n = ordered'[1])
  <2>1. n # m /\ InQueue(n) /\ ordered # <<>>
    BY <1>2, <1>7
  <2>2. n \notin aborted /\ stage[n] \notin {"unsent", "over"}
    BY <1>1, <2>1 DEF InQueue, QueueInOrder
  <2>3. stage[n] = "queued" \/ n = ordered[1]
    BY <1>1, <2>1 DEF InQueue, QueueInOrder
  <2>4. n = ordered[1] => ordered' # <<>> /\ ordered'[1] = n
    BY <2>1 DEF HandsOver
  <2>. QED
    BY <1>4, <1>6, <2>1, <2>2, <2>3, <2>4 DEF Running
<1>8. \A i \in DOMAIN ordered' : ordered'[i] \in Msgs
  BY <1>1, LenProperties
<1>9. QueueInOrder'
  <2>1. ASSUME NEW i \in DOMAIN ordered', NEW n, n = ordered'[i]
        PROVE  /\ n \notin aborted' /\ stage'[n] \notin {"unsent", "over"}
               /\ i # 1 => stage'[n] = "queued"
    <3>1. n \in Msgs /\ InQueue(n)'
      BY <1>8, <2>1 DEF InQueue
    <3>2. ASSUME i # 1
          PROVE  n # ordered'[1]
      <4>1. 1 \in DOMAIN ordered' /\ 1 < i
        BY <1>1, <2>1, <3>2, LenProperties
      <4>2. ordered'[1] < n /\ ordered'[1] \in Nat
        BY <1>1, <1>8, <2>1, <4>1, MsgsAreNaturals DEF Increasing
      <4>. QED
        BY <4>2
    <3>3. n # ordered'[1] => ~Launched(m, n)
      BY DEF Launched
    <3>. QED
      BY <1>7, <3>1, <3>2, <3>3
  <2>. QED
    BY <1>1, <2>1 DEF QueueInOrder
<1>10. CallsInOrder'
  <2>1. \A n \in Msgs : stage'[n] = "unsent" <=> stage[n] = "unsent"
    BY <1>3, <1>4, <1>5 DEF Running
  <2>. QED
    BY <1>5, <1>6, <2>1 DEF Inv, CallsInOrder
<1>11. m \in starting => st = stage[m]
  BY <1>1 DEF FirstRuns, Running
<1>12. \A n \in starting' : stage'[n] = "queued"
  <2>1. ASSUME NEW n \in starting
        PROVE  stage'[n] = "queued"
    BY <1>1, <1>3, <1>4, <1>11 DEF FirstRuns, Typed
  <2>. QED
    BY <2>1
<1>13. ASSUME NEW n \in Msgs \ aborted', stage'[n] \in Running \/ n \in starting
       PROVE  ordered' # <<>> /\ ordered'[1] = n
  <2>1. CASE Launched(m, n)
    BY <2>1 DEF Launched
  <2>2. CASE n = m /\ ~Launched(m, n)
    <3>1. st = "over" /\ stage[m] \in Running
      BY <1>5, <1>13, <2>2
    <3>. QED
      BY <1>1, <1>4, <1>13, <2>2, <3>1 DEF FirstRuns, Running
  <2>3. CASE n # m /\ ~Launched(m, n)
    <3>1. ordered # <<>> /\ ordered[1] = n
      BY <1>1, <1>4, <1>6, <1>13, <2>3 DEF FirstRuns
    <3>. QED
      BY <2>3, <3>1 DEF HandsOver
  <2>. QED
    BY <2>1, <2>2, <2>3
<1>14. FirstRuns'
  BY <1>12, <1>13 DEF FirstRuns
<1>15. ASSUME NEW n \in Msgs
       PROVE  /\ InRoom(n)' <=> InRoom(n)
              /\ n \in inFlight' <=> n \in inFlight \/ (Launched(m, n) /\ Block(n) = "sending")
  BY DEF InRoom, HandsOver
<1>16. Requested'
  <2>1. ASSUME NEW n \in Msgs, n \in inFlight' \/ InRoom(n)'
        PROVE  stage'[n] \in {"sending", "over"}
    <3>1. CASE n \in inFlight \/ InRoom(n)
      <4>1. stage[n] \in {"sending", "over"}
        BY <3>1 DEF Inv, Requested
      <4>. QED
        BY <1>3, <1>4, <4>1 DEF Inv, Requested
    <3>2. CASE Launched(m, n) /\ Block(n) = "sending"
      BY <3>2 DEF HandsOver
    <3>. QED
      BY <1>15, <2>1, <3>1, <3>2
  <2>2. ASSUME NEW n \in inFlight'
        PROVE  ~InRoom(n)'
    <3>1. n \in Msgs
      BY DEF HandsOver, Inv, Typed
    <3>. QED
      BY <1>3, <1>15, <3>1 DEF Inv, Requested
  <2>. QED
    BY <2>1, <2>2 DEF Inv, Requested
<1>17. ASSUME NEW k \in Msgs \ aborted', NEW n \in Msgs \ aborted', k < n, n \in inFlight' \/ InRoom(n)'
       PROVE  Ended(k)'
  <2>1. CASE n \in inFlight \/ InRoom(n)
    <3>1. Ended(k)
      BY <1>6, <1>17, <2>1 DEF Inv, EarlierEnded
    <3>2. ~InQueue(k)' /\ ~Launched(m, k)
      BY <1>2, <1>3, <3>1 DEF Ended
    <3>3. stage'[k] \notin Running
      BY <1>4, <1>5, <1>17, <3>1, <3>2 DEF Ended, Running
    <3>. QED
      BY <3>2, <3>3 DEF Ended
  <2>2. CASE Launched(m, n)
    <3>1. \A i \in DOMAIN ordered' : ordered'[i] # k
      <4>1. ASSUME NEW i \in DOMAIN ordered', ordered'[i] = k
            PROVE  FALSE
        <5>1. n = ordered'[1] /\ 1 \in DOMAIN ordered' /\ (i = 1 \/ 1 < i)
          BY <1>1, <2>2, FirstOfQueue, LenProperties DEF Launched
        <5>2. n = k \/ n < k
          BY <1>1, <4>1, <5>1 DEF Increasing
        <5>. QED
          BY <1>17, <5>2, MsgsAreNaturals
      <4>. QED
        BY <4>1
    <3>2. ~InQueue(k)'
      BY <3>1 DEF InQueue
    <3>3. stage'[k] \notin Running
      BY <1>13, <1>17, <2>2, MsgsAreNaturals DEF Launched
    <3>. QED
      BY <3>2, <3>3 DEF Ended
  <2>. QED
    BY <1>15, <1>17, <2>1, <2>2
<1>18. EarlierEnded'
  BY <1>17 DEF EarlierEnded
<1>. QED
  BY <1>9, <1>10, <1>14, <1>16, <1>18

(***************************************************************************)
(* What the application is told, and the order of the room.                *)
(***************************************************************************)
LEMMA NoMoreTold ==
  ASSUME Inv, timeline' = timeline, aborted \subseteq aborted',
         \A m \in Msgs : told'[m] = "sent" => told[m] = "sent"
  PROVE  ToldInRoom' /\ RoomInOrder'
<1>1. ToldInRoom'
  BY DEF Inv, ToldInRoom, InRoom
<1>2. \A i \in DOMAIN timeline : timeline[i] \in Msgs
  BY LenProperties DEF Inv, Typed
<1>. QED
  BY <1>1, <1>2 DEF Inv, RoomInOrder

LEMMA OneMoreTold ==
  ASSUME Inv, NEW m \in Msgs, timeline' = timeline, aborted' = aborted,
         stage[m] \in Running, InRoom(m), told' = [told EXCEPT ![m] = "sent"]
  PROVE  ToldInRoom' /\ RoomInOrder'
<1>1. \A n \in Msgs : told'[n] = IF n = m THEN "sent" ELSE told[n]
  BY DEF Inv, Typed
<1>2. ToldInRoom'
  BY <1>1 DEF Inv, ToldInRoom, InRoom
<1>3. \A i \in DOMAIN timeline : timeline[i] \in Msgs /\ InRoom(timeline[i])
  BY LenProperties DEF Inv, Typed, InRoom
<1>4. ASSUME NEW i \in DOMAIN timeline, NEW j \in DOMAIN timeline,
             timeline[i] < timeline[j], told'[timeline[i]] = "sent",
             timeline[i] \notin aborted, timeline[j] \notin aborted
      PROVE  i < j
  <2>1. CASE timeline[i] = m
    <3>1. Ended(m)
      BY <1>3, <1>4, <2>1 DEF Inv, EarlierEnded
    <3>. QED
      BY <3>1 DEF Ended
  <2>2. CASE timeline[i] # m
    BY <1>1, <1>3, <1>4, <2>2 DEF Inv, RoomInOrder
  <2>. QED
    BY <2>1, <2>2
<1>5. RoomInOrder'
  BY <1>4 DEF RoomInOrder
<1>. QED
  BY <1>2, <1>5

(***************************************************************************)
(* The other steps.                                                        *)
(***************************************************************************)
\* What runs comes before all that waits, and everything before it has ended.
LEMMA RunsFirst ==
  ASSUME Inv, NEW m \in Msgs \ aborted, stage[m] \in Running \/ m \in starting
  PROVE  /\ InQueue(m) /\ ordered # <<>> /\ ordered[1] = m
         /\ \A i \in DOMAIN ordered : ordered[i] = m => i = 1
         /\ \A k \in Msgs \ aborted : k < m => Ended(k)
<1>1. ordered \in Seq(Msgs) /\ Increasing(ordered) /\ ordered # <<>> /\ ordered[1] = m
  BY DEF Inv, Typed, QueueInOrder, FirstRuns
<1>2. 1 \in DOMAIN ordered /\ \A i \in DOMAIN ordered : i \in Nat /\ (i = 1 \/ 1 < i) /\ ordered[i] \in Nat
  <2>1. Len(ordered) \in Nat /\ DOMAIN ordered = 1 .. Len(ordered) /\ 1 \in DOMAIN ordered
    BY <1>1, FirstOfQueue, LenProperties
  <2>2. \A i \in DOMAIN ordered : ordered[i] \in Nat
    BY <1>1, LenProperties, MsgsAreNaturals
  <2>. QED
    BY <2>1, <2>2
<1>3. \A i \in DOMAIN ordered : i = 1 \/ m < ordered[i]
  BY <1>1, <1>2 DEF Increasing
<1>4. ASSUME NEW k \in Msgs \ aborted, k < m
      PROVE  Ended(k)
  <2>1. ~InQueue(k)
    BY <1>1, <1>2, <1>3, <1>4, MsgsAreNaturals DEF InQueue
  <2>2. stage[k] \notin Running
    BY <1>1, <1>4, MsgsAreNaturals DEF Inv, FirstRuns
  <2>. QED
    BY <2>1, <2>2 DEF Ended
<1>5. m \in Nat
  BY MsgsAreNaturals
<1>. QED
  BY <1>1, <1>2, <1>3, <1>4, <1>5 DEF InQueue

\* A block starts or goes on; at the end its request leaves.
GoesOn(m, s) ==
  /\ s \in Running /\ (stage[m] \in {"uploading", "encrypting"} \/ m \in starting)
  /\ stage' = [stage EXCEPT ![m] = s]
  /\ starting' = starting \ {m}
  /\ inFlight' = IF s = "sending" THEN inFlight \cup {m} ELSE inFlight
  /\ UNCHANGED <<ordered, aborted, told, timeline>>

LEMMA GoesOnKeeps ==
  ASSUME Inv, NEW m \in Msgs, NEW s, GoesOn(m, s)
  PROVE  Inv'
<1>1. /\ stage[m] \in {"queued", "uploading", "encrypting"} /\ s \in Running
      /\ stage[m] \in Running \/ m \in starting
      /\ \A n \in Msgs : stage'[n] = IF n = m THEN s ELSE stage[n]
      /\ UNCHANGED <<ordered, aborted, told, timeline>>
  BY DEF GoesOn, Inv, FirstRuns, Running, Typed
<1>2. Typed'
  BY DEF GoesOn, Inv, Typed, Running, Sending
<1>3. \A i \in DOMAIN ordered : ordered[i] \in Msgs
  BY LenProperties DEF Inv, Typed
<1>4. QueueInOrder'
  <2>1. ASSUME NEW i \in DOMAIN ordered
        PROVE  /\ stage'[ordered[i]] \notin {"unsent", "over"}
               /\ i # 1 => stage'[ordered[i]] = "queued"
    <3>1. CASE ordered[i] = m
      <4>1. m \notin aborted
        BY <3>1 DEF Inv, QueueInOrder
      <4>2. i = 1
        BY <1>1, <3>1, <4>1, RunsFirst
      <4>. QED
        BY <1>1, <3>1, <4>2 DEF Running
    <3>2. CASE ordered[i] # m
      BY <1>1, <1>3, <3>2 DEF Inv, QueueInOrder
    <3>. QED
      BY <3>1, <3>2
  <2>. QED
    BY <1>1, <2>1 DEF Inv, QueueInOrder
<1>5. CallsInOrder'
  <2>1. \A n \in Msgs : stage'[n] = "unsent" <=> stage[n] = "unsent"
    BY <1>1 DEF Running
  <2>. QED
    BY <1>1, <2>1 DEF Inv, CallsInOrder
<1>6. FirstRuns'
  BY <1>1 DEF GoesOn, Inv, FirstRuns, Typed
<1>7. \A n : InRoom(n)' <=> InRoom(n)
  BY <1>1 DEF InRoom
<1>8. \A n : n \in inFlight' <=> n \in inFlight \/ (n = m /\ s = "sending")
  BY DEF GoesOn
<1>9. Requested'
  <2>1. ~InRoom(m) /\ m \notin inFlight
    BY <1>1 DEF Inv, Requested
  <2>. QED
    BY <1>1, <1>7, <1>8, <2>1 DEF Inv, Requested
<1>10. ASSUME NEW k \in Msgs \ aborted, NEW n \in Msgs \ aborted, k < n, n \in inFlight' \/ InRoom(n)'
       PROVE  Ended(k)'
  <2>1. Ended(k)
    <3>1. CASE n \in inFlight \/ InRoom(n)
      BY <1>10, <3>1 DEF Inv, EarlierEnded
    <3>2. CASE n = m
      BY <1>1, <1>10, <3>2, RunsFirst
    <3>. QED
      BY <1>7, <1>8, <1>10, <3>1, <3>2
  <2>2. k # m
    BY <1>1, <1>10, <2>1, RunsFirst DEF Ended
  <2>. QED
    BY <1>1, <2>1, <2>2 DEF Ended, InQueue
<1>11. EarlierEnded'
  BY <1>1, <1>10 DEF EarlierEnded
<1>12. ToldInRoom' /\ RoomInOrder'
  BY <1>1, NoMoreTold
<1>. QED
  BY <1>2, <1>4, <1>5, <1>6, <1>9, <1>11, <1>12 DEF Inv

LEMMA RunFirstKeeps ==
  ASSUME Inv, NEW m \in Msgs, RunFirst(m)
  PROVE  Inv'
<1>1. GoesOn(m, Block(m))
  BY Blocks DEF RunFirst, GoesOn
<1>. QED
  BY <1>1, GoesOnKeeps

LEMMA EncryptedKeeps ==
  ASSUME Inv, NEW m \in Msgs, Encrypted(m)
  PROVE  Inv'
<1>1. m \notin starting
  BY DEF Encrypted, Inv, FirstRuns
<1>2. GoesOn(m, "sending")
  BY <1>1 DEF Encrypted, GoesOn, Running, queueing
<1>. QED
  BY <1>2, GoesOnKeeps

LEMMA SendKeeps ==
  ASSUME Inv, NEW m \in Msgs, Send(m)
  PROVE  Inv'
<1>1. /\ stage[m] = "unsent" /\ stage' = [stage EXCEPT ![m] = "queued"]
      /\ \A n \in Msgs : n < m => stage[n] # "unsent"
      /\ ordered' = Append(ordered, m)
      /\ starting' = IF ordered = <<>> THEN starting \cup {m} ELSE starting
      /\ UNCHANGED <<aborted, told, inFlight, timeline>>
  BY DEF Send, server
<1>2. /\ ordered \in Seq(Msgs) /\ Len(ordered) \in Nat /\ DOMAIN ordered = 1 .. Len(ordered)
      /\ \A i \in DOMAIN ordered : ordered[i] \in Msgs /\ ordered[i] \in Nat
  BY LenProperties, MsgsAreNaturals DEF Inv, Typed
<1>3. /\ ordered' \in Seq(Msgs) /\ ordered' # <<>> /\ DOMAIN ordered' = 1 .. Len(ordered) + 1
      /\ \A i \in DOMAIN ordered : ordered'[i] = ordered[i]
      /\ ordered'[Len(ordered) + 1] = m
  BY <1>1, <1>2, AppendProperties, LenProperties
<1>4. \A n \in Msgs : stage'[n] = IF n = m THEN "queued" ELSE stage[n]
  BY <1>1 DEF Inv, Typed
<1>5. Typed'
  BY <1>1, <1>3 DEF Inv, Typed, Sending
<1>6. \A i \in DOMAIN ordered : ordered[i] # m /\ ordered[i] < m
  <2>1. ASSUME NEW i \in DOMAIN ordered
        PROVE  ordered[i] # m /\ ordered[i] < m
    <3>1. ordered[i] \in Msgs /\ stage[ordered[i]] # "unsent" /\ ordered[i] \in Nat /\ m \in Nat
      BY <1>2, MsgsAreNaturals DEF Inv, QueueInOrder
    <3>2. ~(m < ordered[i]) /\ ordered[i] # m
      BY <1>1, <3>1 DEF Inv, CallsInOrder
    <3>. QED
      BY <3>1, <3>2
  <2>. QED
    BY <2>1
<1>7. \A i \in DOMAIN ordered' : i \in DOMAIN ordered \/ i = Len(ordered) + 1
  BY <1>2, <1>3
<1>8. QueueInOrder'
  <2>1. Increasing(ordered')
    <3>1. ASSUME NEW i \in DOMAIN ordered', NEW j \in DOMAIN ordered', i < j
          PROVE  ordered'[i] < ordered'[j]
      <4>1. i \in DOMAIN ordered
        BY <1>2, <1>3, <3>1
      <4>2. CASE j \in DOMAIN ordered
        BY <1>3, <3>1, <4>1, <4>2 DEF Inv, QueueInOrder, Increasing
      <4>3. CASE j = Len(ordered) + 1
        BY <1>3, <1>6, <4>1, <4>3
      <4>. QED
        BY <1>7, <4>2, <4>3
    <3>. QED
      BY <3>1 DEF Increasing
  <2>2. ASSUME NEW i \in DOMAIN ordered'
        PROVE  /\ ordered'[i] \notin aborted /\ stage'[ordered'[i]] \notin {"unsent", "over"}
               /\ i # 1 => stage'[ordered'[i]] = "queued"
    <3>1. CASE i \in DOMAIN ordered
      BY <1>2, <1>3, <1>4, <1>6, <3>1 DEF Inv, QueueInOrder
    <3>2. CASE i = Len(ordered) + 1
      BY <1>1, <1>3, <1>4, <3>2 DEF Inv, CallsInOrder
    <3>. QED
      BY <1>7, <3>1, <3>2
  <2>. QED
    BY <1>1, <2>1, <2>2 DEF QueueInOrder
<1>9. CallsInOrder'
  BY <1>1, <1>4, MsgsAreNaturals DEF Inv, CallsInOrder
<1>10. \A n : InQueue(n)' => InQueue(n) \/ n = m
  BY <1>3, <1>7 DEF InQueue
<1>11. FirstRuns'
  <2>1. ordered = <<>> => ordered'[1] = m
    BY <1>3
  <2>2. ordered # <<>> => ordered'[1] = ordered[1]
    BY <1>2, <1>3, FirstOfQueue
  <2>3. m \notin starting
    BY <1>1 DEF Inv, FirstRuns
  <2>4. \A n \in starting' : n \in Msgs
    BY <1>5 DEF Typed
  <2>. QED
    BY <1>1, <1>3, <1>4, <2>1, <2>2, <2>3, <2>4 DEF Inv, FirstRuns, Running
<1>12. \A n : InRoom(n)' <=> InRoom(n)
  BY <1>1 DEF InRoom
<1>13. Requested'
  BY <1>1, <1>4, <1>12 DEF Inv, Requested
<1>14. ASSUME NEW k \in Msgs \ aborted, NEW n \in Msgs \ aborted, k < n, n \in inFlight \/ InRoom(n)
       PROVE  Ended(k)'
  <2>1. Ended(k) /\ stage[n] # "unsent"
    BY <1>14 DEF Inv, EarlierEnded, Requested
  <2>2. k # m
    BY <1>1, <1>14, <2>1 DEF Inv, CallsInOrder
  <2>. QED
    BY <1>4, <1>10, <2>1, <2>2 DEF Ended
<1>15. EarlierEnded'
  BY <1>1, <1>12, <1>14 DEF EarlierEnded
<1>16. ToldInRoom' /\ RoomInOrder'
  BY <1>1, NoMoreTold
<1>. QED
  BY <1>5, <1>8, <1>9, <1>11, <1>13, <1>15, <1>16 DEF Inv

LEMMA CancelSendingKeeps ==
  ASSUME Inv, NEW m \in Msgs, CancelSendingOperation(m)
  PROVE  Inv'
<1>. PICK w, st : w = cancelled' /\ st = stage[m]
  OBVIOUS
<1>1. /\ InQueue(m) /\ aborted' = aborted \cup {m} /\ HandleNextOperationAfter(m, st, w)
      /\ UNCHANGED <<starting, told, timeline>>
  BY DEF CancelSendingOperation, InQueue, ToSet
<1>2. Typed /\ QueueInOrder /\ st \in Sending
  BY DEF Inv, Typed
<1>3. HandsOver(m, st)
  BY <1>1, <1>2, HandedOver
<1>4. QueueInOrder' /\ CallsInOrder' /\ FirstRuns' /\ Requested' /\ EarlierEnded'
  BY <1>1, <1>3, HandOverKeeps
<1>5. ToldInRoom' /\ RoomInOrder'
  BY <1>1, NoMoreTold
<1>6. Typed'
  BY <1>1, <1>2, <1>3 DEF Typed, HandsOver
<1>. QED
  BY <1>4, <1>5, <1>6 DEF Inv

\* A block ends, with a success, a failure or a cancellation.
BlockEnds(m) ==
  /\ stage[m] \in Running
  /\ HandleNextOperationAfter(m, "over", cancelled)
  /\ UNCHANGED <<starting, aborted, timeline>>

LEMMA BlockEndsKeeps ==
  ASSUME Inv, NEW m \in Msgs, BlockEnds(m),
         \/ told' = told \/ told' = [told EXCEPT ![m] = "failed"]
         \/ told' = [told EXCEPT ![m] = "sent"] /\ InRoom(m)
  PROVE  Inv'
<1>. PICK w : w = cancelled
  OBVIOUS
<1>1. /\ stage[m] \in Running /\ HandleNextOperationAfter(m, "over", w)
      /\ UNCHANGED <<starting, aborted, timeline>>
  BY DEF BlockEnds
<1>2. Typed /\ QueueInOrder /\ "over" \in Sending
  BY DEF Inv, Sending
<1>3. HandsOver(m, "over")
  BY <1>1, <1>2, HandedOver
<1>4. QueueInOrder' /\ CallsInOrder' /\ FirstRuns' /\ Requested' /\ EarlierEnded'
  BY <1>1, <1>3, HandOverKeeps
<1>5. told' \in [Msgs -> {"nothing", "sent", "failed"}]
  BY <1>2 DEF Typed
<1>6. ToldInRoom' /\ RoomInOrder'
  <2>1. CASE told' = told \/ told' = [told EXCEPT ![m] = "failed"]
    <3>1. \A n \in Msgs : told'[n] = "sent" => told[n] = "sent"
      BY <1>2, <2>1 DEF Typed
    <3>. QED
      BY <1>1, <3>1, NoMoreTold
  <2>2. CASE told' = [told EXCEPT ![m] = "sent"] /\ InRoom(m)
    BY <1>1, <2>2, OneMoreTold
  <2>. QED
    BY <2>1, <2>2
<1>7. Typed'
  BY <1>1, <1>2, <1>3, <1>5 DEF Typed, HandsOver
<1>. QED
  BY <1>4, <1>6, <1>7 DEF Inv

LEMMA UploadDoneKeeps ==
  ASSUME Inv, NEW m \in Msgs, UploadDone(m)
  PROVE  Inv'
<1>1. stage[m] = "uploading" /\ UNCHANGED <<starting, aborted, told, timeline>> /\ m \notin starting
  BY DEF UploadDone, Inv, FirstRuns
<1>2. CASE m \in cancelled
  <2>1. BlockEnds(m)
    BY <1>1, <1>2 DEF UploadDone, BlockEnds, Running
  <2>. QED
    BY <1>1, <2>1, BlockEndsKeeps
<1>3. CASE m \notin cancelled
  <2>1. GoesOn(m, "encrypting")
    BY <1>1, <1>3 DEF UploadDone, MutateRoomOperation, GoesOn, Running
  <2>. QED
    BY <2>1, GoesOnKeeps
<1>. QED
  BY <1>2, <1>3

LEMMA FailKeeps ==
  ASSUME Inv, NEW m \in Msgs, UploadFails(m) \/ EncryptionFails(m) \/ RequestFails(m)
  PROVE  Inv'
<1>1. BlockEnds(m) /\ told' = [told EXCEPT ![m] = "failed"]
  BY DEF UploadFails, EncryptionFails, RequestFails, Fail, BlockEnds, Running
<1>. QED
  BY <1>1, BlockEndsKeeps

LEMMA RequestSucceedsKeeps ==
  ASSUME Inv, NEW m \in Msgs, RequestSucceeds(m)
  PROVE  Inv'
<1>1. BlockEnds(m) /\ InRoom(m) /\ told' = [told EXCEPT ![m] = "sent"]
  BY DEF RequestSucceeds, BlockEnds, Running, InRoom, ToSet
<1>. QED
  BY <1>1, BlockEndsKeeps

LEMMA HomeserverAcceptsKeeps ==
  ASSUME Inv, NEW m \in Msgs, HomeserverAccepts(m)
  PROVE  Inv'
<1>1. /\ m \in inFlight /\ inFlight' = inFlight \ {m} /\ timeline' = Append(timeline, m)
      /\ UNCHANGED <<stage, ordered, starting, aborted, told>>
  BY DEF HomeserverAccepts, queueing
<1>2. /\ timeline \in Seq(Msgs) /\ Len(timeline) \in Nat /\ DOMAIN timeline = 1 .. Len(timeline)
      /\ \A i \in DOMAIN timeline : timeline[i] \in Msgs /\ timeline[i] # m
  <2>1. timeline \in Seq(Msgs) /\ ~InRoom(m)
    BY <1>1 DEF Inv, Typed, Requested
  <2>. QED
    BY <2>1, LenProperties DEF InRoom
<1>3. /\ timeline' \in Seq(Msgs) /\ DOMAIN timeline' = 1 .. Len(timeline) + 1
      /\ \A i \in DOMAIN timeline : timeline'[i] = timeline[i]
      /\ timeline'[Len(timeline) + 1] = m
  BY <1>1, <1>2, AppendProperties, LenProperties
<1>4. \A i \in DOMAIN timeline' : i \in DOMAIN timeline \/ i = Len(timeline) + 1
  BY <1>2, <1>3
<1>5. DOMAIN timeline \subseteq DOMAIN timeline' /\ Len(timeline) + 1 \in DOMAIN timeline'
  BY <1>2, <1>3
<1>6. \A n : InRoom(n)' <=> InRoom(n) \/ n = m
  BY <1>3, <1>4, <1>5 DEF InRoom
<1>7. Typed' /\ QueueInOrder' /\ CallsInOrder' /\ FirstRuns'
  BY <1>1, <1>3 DEF Inv, Typed, QueueInOrder, CallsInOrder, FirstRuns
<1>8. Requested'
  <2>1. \A n \in Msgs : n \in inFlight' \/ InRoom(n)' => stage'[n] \in {"sending", "over"}
    BY <1>1, <1>6 DEF Inv, Requested
  <2>2. \A n \in inFlight' : ~InRoom(n)'
    BY <1>1, <1>6 DEF Inv, Requested
  <2>3. \A i, j \in DOMAIN timeline' : timeline'[i] = timeline'[j] => i = j
    BY <1>2, <1>3, <1>4 DEF Inv, Requested
  <2>. QED
    BY <2>1, <2>2, <2>3 DEF Requested
<1>9. EarlierEnded'
  BY <1>1, <1>6 DEF Inv, EarlierEnded, Ended, InQueue
<1>10. ToldInRoom'
  BY <1>1, <1>6 DEF Inv, ToldInRoom
<1>11. RoomInOrder'
  <2>1. ASSUME NEW i \in DOMAIN timeline', NEW j \in DOMAIN timeline',
               timeline'[i] < timeline'[j], told[timeline'[i]] = "sent",
               timeline'[i] \notin aborted, timeline'[j] \notin aborted
        PROVE  i < j
    <3>1. i \in DOMAIN timeline
      <4>1. ~InRoom(m) /\ told[m] # "sent"
        BY <1>1 DEF Inv, Requested, ToldInRoom
      <4>. QED
        BY <1>3, <1>4, <2>1, <4>1
    <3>2. CASE j \in DOMAIN timeline
      BY <1>3, <2>1, <3>1, <3>2 DEF Inv, RoomInOrder
    <3>3. CASE j = Len(timeline) + 1
      BY <1>2, <3>1, <3>3
    <3>. QED
      BY <1>4, <3>2, <3>3
  <2>. QED
    BY <1>1, <2>1 DEF RoomInOrder
<1>. QED
  BY <1>7, <1>8, <1>9, <1>10, <1>11 DEF Inv

LEMMA RestartKeeps ==
  ASSUME Inv, Restart
  PROVE  Inv'
<1>1. /\ stage' = [m \in Msgs |-> IF stage[m] = "unsent" THEN "unsent" ELSE "over"]
      /\ ordered' = <<>> /\ starting' = {}
      /\ UNCHANGED <<aborted, told, inFlight, timeline>>
  BY DEF Restart, server
<1>2. DOMAIN ordered' = {} /\ ordered' \in Seq(Msgs)
  BY <1>1
<1>3. \A m \in Msgs : /\ stage'[m] \in {"unsent", "over"} /\ (stage'[m] = "unsent" <=> stage[m] = "unsent")
                      /\ stage'[m] \notin Running
  BY <1>1 DEF Running
<1>4. Typed'
  BY <1>1, <1>2 DEF Inv, Typed, Sending
<1>5. QueueInOrder' /\ FirstRuns'
  BY <1>1, <1>2, <1>3 DEF QueueInOrder, FirstRuns, Increasing
<1>6. CallsInOrder'
  BY <1>1, <1>3 DEF Inv, CallsInOrder
<1>7. \A n : (InRoom(n)' <=> InRoom(n)) /\ ~InQueue(n)'
  BY <1>1, <1>2 DEF InRoom, InQueue
<1>8. Requested'
  <2>1. \A m \in Msgs : m \in inFlight' \/ InRoom(m)' => stage'[m] \in {"sending", "over"}
    BY <1>1, <1>3, <1>7 DEF Inv, Requested
  <2>. QED
    BY <1>1, <1>7, <2>1 DEF Inv, Requested
<1>9. EarlierEnded'
  BY <1>3, <1>7 DEF EarlierEnded, Ended
<1>10. ToldInRoom' /\ RoomInOrder'
  BY <1>1, NoMoreTold
<1>. QED
  BY <1>4, <1>5, <1>6, <1>8, <1>9, <1>10 DEF Inv

LEMMA QuietKeeps ==
  ASSUME Inv, UNCHANGED <<stage, ordered, starting, aborted, told, inFlight, timeline>>
  PROVE  Inv'
BY DEF Inv, Typed, QueueInOrder, CallsInOrder, FirstRuns, Requested, ToldInRoom, EarlierEnded,
       RoomInOrder, Ended, InQueue, InRoom

(***************************************************************************)
(* The invariant is inductive.                                             *)
(***************************************************************************)
LEMMA InitIsInv == Init => Inv
<1>. SUFFICES ASSUME Init PROVE Inv
  OBVIOUS
<1>1. /\ \A m \in Msgs : stage[m] = "unsent" /\ told[m] = "nothing"
      /\ ordered = <<>> /\ timeline = <<>> /\ starting = {} /\ inFlight = {} /\ aborted = {}
      /\ DOMAIN ordered = {} /\ DOMAIN timeline = {}
  BY DEF Init
<1>2. Typed
  BY <1>1 DEF Init, Typed, Sending
<1>. QED
  BY <1>1, <1>2 DEF Inv, QueueInOrder, Increasing, CallsInOrder, FirstRuns, Requested, ToldInRoom,
     EarlierEnded, RoomInOrder, InRoom, Running

LEMMA InvKept == Inv /\ [Next]_vars => Inv'
<1>. SUFFICES ASSUME Inv, [Next]_vars PROVE Inv'
  OBVIOUS
<1>1. ASSUME NEW m \in Msgs, Send(m) PROVE Inv'
  BY <1>1, SendKeeps
<1>2. ASSUME NEW m \in Msgs, CancelOperation(m) PROVE Inv'
  BY <1>2, QuietKeeps DEF CancelOperation, server
<1>3. ASSUME NEW m \in Msgs, CancelSendingOperation(m) PROVE Inv'
  BY <1>3, CancelSendingKeeps
<1>4. ASSUME NEW m \in Msgs, RunFirst(m) PROVE Inv'
  BY <1>4, RunFirstKeeps
<1>5. ASSUME NEW m \in Msgs, UploadDone(m) PROVE Inv'
  BY <1>5, UploadDoneKeeps
<1>6. ASSUME NEW m \in Msgs, UploadFails(m) \/ EncryptionFails(m) \/ RequestFails(m) PROVE Inv'
  BY <1>6, FailKeeps
<1>7. ASSUME NEW m \in Msgs, Encrypted(m) PROVE Inv'
  BY <1>7, EncryptedKeeps
<1>8. ASSUME NEW m \in Msgs, RequestSucceeds(m) PROVE Inv'
  BY <1>8, RequestSucceedsKeeps
<1>9. ASSUME NEW m \in Msgs, HomeserverAccepts(m) PROVE Inv'
  BY <1>9, HomeserverAcceptsKeeps
<1>10. CASE LiveEvent
  BY <1>10, QuietKeeps DEF LiveEvent, queueing, server
<1>11. CASE Restart
  BY <1>11, RestartKeeps
<1>12. CASE UNCHANGED vars
  BY <1>12, QuietKeeps DEF vars, queueing, server
<1>. QED
  BY <1>1, <1>2, <1>3, <1>4, <1>5, <1>6, <1>7, <1>8, <1>9, <1>10, <1>11, <1>12 DEF Next

LEMMA InvHolds == Spec => []Inv
BY InitIsInv, InvKept, PTL DEF Spec

\* What orderedOperations is for, "sent in the same order as the user typed them": two
\* messages the application was told are sent, and that cancelSendingOperation has not
\* taken out of the queue, are in the room in the order of their calls, however many
\* uploads, encryptions, failures, cancellations and restarts there are.
THEOREM MessagesSentInOrder == Spec => []SentInOrder
<1>1. ASSUME Inv
      PROVE  SentInOrder
  <2>1. ASSUME NEW m \in Msgs, told[m] = "sent"
        PROVE  Position(m) \in DOMAIN timeline /\ timeline[Position(m)] = m
    <3>1. \E i \in DOMAIN timeline : timeline[i] = m
      BY <1>1, <2>1 DEF Inv, ToldInRoom, InRoom
    <3>. QED
      BY <3>1 DEF Position
  <2>. QED
    BY <1>1, <2>1 DEF Inv, RoomInOrder, SentInOrder
<1>. QED
  BY <1>1, InvHolds, PTL

(***************************************************************************)
(* The local echoes.                                                       *)
(***************************************************************************)
HasCome(m) == \E i \in 1..synced : timeline[i] = m

EchoesTyped ==
  /\ kind \in [Msgs -> Kinds] /\ cancelled \subseteq Msgs /\ aborted \subseteq cancelled
  /\ echoes \in Seq([msg : Msgs, state : SentState])
  /\ synced \in 0..Len(timeline) /\ early \subseteq Msgs /\ events \in 0..MaxEvents

OneEach(q) == \A i, j \in DOMAIN q : q[i].msg = q[j].msg => i = j

\* The application is told at the end, and not before the event has come unless it is early.
ToldAtTheEnd ==
  \A m \in Msgs : /\ told[m] # "nothing" => stage[m] = "over"
                  /\ HasCome(m) /\ told[m] # "sent" => m \in early

\* The echo of a message that is sent can be recognised by its event id.
EchoesOfSent ==
  \A e \in ToSet(echoes) :
    /\ HasEcho(e.msg) /\ stage[e.msg] # "unsent"
    /\ told[e.msg] = "sent" => e.state = "sent" /\ (HasCome(e.msg) => e.msg \in early)

\* Nothing but a cancellation or its own event removes the echo of a message.
Alone(m) ==
  /\ HasEcho(m) /\ (kind[m] = "media" => m \notin cancelled)
  /\ \A n \in Msgs \ {m} : ~SameContent(m, n)
EchoesOfFailed ==
  \A m \in Msgs : told[m] = "failed" /\ Alone(m) /\ ~HasCome(m) =>
                    \E e \in ToSet(echoes) : e.msg = m /\ e.state = "failed"

EchoInv == EchoesTyped /\ OneEach(echoes) /\ ToldAtTheEnd /\ EchoesOfSent /\ EchoesOfFailed

(***************************************************************************)
(* What is kept of a queue.                                                *)
(***************************************************************************)
Echo == [msg : Msgs, state : SentState]

LEMMA PlacesLeft ==
  ASSUME NEW q \in Seq(Echo), NEW P, P \subseteq DOMAIN q, NEW r, r = RemoveFrom(q, P)
  PROVE  /\ r \in Seq(Echo)
         /\ P # {} => Min(P) \in P
         /\ \E at \in [DOMAIN r -> DOMAIN q] :
              /\ \A k \in DOMAIN r : r[k] = q[at[k]] /\ (P # {} => at[k] # Min(P))
              /\ \A k, l \in DOMAIN r : at[k] = at[l] => k = l
              /\ \A j \in DOMAIN q : P = {} \/ j # Min(P) => \E k \in DOMAIN r : at[k] = j
<1>1. Len(q) \in Nat /\ DOMAIN q = 1 .. Len(q)
  BY LenProperties
<1>2. CASE P = {}
  <2>1. r = q
    BY <1>2 DEF RemoveFrom
  <2>2. /\ [k \in DOMAIN q |-> k] \in [DOMAIN r -> DOMAIN q]
        /\ \A k \in DOMAIN q : [l \in DOMAIN q |-> l][k] = k
    BY <2>1
  <2>. QED
    BY <1>2, <2>1, <2>2
<1>3. CASE P # {}
  <2>. PICK p : p = Min(P)
    OBVIOUS
  <2>1. p \in P /\ p \in 1 .. Len(q)
    <3>1. P \subseteq Nat
      BY <1>1
    <3>2. p \in P
      BY <1>3, <3>1, LeastIn
    <3>. QED
      BY <1>1, <3>2
  <2>2. r = RemoveAt(q, p)
    BY <1>3 DEF RemoveFrom
  <2>3. /\ r \in Seq(Echo) /\ Len(r) = Len(q) - 1 /\ DOMAIN r = 1 .. Len(q) - 1
        /\ \A i \in 1 .. Len(q) - 1 : r[i] = IF i < p THEN q[i] ELSE q[i + 1]
    <3>1. p \in DOMAIN q /\ q \in Seq(Echo)
      BY <1>1, <2>1
    <3>2. /\ r \in Seq(Echo) /\ Len(r) = Len(q) - 1
          /\ \A i \in 1 .. Len(q) - 1 : r[i] = IF i < p THEN q[i] ELSE q[i + 1]
      BY <2>2, <3>1, RemovedAt
    <3>. QED
      BY <3>2, LenProperties
  <2>. DEFINE at == [k \in DOMAIN r |-> IF k < p THEN k ELSE k + 1]
  <2>4. \A k \in DOMAIN r : at[k] = IF k < p THEN k ELSE k + 1
    OBVIOUS
  <2>5. at \in [DOMAIN r -> DOMAIN q]
    <3>1. \A k \in 1 .. Len(q) - 1 : (IF k < p THEN k ELSE k + 1) \in 1 .. Len(q)
      BY <1>1, <2>1
    <3>. QED
      BY <1>1, <2>3, <3>1
  <2>. HIDE DEF at
  <2>6. \A k \in DOMAIN r : r[k] = q[at[k]] /\ at[k] # p
    BY <1>1, <2>1, <2>3, <2>4
  <2>7. \A k, l \in DOMAIN r : at[k] = at[l] => k = l
    BY <1>1, <2>1, <2>3, <2>4
  <2>8. ASSUME NEW j \in DOMAIN q, j # p
        PROVE  \E k \in DOMAIN r : at[k] = j
    <3>1. CASE j < p
      <4>1. j \in DOMAIN r
        BY <1>1, <2>1, <2>3, <3>1
      <4>. QED
        BY <2>4, <3>1, <4>1
    <3>2. CASE ~(j < p)
      <4>1. j - 1 \in DOMAIN r /\ ~(j - 1 < p) /\ (j - 1) + 1 = j
        BY <1>1, <2>1, <2>3, <2>8, <3>2
      <4>. QED
        BY <2>4, <4>1
    <3>. QED
      BY <3>1, <3>2
  <2>. QED
    BY <1>3, <2>1, <2>3, <2>5, <2>6, <2>7, <2>8
<1>. QED
  BY <1>2, <1>3

LEMMA SameFiniteSets ==
  ASSUME NEW S
  PROVE  (IsFiniteSet(S) <=> FS!IsFiniteSet(S)) /\ Cardinality(S) = FS!Cardinality(S)
<1>1. IsFiniteSet(S) <=> FS!IsFiniteSet(S)
  BY DEF IsFiniteSet, FS!IsFiniteSet
<1>2. Cardinality(S) = FS!Cardinality(S)
  BY Zenon DEF Cardinality, FS!Cardinality
<1>. QED
  BY <1>1, <1>2

\* The numbers up to n can be put in order, any of them: there is no least n for which some cannot.
Ordered(p, S) ==
  p \in [1..Cardinality(S) -> S] /\ \A i, j \in DOMAIN p : i < j => p[i] < p[j]

LEMMA AscendingExists ==
  ASSUME NEW n \in Nat, NEW S, S \subseteq 1..n
  PROVE  IsFiniteSet(S) /\ Cardinality(S) \in Nat /\ \E p : Ordered(p, S)
<1>. DEFINE Sorted(m) == \A T \in SUBSET (1..m) : \E p : Ordered(p, T)
            Bad == {m \in Nat : ~Sorted(m)}
<1>1. ASSUME NEW m \in Nat, NEW T \in SUBSET (1..m)
      PROVE  IsFiniteSet(T) /\ Cardinality(T) \in Nat
  <2>1. IsFiniteSet(1..m)
    BY FS!FS_Interval, SameFiniteSets
  <2>2. IsFiniteSet(T)
    BY <2>1, FS!FS_Subset, SameFiniteSets
  <2>. QED
    BY <2>2, FS!FS_CardinalityType, SameFiniteSets
<1>2. Bad = {}
  <2>1. SUFFICES ASSUME Bad # {} PROVE FALSE
    OBVIOUS
  <2>. DEFINE m == Min(Bad)
  <2>2. m \in Nat /\ ~Sorted(m) /\ \A k \in Nat : ~Sorted(k) => m <= k
    <3>1. Bad \subseteq Nat
      OBVIOUS
    <3>2. m \in Bad /\ \A k \in Bad : m <= k
      <4>. HIDE DEF Bad
      <4>. QED
        BY <2>1, <3>1, LeastIn
    <3>. HIDE DEF m, Sorted
    <3>. QED
      BY <3>2
  <2>. HIDE DEF m, Bad, Sorted
  <2>3. PICK T \in SUBSET (1..m) : \A p : ~Ordered(p, T)
    BY <2>2 DEF Sorted
  <2>4. IsFiniteSet(T) /\ Cardinality(T) \in Nat
    BY <1>1, <2>2
  <2>5. CASE T = {}
    <3>1. Cardinality(T) = 0
      BY <2>5, FS!FS_EmptySet, SameFiniteSets
    <3>2. <<>> \in [1..0 -> T] /\ DOMAIN <<>> = {}
      BY EmptySeq
    <3>3. Ordered(<<>>, T)
      BY <3>1, <3>2 DEF Ordered
    <3>. QED
      BY <2>3, <3>3
  <2>6. CASE m \notin T /\ T # {}
    <3>1. m # 0 /\ T \in SUBSET (1..(m - 1))
      <4>1. \A x \in T : x \in 1..m /\ x # m
        BY <2>6
      <4>2. \A x \in T : x \in 1..(m - 1)
        BY <2>2, <4>1
      <4>3. m # 0
        <5>1. PICK x \in T : x \in 1..m
          BY <2>6, <4>1
        <5>. QED
          BY <2>2, <5>1
      <4>. QED
        BY <4>2, <4>3
    <3>2. m - 1 \in Nat /\ Sorted(m - 1)
      BY <2>2, <3>1
    <3>. QED
      BY <2>3, <3>1, <3>2 DEF Sorted
  <2>7. CASE m \in T
    <3>. DEFINE U == T \ {m}
                k == Cardinality(U)
    <3>1. m # 0 /\ U \in SUBSET (1..(m - 1))
      BY <2>2, <2>7
    <3>2. m - 1 \in Nat /\ Sorted(m - 1)
      BY <2>2, <3>1
    <3>3. PICK p : Ordered(p, U)
      BY <3>1, <3>2 DEF Sorted
    <3>4. k \in Nat /\ Cardinality(T) = k + 1
      <4>1. k \in Nat
        BY <1>1, <3>1, <3>2
      <4>2. FS!IsFiniteSet(T) /\ Cardinality(T) = FS!Cardinality(T) /\ k = FS!Cardinality(U)
        BY <2>4, SameFiniteSets
      <4>3. FS!Cardinality(U) = FS!Cardinality(T) - 1
        BY <2>7, <4>2, FS!FS_RemoveElement
      <4>. QED
        BY <2>4, <4>1, <4>2, <4>3
    <3>5. /\ DOMAIN p = 1..k /\ \A i \in 1..k : p[i] \in U /\ p[i] < m /\ p[i] \in Nat
          /\ \A i, j \in 1..k : i < j => p[i] < p[j]
      <4>1. /\ p \in [1..k -> U] /\ \A i, j \in DOMAIN p : i < j => p[i] < p[j]
        BY <3>3 DEF Ordered
      <4>2. \A x \in U : x < m /\ x \in Nat
        BY <2>2, <3>1
      <4>. QED
        BY <4>1, <4>2
    <3>. HIDE DEF k
    <3>. DEFINE u == [i \in 1..(k + 1) |-> IF i = k + 1 THEN m ELSE p[i]]
    <3>6. u \in [1..(k + 1) -> T]
      BY <2>7, <3>4, <3>5
    <3>7. \A i, j \in 1..(k + 1) : i < j => u[i] < u[j]
      BY <2>2, <3>4, <3>5
    <3>8. Ordered(u, T)
      BY <3>4, <3>6, <3>7 DEF Ordered
    <3>. QED
      BY <2>3, <3>8
  <2>. QED
    BY <2>5, <2>6, <2>7
<1>3. Sorted(n)
  BY <1>2
<1>. QED
  BY <1>1, <1>3

LEMMA AscendingFacts ==
  ASSUME NEW n \in Nat, NEW S, S \subseteq 1..n
  PROVE  /\ Cardinality(S) \in Nat /\ Ascending(S) \in [1..Cardinality(S) -> S]
         /\ \A i, j \in 1..Cardinality(S) : Ascending(S)[i] = Ascending(S)[j] => i = j
         /\ \A x \in S : \E i \in 1..Cardinality(S) : Ascending(S)[i] = x
<1>. DEFINE c == Cardinality(S)
            p == Ascending(S)
<1>1. IsFiniteSet(S) /\ c \in Nat /\ \E r : Ordered(r, S)
  BY AscendingExists
<1>2. Ordered(p, S)
  <2>1. \E r \in [1..Cardinality(S) -> S] : \A i, j \in DOMAIN r : i < j => r[i] < r[j]
    BY <1>1 DEF Ordered
  <2>. QED
    BY <2>1 DEF Ordered, Ascending
<1>3. /\ p \in [1..c -> S] /\ \A i \in 1..c : p[i] \in Nat
      /\ \A i, j \in 1..c : i < j => p[i] < p[j]
  <2>1. p \in [1..c -> S] /\ \A i, j \in DOMAIN p : i < j => p[i] < p[j]
    BY <1>2 DEF Ordered
  <2>2. \A x \in S : x \in Nat
    OBVIOUS
  <2>. HIDE DEF p, c
  <2>. QED
    BY <2>1, <2>2
<1>. HIDE DEF c, p
<1>4. \A i, j \in 1..c : p[i] = p[j] => i = j
  BY <1>1, <1>3
<1>5. ASSUME NEW x \in S, \A i \in 1..c : p[i] # x
      PROVE  FALSE
  <2>. DEFINE T == S \ {x}
              I == 1..c
  <2>1. IsFiniteSet(T) /\ Cardinality(T) = c - 1
    <3>1. FS!IsFiniteSet(S) /\ c = FS!Cardinality(S)
      BY <1>1, SameFiniteSets DEF c
    <3>2. FS!IsFiniteSet(T) /\ FS!Cardinality(T) = c - 1
      BY <3>1, FS!FS_RemoveElement
    <3>. HIDE DEF T
    <3>. QED
      BY <3>2, SameFiniteSets
  <2>2. IsFiniteSet(I) /\ Cardinality(I) = c
    <3>1. 1 \in Int /\ c \in Int /\ (IF 1 > c THEN 0 ELSE c - 1 + 1) = c
      BY <1>1
    <3>. QED
      <4>1. FS!IsFiniteSet(I) /\ FS!Cardinality(I) = c
        BY <3>1, FS!FS_Interval
      <4>. HIDE DEF I
      <4>. QED
        BY <4>1, SameFiniteSets
  <2>3. p \in [I -> T]
    BY <1>3, <1>5
  <2>4. Cardinality(T) < Cardinality(I)
    BY <1>1, <2>1, <2>2
  <2>. HIDE DEF T, I
  <2>5. \E i, j \in I : i # j /\ p[i] = p[j]
    <3>1. FS!IsFiniteSet(T) /\ FS!IsFiniteSet(I) /\ FS!Cardinality(T) < FS!Cardinality(I)
      BY <2>1, <2>2, <2>4, SameFiniteSets
    <3>. QED
      BY <2>3, <3>1, FS!FS_PigeonHole
  <2>. QED
    BY <1>4, <2>5 DEF I
<1>. QED
  BY <1>1, <1>3, <1>4, <1>5 DEF c, p

(***************************************************************************)
(* The echoes are kept in the store.                                       *)
(***************************************************************************)
LEMMA InSet == \A q, e : e \in ToSet(q) <=> \E i \in DOMAIN q : q[i] = e
BY DEF ToSet

LEMMA EchoTaken ==
  ASSUME NEW q \in Seq(Echo), OneEach(q), NEW P, P \subseteq DOMAIN q, NEW r, r = RemoveFrom(q, P)
  PROVE  /\ r \in Seq(Echo) /\ OneEach(r)
         /\ P = {} => r = q
         /\ P # {} => /\ Min(P) \in P
                      /\ \A e : e \in ToSet(r) <=> e \in ToSet(q) /\ e # q[Min(P)]
<1>1. PICK at \in [DOMAIN r -> DOMAIN q] :
        /\ \A k \in DOMAIN r : r[k] = q[at[k]] /\ (P # {} => at[k] # Min(P))
        /\ \A k, l \in DOMAIN r : at[k] = at[l] => k = l
        /\ \A j \in DOMAIN q : P = {} \/ j # Min(P) => \E k \in DOMAIN r : at[k] = j
  BY PlacesLeft
<1>2. r \in Seq(Echo) /\ (P # {} => Min(P) \in P)
  BY PlacesLeft
<1>3. OneEach(r)
  BY <1>1 DEF OneEach
<1>4. P = {} => r = q
  BY DEF RemoveFrom
<1>5. ASSUME P # {}, NEW e
      PROVE  e \in ToSet(r) <=> e \in ToSet(q) /\ e # q[Min(P)]
  <2>. PICK p : p = Min(P)
    OBVIOUS
  <2>1. p \in DOMAIN q
    BY <1>2, <1>5
  <2>2. ASSUME e \in ToSet(r)
        PROVE  e \in ToSet(q) /\ e # q[p]
    <3>1. PICK k \in DOMAIN r : r[k] = e
      BY <2>2, InSet
    <3>2. at[k] \in DOMAIN q /\ q[at[k]] = e /\ at[k] # p
      BY <1>1, <1>5, <3>1
    <3>. QED
      BY <2>1, <3>2, InSet DEF OneEach
  <2>3. ASSUME e \in ToSet(q), e # q[p]
        PROVE  e \in ToSet(r)
    <3>1. PICK j \in DOMAIN q : q[j] = e
      BY <2>3, InSet
    <3>2. PICK k \in DOMAIN r : at[k] = j
      BY <1>1, <2>3, <3>1
    <3>. QED
      BY <1>1, <3>1, <3>2, InSet
  <2>. QED
    BY <2>2, <2>3
<1>. QED
  BY <1>2, <1>3, <1>4, <1>5

LEMMA EchoPut ==
  ASSUME NEW q \in Seq(Echo), OneEach(q), NEW m \in Msgs, NEW st \in SentState,
         \A e \in ToSet(q) : e.msg # m,
         NEW r, r = Append(q, [msg |-> m, state |-> st])
  PROVE  /\ r \in Seq(Echo) /\ OneEach(r)
         /\ \A e : e \in ToSet(r) <=> e \in ToSet(q) \/ e = [msg |-> m, state |-> st]
<1>. DEFINE new == [msg |-> m, state |-> st]
<1>1. new \in Echo /\ new.msg = m
  BY DEF Echo
<1>. HIDE DEF new
<1>2. /\ Len(q) \in Nat /\ DOMAIN q = 1 .. Len(q)
      /\ r \in Seq(Echo) /\ DOMAIN r = 1 .. Len(q) + 1
      /\ \A i \in 1 .. Len(q) : r[i] = q[i]
      /\ r[Len(q) + 1] = new
  <2>1. r = Append(q, new)
    BY DEF new
  <2>2. /\ r \in Seq(Echo) /\ Len(r) = Len(q) + 1
        /\ \A i \in 1 .. Len(q) : r[i] = q[i]
        /\ r[Len(q) + 1] = new
    BY <1>1, <2>1, AppendProperties
  <2>. QED
    BY <2>2, LenProperties
<1>3. \A i \in DOMAIN r : i \in DOMAIN q \/ i = Len(q) + 1
  BY <1>2
<1>4. DOMAIN q \subseteq DOMAIN r /\ Len(q) + 1 \in DOMAIN r
  BY <1>2
<1>5. \A i \in DOMAIN q : q[i].msg # m
  BY InSet
<1>6. OneEach(r)
  BY <1>1, <1>2, <1>3, <1>5 DEF OneEach
<1>7. ASSUME NEW e
      PROVE  e \in ToSet(r) <=> e \in ToSet(q) \/ e = new
  <2>1. ASSUME e \in ToSet(r)
        PROVE  e \in ToSet(q) \/ e = new
    <3>1. PICK i \in DOMAIN r : r[i] = e
      BY <2>1, InSet
    <3>. QED
      BY <1>2, <1>3, <3>1, InSet
  <2>2. ASSUME e \in ToSet(q) \/ e = new
        PROVE  e \in ToSet(r)
    <3>1. CASE e = new
      BY <1>2, <1>4, <3>1, InSet
    <3>2. CASE e \in ToSet(q)
      <4>1. PICK i \in DOMAIN q : q[i] = e
        BY <3>2, InSet
      <4>2. i \in DOMAIN r /\ r[i] = e
        BY <1>2, <1>4, <4>1
      <4>. QED
        BY <4>2, InSet
    <3>. QED
      BY <2>2, <3>1, <3>2
  <2>. QED
    BY <2>1, <2>2
<1>. QED
  BY <1>2, <1>6, <1>7 DEF new

\* The echo of m, if there was one, is now one of these.
Replaced(m, new) ==
  /\ echoes' \in Seq(Echo) /\ OneEach(echoes')
  /\ \A e : e \in ToSet(echoes') <=> (e \in ToSet(echoes) /\ e.msg # m) \/ e \in new

LEMMA EchoesFacts ==
  ASSUME EchoInv
  PROVE  /\ echoes \in Seq(Echo) /\ OneEach(echoes)
         /\ \A i \in DOMAIN echoes : echoes[i] \in ToSet(echoes) /\ echoes[i] \in Echo /\ echoes[i].msg \in Msgs
         /\ \A e \in ToSet(echoes) : e \in Echo /\ e.msg \in Msgs
<1>1. echoes \in Seq(Echo) /\ OneEach(echoes)
  BY DEF EchoInv, EchoesTyped, Echo
<1>2. \A i \in DOMAIN echoes : echoes[i] \in ToSet(echoes) /\ echoes[i] \in Echo
  BY <1>1, LenProperties, InSet
<1>3. \A e \in Echo : e.msg \in Msgs
  BY DEF Echo
<1>. QED
  BY <1>1, <1>2, <1>3, InSet

LEMMA WithoutEcho ==
  ASSUME EchoInv, NEW m, NEW r, r = RemoveOutgoingMessage(m)
  PROVE  /\ r \in Seq(Echo) /\ OneEach(r)
         /\ \A e : e \in ToSet(r) <=> e \in ToSet(echoes) /\ e.msg # m
<1>. DEFINE P == EchoOf(m)
<1>1. P \subseteq DOMAIN echoes /\ \A i \in DOMAIN echoes : i \in P <=> echoes[i].msg = m
  BY DEF EchoOf
<1>2. r = RemoveFrom(echoes, P)
  BY DEF RemoveOutgoingMessage
<1>. HIDE DEF P
<1>3. /\ r \in Seq(Echo) /\ OneEach(r)
      /\ P = {} => r = echoes
      /\ P # {} => /\ Min(P) \in P
                   /\ \A e : e \in ToSet(r) <=> e \in ToSet(echoes) /\ e # echoes[Min(P)]
  BY <1>1, <1>2, EchoTaken, EchoesFacts
<1>4. ASSUME NEW e
      PROVE  e \in ToSet(r) <=> e \in ToSet(echoes) /\ e.msg # m
  <2>1. CASE P = {}
    BY <1>1, <1>3, <2>1, InSet
  <2>2. CASE P # {}
    <3>. PICK p : p = Min(P)
      OBVIOUS
    <3>1. p \in DOMAIN echoes /\ echoes[p].msg = m
      BY <1>1, <1>3, <2>2
    <3>2. e \in ToSet(r) <=> e \in ToSet(echoes) /\ e # echoes[p]
      BY <1>3, <2>2
    <3>3. e \in ToSet(echoes) /\ e.msg = m => e = echoes[p]
      BY <3>1, InSet, EchoesFacts DEF OneEach
    <3>. QED
      BY <3>1, <3>2, <3>3
  <2>. QED
    BY <2>1, <2>2
<1>. QED
  BY <1>3, <1>4

LEMMA EchoRemoved ==
  ASSUME EchoInv, NEW m, echoes' = RemoveOutgoingMessage(m)
  PROVE  Replaced(m, {})
BY WithoutEcho DEF Replaced

LEMMA EchoUpdated ==
  ASSUME EchoInv, NEW m \in Msgs, NEW st \in SentState,
         echoes' = UpdateOutgoingMessage(m, st)
  PROVE  Replaced(m, IF HasEcho(m) THEN {[msg |-> m, state |-> st]} ELSE {})
<1>1. CASE HasEcho(m)
  <2>. PICK r : r = RemoveOutgoingMessage(m)
    OBVIOUS
  <2>1. /\ r \in Seq(Echo) /\ OneEach(r)
        /\ \A e : e \in ToSet(r) <=> e \in ToSet(echoes) /\ e.msg # m
    BY WithoutEcho
  <2>2. echoes' = Append(r, [msg |-> m, state |-> st])
    BY <1>1 DEF UpdateOutgoingMessage
  <2>3. /\ echoes' \in Seq(Echo) /\ OneEach(echoes')
        /\ \A e : e \in ToSet(echoes') <=> e \in ToSet(r) \/ e = [msg |-> m, state |-> st]
    BY <2>1, <2>2, EchoPut
  <2>. QED
    BY <1>1, <2>1, <2>3 DEF Replaced
<1>2. CASE ~HasEcho(m)
  <2>1. echoes' = echoes
    BY <1>2 DEF UpdateOutgoingMessage
  <2>2. \A e \in ToSet(echoes) : e.msg # m
    BY <1>2 DEF EchoInv, EchoesOfSent
  <2>3. \A e : e \in ToSet(echoes') <=> (e \in ToSet(echoes) /\ e.msg # m) \/ e \in {}
    BY <2>1, <2>2
  <2>. QED
    BY <1>2, <2>1, <2>3, EchoesFacts DEF Replaced
<1>. QED
  BY <1>1, <1>2

(***************************************************************************)
(* Each step keeps what is said of the echoes.                             *)
(***************************************************************************)
\* A message is never unsent again, and what is over stays so.
GoOn == \A n \in Msgs : /\ stage'[n] = "unsent" => stage[n] = "unsent"
                        /\ stage[n] = "over" => stage'[n] = "over"

LEMMA HandOverGoesOn ==
  ASSUME Inv, NEW m \in Msgs, NEW st, HandsOver(m, st), st = stage[m] \/ st = "over"
  PROVE  GoOn /\ stage'[m] = st
<1>1. ASSUME NEW n \in Msgs, Launched(m, n)
      PROVE  stage[n] = "queued" /\ n # m
  <2>1. ordered' \in Seq(Msgs) /\ ordered' # <<>> /\ n = ordered'[1] /\ ordered[1] = m
    BY <1>1 DEF HandsOver, Launched
  <2>2. 1 \in DOMAIN ordered'
    BY <2>1, FirstOfQueue
  <2>3. n # m /\ InQueue(n)
    BY <2>1, <2>2 DEF HandsOver
  <2>4. PICK j \in DOMAIN ordered : ordered[j] = n
    BY <2>3 DEF InQueue
  <2>. QED
    BY <2>1, <2>3, <2>4 DEF Inv, QueueInOrder
<1>2. \A n \in Msgs : stage'[n] = IF Launched(m, n) THEN Block(n) ELSE IF n = m THEN st ELSE stage[n]
  BY DEF HandsOver
<1>3. \A n : Block(n) # "unsent"
  BY Blocks DEF Running
<1>4. stage'[m] = st
  BY <1>1, <1>2
<1>5. ASSUME NEW n \in Msgs
      PROVE  /\ stage'[n] = "unsent" => stage[n] = "unsent"
             /\ stage[n] = "over" => stage'[n] = "over"
  <2>1. CASE Launched(m, n)
    BY <1>1, <1>2, <1>3, <2>1
  <2>2. CASE ~Launched(m, n)
    BY <1>2, <2>2
  <2>. QED
    BY <2>1, <2>2
<1>. QED
  BY <1>4, <1>5 DEF GoOn

LEMMA EndGoesOn ==
  ASSUME Inv, NEW m \in Msgs, BlockEnds(m)
  PROVE  GoOn /\ stage'[m] = "over" /\ stage[m] \in Running
<1>. PICK w : w = cancelled
  OBVIOUS
<1>1. stage[m] \in Running /\ HandleNextOperationAfter(m, "over", w)
  BY DEF BlockEnds
<1>2. Typed /\ QueueInOrder /\ "over" \in Sending
  BY DEF Inv, Sending
<1>3. HandsOver(m, "over")
  BY <1>1, <1>2, HandedOver
<1>. QED
  BY <1>1, <1>3, HandOverGoesOn

\* Steps that leave the echoes alone: more may be cancelled, and more be in the room.
Apart ==
  /\ UNCHANGED <<kind, echoes, told, synced, early>>
  /\ cancelled \subseteq cancelled' /\ cancelled' \subseteq Msgs /\ aborted' \subseteq cancelled'
  /\ events' \in 0..MaxEvents
  /\ timeline' = timeline \/ \E n \in Msgs : timeline' = Append(timeline, n)

LEMMA CameFacts ==
  ASSUME Inv, EchoInv
  PROVE  /\ Len(timeline) \in Nat /\ synced \in Nat /\ synced <= Len(timeline)
         /\ \A i \in 1..Len(timeline) : timeline[i] \in Msgs
<1>1. timeline \in Seq(Msgs) /\ synced \in 0..Len(timeline)
  BY DEF Inv, Typed, EchoInv, EchoesTyped
<1>. QED
  BY <1>1, LenProperties

LEMMA ApartKeeps ==
  ASSUME Inv, EchoInv, GoOn, Apart
  PROVE  EchoInv'
<1>1. /\ synced \in 0..Len(timeline')
      /\ \A i \in 1..synced : timeline'[i] = timeline[i]
  <2>1. CASE timeline' = timeline
    BY <2>1, CameFacts
  <2>2. ASSUME NEW n \in Msgs, timeline' = Append(timeline, n)
        PROVE  /\ synced \in 0..Len(timeline')
               /\ \A i \in 1..synced : timeline'[i] = timeline[i]
    <3>1. timeline \in Seq(Msgs)
      BY DEF Inv, Typed
    <3>2. /\ Len(timeline') = Len(timeline) + 1
          /\ \A i \in 1..Len(timeline) : timeline'[i] = timeline[i]
      BY <2>2, <3>1, AppendProperties
    <3>. QED
      BY <3>2, CameFacts
  <2>. QED
    BY <2>1, <2>2 DEF Apart
<1>2. \A m : HasCome(m)' <=> HasCome(m)
  BY <1>1 DEF HasCome, Apart
<1>3. EchoesTyped'
  BY <1>1 DEF EchoInv, EchoesTyped, Apart
<1>4. ToldAtTheEnd'
  BY <1>2 DEF EchoInv, ToldAtTheEnd, Apart, GoOn
<1>5. EchoesOfSent'
  BY <1>2, EchoesFacts DEF EchoInv, EchoesOfSent, HasEcho, Apart, GoOn
<1>6. EchoesOfFailed'
  BY <1>2 DEF EchoInv, EchoesOfFailed, Alone, HasEcho, SameContent, Apart
<1>7. OneEach(echoes)'
  BY DEF EchoInv, OneEach, Apart
<1>. QED
  BY <1>3, <1>4, <1>5, <1>6, <1>7 DEF EchoInv

\* Steps of the operation of m: these are its echoes now.
Touches(m, new) ==
  /\ Replaced(m, new)
  /\ \A e \in new : e.msg = m /\ HasEcho(m)
  /\ stage[m] # "over" /\ stage'[m] # "unsent"
  /\ \/ told' = told
     \/ stage'[m] = "over" /\ told' \in {[told EXCEPT ![m] = "failed"], [told EXCEPT ![m] = "sent"]}
  /\ told'[m] = "sent" => \A e \in new : e.state = "sent"
  /\ told'[m] = "failed" =>
       \/ \E e \in new : e.state = "failed"
       \/ ~HasEcho(m) \/ (kind[m] = "media" /\ m \in cancelled)
  /\ UNCHANGED <<kind, cancelled, aborted, timeline, synced, early>>
  /\ events' \in 0..MaxEvents

LEMMA TouchKeeps ==
  ASSUME Inv, EchoInv, GoOn, NEW m \in Msgs, NEW new, Touches(m, new)
  PROVE  EchoInv'
<1>1. /\ echoes' \in Seq(Echo) /\ OneEach(echoes')
      /\ \A e : e \in ToSet(echoes') <=> (e \in ToSet(echoes) /\ e.msg # m) \/ e \in new
      /\ \A e \in new : e.msg = m /\ HasEcho(m)
  BY DEF Touches, Replaced
<1>2. UNCHANGED <<kind, cancelled, aborted, timeline, synced, early>> /\ events' \in 0..MaxEvents
  BY DEF Touches
<1>3. /\ \A n \in Msgs : n # m => told'[n] = told[n]
      /\ told[m] = "nothing"
      /\ told'[m] # "nothing" => stage'[m] = "over"
  <2>1. told \in [Msgs -> {"nothing", "sent", "failed"}] /\ told[m] = "nothing"
    BY DEF Touches, EchoInv, ToldAtTheEnd, Inv, Typed
  <2>. QED
    BY <2>1 DEF Touches
<1>4. \A n : HasCome(n)' <=> HasCome(n)
  BY <1>2 DEF HasCome
<1>5. EchoesTyped'
  BY <1>1, <1>2 DEF EchoInv, EchoesTyped, Echo
<1>6. ToldAtTheEnd'
  BY <1>2, <1>3, <1>4 DEF EchoInv, ToldAtTheEnd, GoOn
<1>7. EchoesOfSent'
  <2>1. ASSUME NEW e \in ToSet(echoes')
        PROVE  /\ HasEcho(e.msg)' /\ stage'[e.msg] # "unsent"
               /\ told'[e.msg] = "sent" => e.state = "sent" /\ (HasCome(e.msg)' => e.msg \in early')
    <3>1. CASE e \in ToSet(echoes) /\ e.msg # m
      <4>1. /\ e.msg \in Msgs /\ HasEcho(e.msg) /\ stage[e.msg] # "unsent"
            /\ told[e.msg] = "sent" => e.state = "sent" /\ (HasCome(e.msg) => e.msg \in early)
        BY <3>1, EchoesFacts DEF EchoInv, EchoesOfSent
      <4>. QED
        BY <1>2, <1>3, <1>4, <3>1, <4>1 DEF GoOn, HasEcho
    <3>2. CASE e \in new
      <4>1. e.msg = m /\ HasEcho(m) /\ stage'[m] # "unsent" /\ (told'[m] = "sent" => e.state = "sent")
        BY <1>1, <3>2 DEF Touches
      <4>2. HasCome(m) => m \in early
        BY <1>3 DEF EchoInv, ToldAtTheEnd
      <4>. QED
        BY <1>2, <1>4, <4>1, <4>2 DEF HasEcho
    <3>. QED
      BY <1>1, <3>1, <3>2
  <2>. QED
    BY <2>1 DEF EchoesOfSent
<1>8. EchoesOfFailed'
  <2>1. ASSUME NEW n \in Msgs, told'[n] = "failed", Alone(n)', ~HasCome(n)'
        PROVE  \E e \in ToSet(echoes') : e.msg = n /\ e.state = "failed"
    <3>1. Alone(n) /\ ~HasCome(n)
      BY <1>2, <1>4, <2>1 DEF Alone, HasEcho, SameContent
    <3>2. CASE n = m
      <4>1. \E e \in new : e.state = "failed"
        BY <2>1, <3>1, <3>2 DEF Touches, Alone
      <4>. QED
        BY <1>1, <3>2, <4>1
    <3>3. CASE n # m
      <4>1. \E e \in ToSet(echoes) : e.msg = n /\ e.state = "failed"
        BY <1>3, <2>1, <3>1, <3>3 DEF EchoInv, EchoesOfFailed
      <4>. QED
        BY <1>1, <3>3, <4>1
    <3>. QED
      BY <3>2, <3>3
  <2>. QED
    BY <2>1 DEF EchoesOfFailed
<1>9. OneEach(echoes)'
  BY <1>1 DEF OneEach
<1>. QED
  BY <1>5, <1>6, <1>7, <1>8, <1>9 DEF EchoInv

LEMMA NotOver ==
  ASSUME Inv, EchoInv
  PROVE  /\ stage \in [Msgs -> Sending] /\ told \in [Msgs -> {"nothing", "sent", "failed"}]
         /\ kind \in [Msgs -> Kinds] /\ cancelled \subseteq Msgs /\ aborted \subseteq cancelled
         /\ events \in 0..MaxEvents
BY DEF Inv, Typed, EchoInv, EchoesTyped

LEMMA DisturbFacts ==
  ASSUME EchoInv, Disturb
  PROVE  events' \in 0..MaxEvents
BY MaxEventsAssumption DEF Disturb, EchoInv, EchoesTyped

LEMMA SendEchoes ==
  ASSUME Inv, EchoInv, NEW m \in Msgs, Send(m)
  PROVE  EchoInv'
<1>. DEFINE e == [msg |-> m, state |-> "encrypting"]
            new == IF HasEcho(m) THEN {e} ELSE {}
<1>1. /\ stage[m] = "unsent" /\ stage' = [stage EXCEPT ![m] = "queued"]
      /\ echoes' = AddOutgoingMessage(m, "encrypting")
      /\ UNCHANGED <<kind, cancelled, aborted, told, timeline, synced, early, events>>
  BY DEF Send, server
<1>2. GoOn /\ stage'[m] = "queued"
  BY <1>1, NotOver DEF GoOn
<1>3. \A f \in ToSet(echoes) : f.msg # m
  BY <1>1 DEF EchoInv, EchoesOfSent
<1>4. Replaced(m, new)
  <2>1. CASE HasEcho(m)
    <3>1. echoes' = Append(echoes, e)
      BY <1>1, <2>1 DEF AddOutgoingMessage
    <3>2. "encrypting" \in SentState
      BY DEF SentState
    <3>3. /\ echoes' \in Seq(Echo) /\ OneEach(echoes')
          /\ \A f : f \in ToSet(echoes') <=> f \in ToSet(echoes) \/ f = e
      <4>. PICK q, r : q = echoes /\ r = echoes'
        OBVIOUS
      <4>1. q \in Seq(Echo) /\ OneEach(q) /\ r = Append(q, e) /\ \A f \in ToSet(q) : f.msg # m
        BY <1>3, <3>1, EchoesFacts
      <4>2. /\ r \in Seq(Echo) /\ OneEach(r)
            /\ \A f : f \in ToSet(r) <=> f \in ToSet(q) \/ f = e
        BY <3>2, <4>1, EchoPut
      <4>. QED
        BY <4>2
    <3>. QED
      BY <1>3, <2>1, <3>3 DEF Replaced
  <2>2. CASE ~HasEcho(m)
    <3>1. echoes' = echoes /\ new = {}
      BY <1>1, <2>2 DEF AddOutgoingMessage
    <3>. QED
      BY <1>3, <3>1, EchoesFacts DEF Replaced
  <2>. QED
    BY <2>1, <2>2
<1>5. \A f \in new : f.msg = m /\ HasEcho(m)
  OBVIOUS
<1>6. told[m] = "nothing"
  BY <1>1, NotOver DEF EchoInv, ToldAtTheEnd
<1>. HIDE DEF new
<1>7. Touches(m, new)
  BY <1>1, <1>2, <1>4, <1>5, <1>6, NotOver DEF Touches
<1>. QED
  BY <1>2, <1>7, TouchKeeps

\* The block goes on, and its echo is stored again.
LEMMA GoingOnEchoes ==
  ASSUME Inv, EchoInv, NEW m \in Msgs, NEW s \in {"encrypting", "sending"},
         stage[m] \in Running, stage' = [stage EXCEPT ![m] = s],
         echoes' = UpdateOutgoingMessage(m, s),
         UNCHANGED <<kind, cancelled, aborted, told, timeline, synced, early, events>>
  PROVE  EchoInv'
<1>. DEFINE new == IF HasEcho(m) THEN {[msg |-> m, state |-> s]} ELSE {}
<1>1. GoOn /\ stage'[m] = s
  BY NotOver DEF GoOn, Running
<1>2. Replaced(m, new)
  <2>1. s \in SentState
    BY DEF SentState
  <2>. QED
    BY <2>1, EchoUpdated
<1>3. \A f \in new : f.msg = m /\ HasEcho(m)
  OBVIOUS
<1>4. told[m] = "nothing" /\ stage[m] # "over"
  BY NotOver DEF EchoInv, ToldAtTheEnd, Running
<1>. HIDE DEF new
<1>5. Touches(m, new)
  BY <1>1, <1>2, <1>3, <1>4, NotOver DEF Touches
<1>. QED
  BY <1>1, <1>5, TouchKeeps

LEMMA FailEchoes ==
  ASSUME Inv, EchoInv, NEW m \in Msgs, stage[m] \in Running, Fail(m)
  PROVE  EchoInv'
<1>1. /\ BlockEnds(m) /\ told' = [told EXCEPT ![m] = "failed"]
      /\ UNCHANGED <<kind, cancelled, aborted, timeline, synced, early>>
  BY DEF Fail, BlockEnds
<1>2. GoOn /\ stage'[m] = "over" /\ events' \in 0..MaxEvents
  BY <1>1, EndGoesOn, DisturbFacts DEF Fail
<1>3. told'[m] = "failed" /\ stage[m] # "over"
  BY <1>1, NotOver DEF Running
<1>4. CASE echoes' = UpdateOutgoingMessage(m, "failed")
  <2>. DEFINE new == IF HasEcho(m) THEN {[msg |-> m, state |-> "failed"]} ELSE {}
  <2>1. Replaced(m, new)
    <3>1. "failed" \in SentState
      BY DEF SentState
    <3>. QED
      BY <1>4, <3>1, EchoUpdated
  <2>2. /\ \A f \in new : f.msg = m /\ HasEcho(m)
        /\ ~HasEcho(m) \/ \E f \in new : f.state = "failed"
    <3>1. [msg |-> m, state |-> "failed"].msg = m /\ [msg |-> m, state |-> "failed"].state = "failed"
      OBVIOUS
    <3>2. CASE HasEcho(m)
      BY <3>1, <3>2
    <3>3. CASE ~HasEcho(m)
      BY <3>3
    <3>. QED
      BY <3>2, <3>3
  <2>. HIDE DEF new
  <2>3. Touches(m, new)
    BY <1>1, <1>2, <1>3, <2>1, <2>2 DEF Touches
  <2>. QED
    BY <1>2, <2>3, TouchKeeps
<1>5. CASE kind[m] = "media" /\ m \in cancelled /\ echoes' = RemoveOutgoingMessage(m)
  <2>1. Replaced(m, {})
    BY <1>5, EchoRemoved
  <2>2. Touches(m, {})
    BY <1>1, <1>2, <1>3, <1>5, <2>1 DEF Touches
  <2>. QED
    BY <1>2, <2>2, TouchKeeps
<1>. QED
  BY <1>4, <1>5 DEF Fail

LEMMA SuccessEchoes ==
  ASSUME Inv, EchoInv, NEW m \in Msgs, RequestSucceeds(m)
  PROVE  EchoInv'
<1>. DEFINE new == IF HasEcho(m) THEN {[msg |-> m, state |-> "sent"]} ELSE {}
<1>1. /\ BlockEnds(m) /\ told' = [told EXCEPT ![m] = "sent"]
      /\ echoes' = UpdateOutgoingMessage(m, "sent")
      /\ UNCHANGED <<kind, cancelled, aborted, timeline, synced, early, events>>
  BY DEF RequestSucceeds, BlockEnds, Running
<1>2. GoOn /\ stage'[m] = "over" /\ stage[m] # "over"
  BY <1>1, EndGoesOn DEF Running
<1>3. Replaced(m, new)
  <2>1. "sent" \in SentState
    BY DEF SentState
  <2>. QED
    BY <1>1, <2>1, EchoUpdated
<1>4. /\ \A f \in new : f.msg = m /\ HasEcho(m) /\ f.state = "sent"
      /\ told'[m] = "sent" /\ events' \in 0..MaxEvents
  BY <1>1, NotOver
<1>. HIDE DEF new
<1>5. Touches(m, new)
  BY <1>1, <1>2, <1>3, <1>4 DEF Touches
<1>. QED
  BY <1>2, <1>5, TouchKeeps

LEMMA UploadDoneEchoes ==
  ASSUME Inv, EchoInv, NEW m \in Msgs, UploadDone(m)
  PROVE  EchoInv'
<1>1. /\ stage[m] = "uploading" /\ UNCHANGED <<kind, cancelled, aborted, told, timeline, synced, early, events>>
  BY DEF UploadDone
<1>2. CASE m \in cancelled
  <2>1. BlockEnds(m) /\ echoes' = echoes
    BY <1>1, <1>2 DEF UploadDone, BlockEnds, Running
  <2>2. GoOn
    BY <2>1, EndGoesOn
  <2>3. Apart
    BY <1>1, <2>1, NotOver DEF Apart
  <2>. QED
    BY <2>2, <2>3, ApartKeeps
<1>3. CASE m \notin cancelled
  BY <1>1, <1>3, GoingOnEchoes DEF UploadDone, Running
<1>. QED
  BY <1>2, <1>3

LEMMA EncryptedEchoes ==
  ASSUME Inv, EchoInv, NEW m \in Msgs, Encrypted(m)
  PROVE  EchoInv'
BY GoingOnEchoes DEF Encrypted, Running, queueing

LEMMA ApartEchoes ==
  ASSUME Inv, EchoInv, NEW m \in Msgs,
         CancelOperation(m) \/ CancelSendingOperation(m) \/ RunFirst(m) \/ HomeserverAccepts(m)
  PROVE  EchoInv'
<1>1. CASE CancelOperation(m)
  <2>1. GoOn /\ Apart
    BY <1>1, NotOver, DisturbFacts DEF CancelOperation, GoOn, Apart, server
  <2>. QED
    BY <2>1, ApartKeeps
<1>2. CASE CancelSendingOperation(m)
  <2>1. HandsOver(m, stage[m])
    <3>. PICK w : w = cancelled'
      OBVIOUS
    <3>1. HandleNextOperationAfter(m, stage[m], w) /\ Typed /\ QueueInOrder /\ stage[m] \in Sending
      BY <1>2, NotOver DEF CancelSendingOperation, Inv
    <3>. QED
      BY <3>1, HandedOver
  <2>2. GoOn
    BY <2>1, HandOverGoesOn
  <2>3. Apart
    BY <1>2, NotOver, DisturbFacts DEF CancelSendingOperation, Apart
  <2>. QED
    BY <2>2, <2>3, ApartKeeps
<1>3. CASE RunFirst(m)
  <2>1. m \in starting /\ stage' = [stage EXCEPT ![m] = Block(m)] /\ stage[m] = "queued" /\ Block(m) # "unsent"
    BY <1>3, Blocks DEF RunFirst, Inv, FirstRuns, Running
  <2>2. GoOn
    BY <2>1, NotOver DEF GoOn
  <2>3. Apart
    BY <1>3, NotOver DEF RunFirst, Apart
  <2>. QED
    BY <2>2, <2>3, ApartKeeps
<1>4. CASE HomeserverAccepts(m)
  <2>1. GoOn /\ Apart
    BY <1>4, NotOver DEF HomeserverAccepts, GoOn, Apart, queueing
  <2>. QED
    BY <2>1, ApartKeeps
<1>. QED
  BY <1>1, <1>2, <1>3, <1>4

LEMMA LiveEventEchoes ==
  ASSUME Inv, EchoInv, LiveEvent
  PROVE  EchoInv'
<1>. DEFINE m == timeline[synced + 1]
            P == PendingLocalEcho(m)
            byId == {i \in EchoOf(m) : echoes[i].state = "sent"}
            byContent == {i \in DOMAIN echoes : SameContent(m, echoes[i].msg)}
<1>1. /\ synced < Len(timeline) /\ synced' = synced + 1
      /\ echoes' = RemoveFrom(echoes, P)
      /\ early' = IF told[m] = "sent" THEN early ELSE early \cup {m}
      /\ UNCHANGED <<kind, stage, cancelled, aborted, told, timeline, events>>
  BY DEF LiveEvent, queueing, server
<1>2. m \in Msgs /\ synced' \in 0..Len(timeline)
  <2>1. synced + 1 \in 1..Len(timeline)
    BY <1>1, CameFacts
  <2>. QED
    BY <1>1, <2>1, CameFacts
<1>3. \A n : HasCome(n)' <=> HasCome(n) \/ n = m
  <2>1. \A i \in Nat : i \in 1..synced' <=> i \in 1..synced \/ i = synced + 1
    BY <1>1, CameFacts
  <2>2. synced + 1 \in 1..synced' /\ 1..synced \subseteq 1..synced'
    BY <1>1, CameFacts
  <2>. QED
    BY <1>1, <2>1, <2>2 DEF HasCome
<1>. HIDE DEF m
<1>4. DOMAIN echoes = 1..Len(echoes) /\ Len(echoes) \in Nat
  BY EchoesFacts, LenProperties
<1>5. /\ byId \subseteq DOMAIN echoes /\ byContent \subseteq DOMAIN echoes
      /\ byId # {} => Min(byId) \in byId
      /\ byContent # {} => Min(byContent) \in byContent
  <2>1. byId \subseteq DOMAIN echoes /\ byContent \subseteq DOMAIN echoes
    BY DEF EchoOf
  <2>2. byId \subseteq Nat /\ byContent \subseteq Nat
    BY <1>4, <2>1
  <2>. HIDE DEF byId, byContent
  <2>. QED
    BY <2>1, <2>2, LeastIn
<1>6. /\ HasEcho(m) /\ byId # {} => P = {Min(byId)}
      /\ P \subseteq DOMAIN echoes
      /\ \A i \in P : SameContent(m, echoes[i].msg)
      /\ \A i, j \in P : i = j
  <2>1. \A i \in byId : i \in DOMAIN echoes /\ echoes[i].msg = m /\ SameContent(m, echoes[i].msg)
    BY DEF EchoOf, SameContent
  <2>2. \A i \in byContent : i \in DOMAIN echoes /\ SameContent(m, echoes[i].msg)
    OBVIOUS
  <2>3. P = IF ~HasEcho(m) THEN {} ELSE IF byId # {} THEN {Min(byId)}
            ELSE IF byContent # {} THEN {Min(byContent)} ELSE {}
    BY DEF PendingLocalEcho
  <2>. HIDE DEF P, byId, byContent
  <2>. QED
    BY <1>5, <2>1, <2>2, <2>3
<1>. HIDE DEF P
<1>7. /\ echoes' \in Seq(Echo) /\ OneEach(echoes')
      /\ P = {} => echoes' = echoes
      /\ P # {} => /\ Min(P) \in P
                   /\ \A e : e \in ToSet(echoes') <=> e \in ToSet(echoes) /\ e # echoes[Min(P)]
  BY <1>1, <1>6, EchoTaken, EchoesFacts
<1>8. \A e \in ToSet(echoes') : e \in ToSet(echoes)
  BY <1>7
<1>9. EchoesTyped'
  BY <1>1, <1>2, <1>7 DEF EchoInv, EchoesTyped, Echo
<1>10. ToldAtTheEnd'
  BY <1>1, <1>2, <1>3 DEF EchoInv, ToldAtTheEnd
<1>11. ASSUME NEW e \in ToSet(echoes'), told[m] = "sent"
       PROVE  e.msg # m
  <2>1. SUFFICES ASSUME e.msg = m PROVE FALSE
    OBVIOUS
  <2>2. e \in ToSet(echoes) /\ e.state = "sent" /\ HasEcho(m)
    BY <1>8, <1>11, <2>1 DEF EchoInv, EchoesOfSent
  <2>3. PICK i \in DOMAIN echoes : echoes[i] = e
    BY <2>2, InSet
  <2>4. i \in byId
    BY <2>1, <2>2, <2>3 DEF EchoOf
  <2>5. P # {} /\ Min(P) \in byId
    <3>1. P = {Min(byId)} /\ Min(byId) \in byId
      BY <1>5, <1>6, <2>2, <2>4
    <3>. HIDE DEF byId
    <3>. QED
      BY <1>7, <3>1
  <2>6. Min(P) \in DOMAIN echoes /\ echoes[Min(P)].msg = m
    BY <2>5 DEF EchoOf
  <2>7. echoes[Min(P)] = e
    BY <2>1, <2>3, <2>6, EchoesFacts DEF OneEach
  <2>. QED
    BY <1>7, <2>5, <2>7
<1>12. EchoesOfSent'
  <2>1. ASSUME NEW e \in ToSet(echoes')
        PROVE  /\ HasEcho(e.msg)' /\ stage'[e.msg] # "unsent"
               /\ told'[e.msg] = "sent" => e.state = "sent" /\ (HasCome(e.msg)' => e.msg \in early')
    <3>1. /\ HasEcho(e.msg) /\ stage[e.msg] # "unsent"
          /\ told[e.msg] = "sent" => e.state = "sent" /\ (HasCome(e.msg) => e.msg \in early)
      BY <1>8 DEF EchoInv, EchoesOfSent
    <3>. QED
      BY <1>1, <1>3, <1>11, <3>1 DEF HasEcho
  <2>. QED
    BY <2>1 DEF EchoesOfSent
<1>13. EchoesOfFailed'
  <2>1. ASSUME NEW n \in Msgs, told'[n] = "failed", Alone(n)', ~HasCome(n)'
        PROVE  \E e \in ToSet(echoes') : e.msg = n /\ e.state = "failed"
    <3>1. told[n] = "failed" /\ Alone(n) /\ ~HasCome(n) /\ n # m
      BY <1>1, <1>3, <2>1 DEF Alone, HasEcho, SameContent
    <3>2. PICK e \in ToSet(echoes) : e.msg = n /\ e.state = "failed"
      BY <3>1 DEF EchoInv, EchoesOfFailed
    <3>3. ~SameContent(m, n)
      BY <1>2, <3>1 DEF Alone, SameContent
    <3>4. P # {} => e # echoes[Min(P)]
      BY <1>6, <1>7, <3>2, <3>3
    <3>. QED
      BY <1>7, <3>2, <3>4
  <2>. QED
    BY <2>1 DEF EchoesOfFailed
<1>14. OneEach(echoes)'
  BY <1>7 DEF OneEach
<1>. QED
  BY <1>9, <1>10, <1>12, <1>13, <1>14 DEF EchoInv

LEMMA RestartEchoes ==
  ASSUME Inv, EchoInv, Restart
  PROVE  EchoInv'
<1>. DEFINE K == {i \in DOMAIN echoes : echoes[i].state # "sent"}
            kept == Ascending(K)
            c == Cardinality(K)
<1>1. /\ echoes' = [k \in DOMAIN kept |-> [echoes[kept[k]] EXCEPT !.state = "failed"]]
      /\ \A m \in Msgs : stage'[m] = IF stage[m] = "unsent" THEN "unsent" ELSE "over"
      /\ UNCHANGED <<kind, cancelled, aborted, told, timeline, synced, early>>
      /\ events' \in 0..MaxEvents
  BY DisturbFacts DEF Restart, server
<1>2. /\ c \in Nat /\ kept \in [1..c -> K]
      /\ \A i, j \in 1..c : kept[i] = kept[j] => i = j
      /\ \A x \in K : \E i \in 1..c : kept[i] = x
  <2>1. Len(echoes) \in Nat /\ K \subseteq 1..Len(echoes)
    BY EchoesFacts, LenProperties
  <2>. HIDE DEF K
  <2>. QED
    BY <2>1, AscendingFacts
<1>. HIDE DEF kept, c
<1>3. /\ DOMAIN echoes' = 1..c
      /\ \A k \in 1..c : /\ kept[k] \in DOMAIN echoes /\ echoes[kept[k]].state # "sent"
                         /\ echoes'[k] \in Echo
                         /\ echoes'[k].msg = echoes[kept[k]].msg /\ echoes'[k].state = "failed"
  <2>1. DOMAIN kept = 1..c /\ DOMAIN echoes' = 1..c
    BY <1>1, <1>2
  <2>2. ASSUME NEW k \in 1..c
        PROVE  /\ kept[k] \in DOMAIN echoes /\ echoes[kept[k]].state # "sent"
               /\ echoes'[k] \in Echo
               /\ echoes'[k].msg = echoes[kept[k]].msg /\ echoes'[k].state = "failed"
    <3>1. kept[k] \in DOMAIN echoes /\ echoes[kept[k]].state # "sent"
      BY <1>2
    <3>2. echoes[kept[k]] \in Echo /\ echoes'[k] = [echoes[kept[k]] EXCEPT !.state = "failed"]
      BY <1>1, <2>1, <3>1, EchoesFacts
    <3>3. \A e \in Echo : /\ [e EXCEPT !.state = "failed"] \in Echo
                          /\ [e EXCEPT !.state = "failed"].msg = e.msg
                          /\ [e EXCEPT !.state = "failed"].state = "failed"
      BY DEF Echo, SentState
    <3>. QED
      BY <3>1, <3>2, <3>3
  <2>. QED
    BY <2>1, <2>2
<1>. HIDE DEF K
<1>4. echoes' \in Seq(Echo)
  <2>1. echoes' = [k \in 1..c |-> echoes'[k]]
    BY <1>1, <1>3
  <2>. QED
    BY <1>2, <1>3, <2>1, IsASeq
<1>5. OneEach(echoes')
  BY <1>2, <1>3, EchoesFacts DEF OneEach
<1>6. \A n : HasCome(n)' <=> HasCome(n)
  BY <1>1 DEF HasCome
<1>7. EchoesTyped'
  BY <1>1, <1>4 DEF EchoInv, EchoesTyped, Echo
<1>8. ToldAtTheEnd'
  <2>1. \A m \in Msgs : stage[m] = "over" => stage'[m] = "over"
    BY <1>1
  <2>. QED
    BY <1>1, <1>6, <2>1 DEF EchoInv, ToldAtTheEnd
<1>9. EchoesOfSent'
  <2>1. ASSUME NEW e \in ToSet(echoes')
        PROVE  /\ HasEcho(e.msg)' /\ stage'[e.msg] # "unsent"
               /\ told'[e.msg] = "sent" => e.state = "sent" /\ (HasCome(e.msg)' => e.msg \in early')
    <3>1. PICK k \in 1..c : echoes'[k] = e
      <4>1. \E k \in DOMAIN echoes' : echoes'[k] = e
        BY InSet
      <4>. QED
        BY <1>3, <4>1
    <3>2. PICK d \in ToSet(echoes) : d.msg = e.msg /\ d.state # "sent"
      BY <1>3, <3>1, EchoesFacts
    <3>3. d.msg \in Msgs /\ HasEcho(d.msg) /\ stage[d.msg] # "unsent" /\ told[d.msg] # "sent"
      BY <3>2, EchoesFacts DEF EchoInv, EchoesOfSent
    <3>. QED
      BY <1>1, <3>2, <3>3 DEF HasEcho
  <2>. QED
    BY <2>1 DEF EchoesOfSent
<1>10. EchoesOfFailed'
  <2>1. ASSUME NEW n \in Msgs, told'[n] = "failed", Alone(n)', ~HasCome(n)'
        PROVE  \E e \in ToSet(echoes') : e.msg = n /\ e.state = "failed"
    <3>1. told[n] = "failed" /\ Alone(n) /\ ~HasCome(n)
      BY <1>1, <1>6, <2>1 DEF Alone, HasEcho, SameContent
    <3>2. PICK e \in ToSet(echoes) : e.msg = n /\ e.state = "failed"
      BY <3>1 DEF EchoInv, EchoesOfFailed
    <3>3. PICK i \in DOMAIN echoes : echoes[i] = e
      BY <3>2, InSet
    <3>4. i \in K
      BY <3>2, <3>3 DEF K
    <3>5. PICK k \in 1..c : kept[k] = i
      BY <1>2, <3>4
    <3>. QED
      BY <1>3, <3>2, <3>3, <3>5, InSet
  <2>. QED
    BY <2>1 DEF EchoesOfFailed
<1>11. OneEach(echoes)'
  BY <1>5 DEF OneEach
<1>. QED
  BY <1>7, <1>8, <1>9, <1>10, <1>11 DEF EchoInv

(***************************************************************************)
(* The theorems about the echoes.                                          *)
(***************************************************************************)
LEMMA EchoInit == Init => EchoInv
<1>. SUFFICES ASSUME Init PROVE EchoInv
  OBVIOUS
<1>1. /\ kind \in [Msgs -> Kinds] /\ echoes = <<>> /\ timeline = <<>> /\ synced = 0 /\ early = {}
      /\ cancelled = {} /\ aborted = {} /\ events = 0
      /\ \A m \in Msgs : told[m] = "nothing"
  BY DEF Init
<1>2. DOMAIN echoes = {} /\ ToSet(echoes) = {} /\ echoes \in Seq([msg : Msgs, state : SentState])
  BY <1>1 DEF ToSet
<1>3. \A m : ~HasCome(m)
  BY <1>1 DEF HasCome
<1>4. 0 \in 0..Len(timeline) /\ 0 \in 0..MaxEvents
  BY <1>1, MaxEventsAssumption
<1>5. EchoesTyped
  BY <1>1, <1>2, <1>4 DEF EchoesTyped
<1>. QED
  BY <1>1, <1>2, <1>3, <1>5 DEF EchoInv, OneEach, ToldAtTheEnd, EchoesOfSent, EchoesOfFailed

LEMMA EchoStep == Inv /\ EchoInv /\ [Next]_vars => EchoInv'
<1>. SUFFICES ASSUME Inv, EchoInv, [Next]_vars PROVE EchoInv'
  OBVIOUS
<1>1. ASSUME NEW m \in Msgs, Send(m) PROVE EchoInv'
  BY <1>1, SendEchoes
<1>2. ASSUME NEW m \in Msgs,
             CancelOperation(m) \/ CancelSendingOperation(m) \/ RunFirst(m) \/ HomeserverAccepts(m)
      PROVE  EchoInv'
  BY <1>2, ApartEchoes
<1>3. ASSUME NEW m \in Msgs, UploadDone(m) PROVE EchoInv'
  BY <1>3, UploadDoneEchoes
<1>4. ASSUME NEW m \in Msgs, UploadFails(m) \/ EncryptionFails(m) \/ RequestFails(m) PROVE EchoInv'
  BY <1>4, FailEchoes DEF UploadFails, EncryptionFails, RequestFails, Running
<1>5. ASSUME NEW m \in Msgs, Encrypted(m) PROVE EchoInv'
  BY <1>5, EncryptedEchoes
<1>6. ASSUME NEW m \in Msgs, RequestSucceeds(m) PROVE EchoInv'
  BY <1>6, SuccessEchoes
<1>7. CASE LiveEvent
  BY <1>7, LiveEventEchoes
<1>8. CASE Restart
  BY <1>8, RestartEchoes
<1>9. CASE UNCHANGED vars
  <2>1. GoOn /\ Apart
    BY <1>9, NotOver DEF GoOn, Apart, vars, queueing, server
  <2>. QED
    BY <2>1, ApartKeeps
<1>. QED
  BY <1>1, <1>2, <1>3, <1>4, <1>5, <1>6, <1>7, <1>8, <1>9 DEF Next

LEMMA EchoHolds == Spec => [](Inv /\ EchoInv)
<1>. DEFINE Both == Inv /\ EchoInv
<1>1. Init => Both
  BY InitIsInv, EchoInit
<1>2. Both /\ [Next]_vars => Both'
  BY InvKept, EchoStep
<1>. QED
  BY <1>1, <1>2, PTL DEF Spec

LEMMA InComeFacts ==
  ASSUME Inv, EchoInv, NEW m
  PROVE  m \in Come <=> HasCome(m)
<1>. DEFINE s == SubSeq(timeline, 1, synced)
<1>1. DOMAIN s = 1..synced /\ \A i \in 1..synced : s[i] = timeline[i]
  <2>1. timeline \in Seq(Msgs) /\ synced \in Nat /\ \A i \in 1..synced : timeline[i] \in Msgs
    BY CameFacts DEF Inv, Typed
  <2>2. /\ s \in Seq(Msgs) /\ Len(s) = (IF 1 <= synced THEN synced - 1 + 1 ELSE 0)
        /\ \A i \in 1..(synced - 1 + 1) : s[i] = timeline[1 + i - 1]
    BY <2>1, SubSeqProperties
  <2>. HIDE DEF s
  <2>3. Len(s) = synced /\ DOMAIN s = 1..Len(s)
    BY <2>1, <2>2, LenProperties
  <2>4. ASSUME NEW i \in 1..synced
        PROVE  s[i] = timeline[i]
    <3>1. i \in 1..(synced - 1 + 1) /\ 1 + i - 1 = i
      BY <2>1
    <3>. QED
      BY <2>2, <3>1
  <2>. QED
    BY <2>3, <2>4
<1>2. m \in ToSet(s) <=> \E i \in DOMAIN s : s[i] = m
  BY InSet
<1>. HIDE DEF s
<1>. QED
  BY <1>1, <1>2 DEF Come, HasCome, s

\* The types: what is in the queue, in the store and in the room is there once.
THEOREM OutgoingTypeCorrect == Spec => []TypeOK
<1>1. ASSUME Inv, EchoInv
      PROVE  TypeOK
  <2>1. /\ ordered \in Seq(Msgs) /\ Increasing(ordered) /\ timeline \in Seq(Msgs)
        /\ \A i, j \in DOMAIN timeline : timeline[i] = timeline[j] => i = j
    BY <1>1 DEF Inv, Typed, QueueInOrder, Requested
  <2>2. DOMAIN ordered = 1..Len(ordered) /\ Len(ordered) \in Nat /\ \A i \in DOMAIN ordered : ordered[i] \in Nat
    <3>1. DOMAIN ordered = 1..Len(ordered) /\ Len(ordered) \in Nat /\ \A i \in DOMAIN ordered : ordered[i] \in Msgs
      BY <2>1, LenProperties
    <3>. QED
      BY <3>1, MsgsAreNaturals
  <2>3. IsInjective(ordered) /\ IsInjective(timeline)
    BY <2>1, <2>2 DEF IsInjective, Increasing
  <2>. QED
    BY <1>1, <2>3 DEF TypeOK, Inv, Typed, EchoInv, EchoesTyped
<1>. QED
  BY <1>1, EchoHolds, PTL

\* The echo of a message that is sent is gone once its event has come after the answer,
\* and that of a message that failed is there to be sent again, however many messages,
\* cancellations, failures and restarts there are.
THEOREM EchoesAreSettled == Spec => []EchoesSettled
<1>1. ASSUME Inv, EchoInv
      PROVE  EchoesSettled
  <2>1. ASSUME NEW m \in Msgs, told[m] = "sent", m \in Come \ early
        PROVE  EchoOf(m) = {}
    <3>1. HasCome(m) /\ m \notin early
      BY <1>1, <2>1, InComeFacts
    <3>2. ASSUME NEW i \in DOMAIN echoes
          PROVE  echoes[i].msg # m
      BY <1>1, <2>1, <3>1, EchoesFacts DEF EchoInv, EchoesOfSent
    <3>. QED
      BY <3>2 DEF EchoOf
  <2>2. ASSUME NEW m \in Msgs, told[m] = "failed", HasEcho(m), m \notin Come,
               kind[m] = "media" => m \notin cancelled,
               \A n \in Msgs \ {m} : ~SameContent(m, n)
        PROVE  \E i \in EchoOf(m) : echoes[i].state = "failed"
    <3>1. Alone(m) /\ ~HasCome(m)
      BY <1>1, <2>2, InComeFacts DEF Alone
    <3>2. PICK e \in ToSet(echoes) : e.msg = m /\ e.state = "failed"
      BY <1>1, <2>2, <3>1 DEF EchoInv, EchoesOfFailed
    <3>3. PICK i \in DOMAIN echoes : echoes[i] = e
      BY <3>2, InSet
    <3>. QED
      BY <3>2, <3>3 DEF EchoOf
  <2>. QED
    BY <2>1, <2>2 DEF EchoesSettled
<1>. QED
  BY <1>1, EchoHolds, PTL

=============================================================================
