------------------------ MODULE BackgroundSyncProofs ------------------------
(***************************************************************************)
(* Theorems about BackgroundSync, for any stream, limit of a timeline,     *)
(* number of response files and of kills.                                  *)
(*                                                                         *)
(* Three invariants, each of them inductive beside the types.  The one of  *)
(* the timelines holds as long as neither process has undone what the      *)
(* other did to the cache; until then, a service may still list again      *)
(* responses that have been deleted, but what can be read of a list is     *)
(* always its end, without a gap.  The one of the keys holds as long as    *)
(* the service has not written while the session was handling its cache,   *)
(* and has not been killed with the metadata truncated.                    *)
(***************************************************************************)
EXTENDS BackgroundSync, SequenceTheorems, TLAPS

WF == INSTANCE WellFoundedInduction
FS == INSTANCE FiniteSetTheorems

(***************************************************************************)
(* Types, and what the two processes know of the lists they have read.     *)
(***************************************************************************)
ListedIn(m) == ToSet(m.ids) \cup ToSet(m.outdated)
ListsOnce(m) == IsInjective(m.ids) /\ IsInjective(m.outdated) /\ ToSet(m.ids) \cap ToSet(m.outdated) = {}

\* No token is ahead of the homeserver.
Bounded ==
  /\ disk.token <= pos /\ app.token <= pos
  /\ bg.token <= pos /\ bg.from <= pos /\ bg.content.to <= pos
  /\ \A c \in Chunks : files[c].to <= pos

\* A new response is listed nowhere before it is registered.
Unlisted ==
  /\ bg.stage \in {"write", "register"} => bg.chunk \in Chunks
  /\ bg.fresh => bg.stage \in {"write", "register"}
  /\ bg.stage = "register" => bg.fresh
  /\ bg.truncated => bg.stage \in {"mark", "register"}
  /\ bg.stage \in {"write", "register"} /\ bg.fresh =>
       /\ bg.chunk \notin ListedIn(meta) /\ bg.chunk \notin ListedIn(app.meta)
       /\ bg.chunk \notin ToSet(app.ids)
  /\ bg.stage = "register" => bg.chunk \notin ListedIn(bg.meta)
  /\ bg.stage \in {"mark", "register"} => ListsOnce(bg.meta)

\* The session has a response to delete, and metadata to write.
Deleting ==
  /\ app.stage \in {"removed", "unlist"} => app.ids # <<>>
  /\ app.truncated => app.stage = "unlist"
  /\ ListsOnce(app.meta)

TypeInv == TypeOK /\ Bounded /\ Unlisted /\ Deleting

(***************************************************************************)
(* The timelines.                                                          *)
(***************************************************************************)
\* Messages without a gap up to a token: all of the stream from the first of them on.
UpTo(msgs, token) ==
  /\ \A m \in msgs : m <= token
  /\ \A m \in msgs : \A n \in m..token : n \in msgs

\* A response has the last messages, and if it is not limited all since its token.
Sound(r) ==
  /\ 1 <= r.from /\ r.from <= r.to
  /\ UpTo(r.msgs, r.to)
  /\ ~r.limited => r.msgs = (r.from + 1)..r.to

\* In the files f: from the first response that can be read, all can, each starts after
\* the ones before it and together they cover the stream.
Chained(f, ids) ==
  \A i \in DOMAIN ids : f[ids[i]] # NoResponse =>
    /\ \A j \in DOMAIN ids : j > i => f[ids[j]] # NoResponse /\ f[ids[i]].to <= f[ids[j]].from
    /\ \A m \in (f[ids[i]].from + 1)..f[Last(ids)].to :
         \E j \in DOMAIN ids : j >= i /\ f[ids[j]].from < m /\ m <= f[ids[j]].to

\* The last response that is listed, if it can be read, ends at this token.
EndsAt(f, ids, token) == ids # <<>> /\ f[Last(ids)] # NoResponse => f[Last(ids)].to = token

\* What can be read and comes before a response in s comes before it in t.
Behind(f, s, t) ==
  \A i \in DOMAIN s, k \in DOMAIN t : s[i] = t[k] =>
    \A j \in 1..(i - 1) : f[s[j]] # NoResponse => \E l \in 1..(k - 1) : t[l] = s[j]

Reading == app.stage \in {"outdated", "valid"}

Timelines == UpTo(disk.msgs, disk.token) /\ UpTo(app.msgs, app.token)

FilesSound == \A c \in Chunks : Exists(c) => Sound(files[c])

\* What the session has read starts at its token.
ToRead ==
  Reading => /\ Chained(files, app.ids) /\ IsInjective(app.ids)
             /\ app.ids # <<>> => Exists(Head(app.ids)) /\ files[Head(app.ids)].from = app.token
             /\ meta.ids # <<>> /\ Last(meta.ids) \in ToSet(app.ids) => Last(meta.ids) = Last(app.ids)

\* What the two processes know of the lists in the metadata m, while they read the files
\* f: the session deletes in their order, the service goes on where they end, or has read
\* their beginning to add to it.
Removing == {"delete", "removed", "unlist"}
Follows(f, a, b, m) ==
  /\ Chained(f, m.ids)
  /\ a.stage \in Removing => Behind(f, m.ids, a.ids)
  /\ b.stage = "register" => Behind(f, b.meta.ids, m.ids) /\ ToSet(m.outdated) \cap ToSet(b.meta.ids) = {}
  /\ b.stage = "sync" => EndsAt(f, m.ids, b.from)
  /\ b.stage = "write" /\ b.fresh => EndsAt(f, m.ids, b.content.from)
  /\ b.stage = "write" /\ ~b.fresh /\ b.chunk \in ToSet(m.ids) => b.chunk = Last(m.ids)

\* The metadata file, and what the session is writing there.
InFile ==
  /\ Follows(files, app, bg, meta)
  /\ app.truncated => meta = NoMetaData /\ Follows(files, app, bg, app.meta)

\* It deletes in the order also of a list that the service is to write back.
ToDelete ==
  /\ app.stage \in {"removed", "unlist"} => ~Exists(Head(app.ids))
  /\ bg.stage = "register" /\ app.stage \in Removing => Behind(files, bg.meta.ids, app.ids)

\* A response continues the last one that is listed, or the file it is merged with.
ToWrite ==
  /\ bg.stage = "sync" => bg.from # 0
  /\ bg.stage = "write" =>
       /\ Sound(bg.content)
       /\ bg.fresh => ~Exists(bg.chunk)
       /\ ~bg.fresh =>
            /\ Reading /\ bg.chunk \in ToSet(app.ids) => bg.chunk = Last(app.ids)
            /\ Exists(bg.chunk) => /\ bg.content.from = files[bg.chunk].from
                                   /\ files[bg.chunk].to <= bg.content.to
  /\ bg.stage = "register" => Exists(bg.chunk) /\ Chained(files, Append(bg.meta.ids, bg.chunk))

Gapless == Timelines /\ FilesSound /\ InFile /\ ToRead /\ ToDelete /\ ToWrite

GapInv == undone \/ Gapless

(***************************************************************************)
(* The keys.                                                               *)
(***************************************************************************)
Safe == appKeys \cup Listed
SafeUpTo(token) == \A k \in KeyPos : k <= token => k \in Safe

\* The responses that are listed, or about to be.
Known == ListedIn(meta) \cup (IF app.truncated THEN ListedIn(app.meta) ELSE {})
                        \cup (IF bg.truncated THEN ListedIn(bg.meta) ELSE {})

Tokens ==
  /\ SafeUpTo(acked) /\ SafeUpTo(disk.token) /\ SafeUpTo(app.token)
  /\ SafeUpTo(bg.token) /\ SafeUpTo(bg.from)
  /\ \A c \in Known : SafeUpTo(files[c].to)

Written ==
  /\ bg.stage \in {"mark", "register"} => meta = IF bg.truncated THEN NoMetaData ELSE bg.meta
  /\ bg.stage = "write" =>
       /\ \A k \in KeyPos : k <= bg.content.to => k \in Safe \cup bg.content.keys
       /\ ~bg.fresh => bg.chunk \in ListedIn(meta) /\ files[bg.chunk].keys \subseteq bg.content.keys
  /\ bg.stage = "register" =>
       \A k \in KeyPos : k <= files[bg.chunk].to => k \in Safe \cup files[bg.chunk].keys

HandledSoFar ==
  /\ Reading => ToSet(app.ids) \subseteq ListedIn(meta)
  /\ app.stage = "outdated" => ListedIn(meta) \subseteq ToSet(app.outdated) \cup ToSet(app.ids)
  /\ app.stage = "valid" =>
       \A c \in ListedIn(meta) : c \in ToSet(app.ids) \/ files[c].keys \subseteq appKeys
  /\ app.stage \in {"handled", "delete", "removed", "unlist"} => Listed \subseteq appKeys
  /\ app.stage = "unlist" => meta = IF app.truncated THEN NoMetaData ELSE app.meta

KeyInv == raced \/ torn \/ (~(Handling /\ Writing) /\ Tokens /\ Written /\ HandledSoFar)

(***************************************************************************)
(* Sequences.                                                              *)
(***************************************************************************)
LEMMA ConcatFacts ==
  ASSUME NEW S, NEW s \in Seq(S), NEW t \in Seq(S)
  PROVE  /\ s \o t \in Seq(S)
         /\ ToSet(s \o t) = ToSet(s) \cup ToSet(t)
         /\ IsInjective(s \o t) <=>
              IsInjective(s) /\ IsInjective(t) /\ ToSet(s) \cap ToSet(t) = {}
<1>. DEFINE n == Len(s)
            m == Len(t)
            u == s \o t
<1>1. n \in Nat /\ m \in Nat /\ DOMAIN s = 1..n /\ DOMAIN t = 1..m
  BY LenProperties
<1>2. /\ u \in Seq(S) /\ DOMAIN u = 1..(n + m)
      /\ \A i \in 1..(n + m) : u[i] = IF i <= n THEN s[i] ELSE t[i - n]
  BY ConcatProperties, LenProperties
<1>. HIDE DEF n, m, u
<1>3. \A i \in 1..n : i \in 1..(n + m) /\ u[i] = s[i]
  BY <1>1, <1>2
<1>4. \A i \in 1..m : n + i \in 1..(n + m) /\ u[n + i] = t[i]
  BY <1>1, <1>2
<1>5. \A i \in 1..(n + m) : i \in 1..n \/ \E j \in 1..m : i = n + j
  <2>1. ASSUME NEW i \in 1..(n + m), i \notin 1..n
        PROVE  i - n \in 1..m /\ i = n + (i - n)
    BY <1>1, <2>1
  <2>. QED
    BY <2>1
<1>6. ToSet(u) = ToSet(s) \cup ToSet(t)
  <2>1. ASSUME NEW i \in 1..(n + m)
        PROVE  u[i] \in ToSet(s) \cup ToSet(t)
    <3>1. CASE i \in 1..n
      BY <1>1, <1>3, <3>1 DEF ToSet
    <3>2. ASSUME NEW j \in 1..m, i = n + j
          PROVE  u[i] \in ToSet(t)
      BY <1>1, <1>4, <3>2 DEF ToSet
    <3>. QED
      BY <1>5, <3>1, <3>2
  <2>2. \A i \in 1..n : s[i] \in ToSet(u)
    BY <1>2, <1>3 DEF ToSet
  <2>3. \A i \in 1..m : t[i] \in ToSet(u)
    BY <1>2, <1>4 DEF ToSet
  <2>. QED
    BY <1>1, <1>2, <2>1, <2>2, <2>3 DEF ToSet
<1>7. ASSUME IsInjective(u)
      PROVE  IsInjective(s) /\ IsInjective(t) /\ ToSet(s) \cap ToSet(t) = {}
  <2>1. IsInjective(s)
    BY <1>1, <1>2, <1>3, <1>7 DEF IsInjective
  <2>2. ASSUME NEW i \in 1..m, NEW j \in 1..m, t[i] = t[j]
        PROVE  i = j
    <3>1. n + i = n + j
      BY <1>2, <1>4, <1>7, <2>2 DEF IsInjective
    <3>. QED
      BY <1>1, <3>1
  <2>3. ASSUME NEW i \in 1..n, NEW j \in 1..m, s[i] = t[j]
        PROVE  FALSE
    <3>1. i = n + j
      BY <1>2, <1>3, <1>4, <1>7, <2>3 DEF IsInjective
    <3>. QED
      BY <1>1, <3>1
  <2>. QED
    BY <1>1, <2>1, <2>2, <2>3 DEF IsInjective, ToSet
<1>8. ASSUME IsInjective(s), IsInjective(t), ToSet(s) \cap ToSet(t) = {}
      PROVE  IsInjective(u)
  <2>1. \A i \in 1..n, j \in 1..m : s[i] # t[j]
    BY <1>1, <1>8 DEF ToSet
  <2>2. ASSUME NEW i \in 1..(n + m), NEW j \in 1..(n + m), u[i] = u[j]
        PROVE  i = j
    <3>1. CASE i \in 1..n /\ j \in 1..n
      BY <1>1, <1>3, <1>8, <2>2, <3>1 DEF IsInjective
    <3>2. CASE i \in 1..n /\ j \notin 1..n
      BY <1>3, <1>4, <1>5, <2>1, <2>2, <3>2
    <3>3. CASE i \notin 1..n /\ j \in 1..n
      BY <1>3, <1>4, <1>5, <2>1, <2>2, <3>3
    <3>4. CASE i \notin 1..n /\ j \notin 1..n
      <4>1. PICK i1 \in 1..m, j1 \in 1..m : i = n + i1 /\ j = n + j1
        BY <1>5, <3>4
      <4>2. t[i1] = t[j1]
        BY <1>4, <2>2, <4>1
      <4>. QED
        BY <1>1, <1>8, <4>1, <4>2 DEF IsInjective
    <3>. QED
      BY <3>1, <3>2, <3>3, <3>4
  <2>. QED
    BY <1>2, <2>2 DEF IsInjective
<1>. QED
  BY <1>2, <1>6, <1>7, <1>8 DEF u

LEMMA AppendFacts ==
  ASSUME NEW S, NEW s \in Seq(S), NEW c \in S
  PROVE  /\ Append(s, c) \in Seq(S) /\ Append(s, c) # <<>>
         /\ DOMAIN s = 1..Len(s) /\ DOMAIN Append(s, c) = 1..(Len(s) + 1)
         /\ \A i \in 1..Len(s) : Append(s, c)[i] = s[i]
         /\ Append(s, c)[Len(s) + 1] = c /\ Last(Append(s, c)) = c
         /\ ToSet(Append(s, c)) = ToSet(s) \cup {c}
         /\ IsInjective(s) /\ c \notin ToSet(s) => IsInjective(Append(s, c))
<1>. DEFINE n == Len(s)
            u == Append(s, c)
<1>1. n \in Nat /\ DOMAIN s = 1..n
  BY LenProperties
<1>2. /\ u \in Seq(S) /\ u # <<>> /\ DOMAIN u = 1..(n + 1) /\ Len(u) = n + 1
      /\ \A i \in 1..n : u[i] = s[i]
      /\ u[n + 1] = c
  BY AppendProperties, LenProperties
<1>. HIDE DEF n, u
<1>3. 1..(n + 1) = (1..n) \cup {n + 1} /\ n + 1 \notin 1..n
  BY <1>1
<1>4. ToSet(u) = ToSet(s) \cup {c}
  BY <1>1, <1>2, <1>3 DEF ToSet
<1>5. IsInjective(s) /\ c \notin ToSet(s) => IsInjective(u)
  BY <1>1, <1>2, <1>3 DEF ToSet, IsInjective
<1>. QED
  BY <1>1, <1>2, <1>4, <1>5 DEF n, u, Last

\* There is a least and, of an interval, a greatest of some numbers.
Below == {p \in Nat \X Nat : p[1] < p[2]}

LEMMA BelowIsWellFounded == WF!IsWellFoundedOn(Below, Nat)
<1>1. Below = WF!OpToRel(<, Nat)
  BY Zenon DEF Below, WF!OpToRel
<1>. QED
  BY <1>1, WF!NatLessThanWellFounded, Zenon

LEMMA LeastIn ==
  ASSUME NEW S, S \subseteq Nat, S # {}
  PROVE  Min(S) \in S /\ \A x \in S : Min(S) <= x
<1>1. PICK x \in S : \A y \in S : <<y, x>> \notin Below
  BY BelowIsWellFounded, WF!WFMin, Zenon
<1>2. \A y \in S : x <= y
  <2>1. ASSUME NEW y \in S
        PROVE  x <= y
    <3>1. x \in Nat /\ y \in Nat /\ <<y, x>> \notin Below
      BY <1>1
    <3>. QED
      BY <3>1 DEF Below
  <2>. QED
    BY <2>1
<1>. QED
  BY <1>2 DEF Min

LEMMA GreatestIn ==
  ASSUME NEW n \in Nat, NEW S, S \subseteq 1..n, S # {}
  PROVE  Max(S) \in S /\ \A x \in S : x <= Max(S)
<1>. DEFINE T == {n - x : x \in S}
<1>1. T \subseteq Nat /\ T # {}
  <2>1. \A x \in S : n - x \in Nat
    OBVIOUS
  <2>. QED
    BY <2>1
<1>2. PICK t \in T : \A y \in T : t <= y
  BY <1>1, LeastIn
<1>3. PICK x \in S : t = n - x
  BY <1>2 DEF T
<1>4. \A y \in S : y <= x
  <2>1. ASSUME NEW y \in S
        PROVE  y <= x
    <3>1. n - x <= n - y
      BY <1>2, <1>3 DEF T
    <3>. QED
      BY <3>1
  <2>. QED
    BY <2>1
<1>. QED
  BY <1>4 DEF Max

\* Removing leaves the others, in their order.
LEMMA RemoveFirstFacts ==
  ASSUME NEW S, NEW s \in Seq(S), NEW c, IsInjective(s)
  PROVE  LET t == RemoveFirst(s, c)
         IN  /\ t \in Seq(S) /\ IsInjective(t) /\ ToSet(t) = ToSet(s) \ {c}
             /\ \E at \in [DOMAIN t -> DOMAIN s] :
                  /\ \A k \in DOMAIN t : t[k] = s[at[k]]
                  /\ \A k, l \in DOMAIN t : k < l => at[k] < at[l]
                  /\ \A i \in DOMAIN s : s[i] # c => \E k \in DOMAIN t : at[k] = i
<1>. DEFINE n == Len(s)
            t == RemoveFirst(s, c)
<1>1. n \in Nat /\ DOMAIN s = 1..n /\ \A i \in 1..n : s[i] \in S
  BY LenProperties, ElementOfSeq
<1>2. CASE c \notin ToSet(s)
  <2>1. t = s
    BY <1>1, <1>2 DEF RemoveFirst, ToSet
  <2>2. /\ [k \in DOMAIN s |-> k] \in [DOMAIN t -> DOMAIN s]
        /\ \A k \in DOMAIN s : [j \in DOMAIN s |-> j][k] = k
    BY <2>1
  <2>. HIDE DEF t
  <2>. QED
    BY <1>2, <2>1, <2>2 DEF t
<1>3. CASE c \in ToSet(s)
  <2>. DEFINE I == {i \in 1..n : s[i] = c}
              p == Min(I)
  <2>1. I # {} /\ I \subseteq Nat
    BY <1>1, <1>3 DEF ToSet
  <2>2. p \in 1..n /\ s[p] = c
    <3>. HIDE DEF I
    <3>1. p \in I
      BY <2>1, LeastIn
    <3>. QED
      BY <3>1 DEF I
  <2>3. t = SubSeq(s, 1, p - 1) \o SubSeq(s, p + 1, n)
    <3>1. SelectInSeq(s, LAMBDA v : v = c) = p
      BY <2>1 DEF SelectInSeq
    <3>2. \E i \in 1..Len(s) : s[i] = c
      BY <2>2
    <3>. QED
      BY <3>1, <3>2 DEF RemoveFirst, RemoveAt
  <2>. HIDE DEF p, I
  <2>. DEFINE a == SubSeq(s, 1, p - 1)
              b == SubSeq(s, p + 1, n)
  <2>4. a \in Seq(S) /\ Len(a) = p - 1 /\ \A i \in 1..(p - 1) : a[i] = s[i]
    <3>1. p - 1 \in Int /\ \A i \in 1..(p - 1) : s[i] \in S
      BY <1>1, <2>2
    <3>. QED
      BY <2>2, <3>1, SubSeqProperties
  <2>5. b \in Seq(S) /\ Len(b) = n - p /\ \A i \in 1..(n - p) : b[i] = s[p + i]
    <3>1. p + 1 \in Int /\ n \in Int /\ \A i \in (p + 1)..n : s[i] \in S
      BY <1>1, <2>2
    <3>2. /\ b \in Seq(S) /\ Len(b) = IF p + 1 <= n THEN n - (p + 1) + 1 ELSE 0
          /\ \A i \in 1..(n - (p + 1) + 1) : b[i] = s[p + 1 + i - 1]
      <4>. HIDE DEF n
      <4>. QED
        BY <3>1, SubSeqProperties
    <3>. HIDE DEF n, b
    <3>3. Len(b) = n - p
      BY <1>1, <2>2, <3>2
    <3>4. n - (p + 1) + 1 = n - p /\ \A i \in 1..(n - p) : p + 1 + i - 1 = p + i
      BY <1>1, <2>2
    <3>. QED
      BY <3>2, <3>3, <3>4
  <2>6. t \in Seq(S) /\ DOMAIN t = 1..(n - 1) /\ \A k \in 1..(n - 1) : t[k] = IF k < p THEN s[k] ELSE s[k + 1]
    <3>. HIDE DEF a, b, t, n
    <3>1. t = a \o b
      BY <2>3 DEF a, b, n
    <3>2. /\ t \in Seq(S) /\ Len(t) = (p - 1) + (n - p)
          /\ \A k \in 1..((p - 1) + (n - p)) : t[k] = IF k <= p - 1 THEN a[k] ELSE b[k - (p - 1)]
      BY <2>4, <2>5, <3>1, ConcatProperties
    <3>3. (p - 1) + (n - p) = n - 1
      BY <1>1, <2>2
    <3>4. DOMAIN t = 1..(n - 1)
      BY <3>2, <3>3, LenProperties
    <3>5. ASSUME NEW k \in 1..(n - 1)
          PROVE  t[k] = IF k < p THEN s[k] ELSE s[k + 1]
      <4>1. CASE k < p
        BY <1>1, <2>2, <2>4, <3>2, <3>3, <4>1
      <4>2. CASE ~(k < p)
        <5>1. k - (p - 1) \in 1..(n - p) /\ p + (k - (p - 1)) = k + 1 /\ ~(k <= p - 1)
          BY <1>1, <2>2, <4>2
        <5>. QED
          BY <2>5, <3>2, <3>3, <4>2, <5>1
      <4>. QED
        BY <4>1, <4>2
    <3>. QED
      BY <3>2, <3>4, <3>5
  <2>. DEFINE at == [k \in 1..(n - 1) |-> IF k < p THEN k ELSE k + 1]
  <2>. HIDE DEF t, n, a, b
  <2>7. at \in [DOMAIN t -> DOMAIN s] /\ \A k \in DOMAIN t : t[k] = s[at[k]] /\ at[k] # p
    BY <1>1, <2>2, <2>6
  <2>8. \A k, l \in DOMAIN t : k < l => at[k] < at[l]
    BY <1>1, <2>2, <2>6
  <2>9. ASSUME NEW i \in DOMAIN s, i # p
        PROVE  \E k \in DOMAIN t : at[k] = i
    <3>1. CASE i < p
      <4>1. i \in 1..(n - 1) /\ at[i] = i
        BY <1>1, <2>2, <3>1
      <4>. QED
        BY <2>6, <4>1
    <3>2. CASE i > p
      <4>1. i - 1 \in 1..(n - 1) /\ at[i - 1] = i
        BY <1>1, <2>2, <3>2
      <4>. QED
        BY <2>6, <4>1
    <3>. QED
      BY <1>1, <2>2, <2>9, <3>1, <3>2
  <2>. HIDE DEF at
  <2>10. IsInjective(t)
    <3>1. ASSUME NEW k \in DOMAIN t, NEW l \in DOMAIN t, t[k] = t[l]
          PROVE  k = l
      <4>1. at[k] = at[l] /\ at[k] \in Nat
        BY <1>1, <2>7, <3>1 DEF IsInjective
      <4>2. ~(k < l) /\ ~(l < k)
        BY <4>1, <2>8
      <4>. QED
        BY <1>1, <2>6, <4>2
    <3>. QED
      BY <3>1 DEF IsInjective
  <2>11. ToSet(t) = ToSet(s) \ {c}
    <3>1. \A i \in DOMAIN s : s[i] = c <=> i = p
      BY <1>1, <2>2 DEF IsInjective
    <3>. QED
      BY <2>7, <2>9, <3>1 DEF ToSet
  <2>12. \A i \in DOMAIN s : s[i] # c => \E k \in DOMAIN t : at[k] = i
    BY <2>2, <2>9
  <2>. QED
    BY <2>6, <2>7, <2>8, <2>10, <2>11, <2>12 DEF t
<1>. QED
  BY <1>2, <1>3

LEMMA RemovedPlaces ==
  ASSUME NEW s \in Seq(Chunks), NEW c, IsInjective(s)
  PROVE  \E at \in [DOMAIN RemoveFirst(s, c) -> DOMAIN s] :
           /\ \A k \in DOMAIN RemoveFirst(s, c) : RemoveFirst(s, c)[k] = s[at[k]]
           /\ \A k, l \in DOMAIN RemoveFirst(s, c) : k < l => at[k] < at[l]
           /\ \A i \in DOMAIN s : s[i] # c => \E k \in DOMAIN RemoveFirst(s, c) : at[k] = i
BY RemoveFirstFacts

(***************************************************************************)
(* The operators of the model.                                             *)
(***************************************************************************)
LEMMA Constants ==
  /\ MaxPos \in Nat \ {0} /\ Pos = 0..MaxPos /\ MsgPos = 1..MaxPos
  /\ KeyPos \subseteq 1..MaxPos
  /\ Limit \in Nat \ {0} /\ MaxKills \in Nat /\ None \notin Chunks
<1>1. Feed \in Seq([key : BOOLEAN, needs : Nat]) /\ Feed # <<>>
  BY BackgroundAssumption
<1>2. Len(Feed) \in Nat /\ Len(Feed) # 0
  BY <1>1, LenProperties, EmptySeq
<1>. QED
  BY <1>2, BackgroundAssumption DEF MaxPos, Pos, MsgPos, KeyPos

LEMMA ResponseFacts ==
  ASSUME NEW r
  PROVE  r \in Response <=>
           /\ r = [from |-> r.from, to |-> r.to, keys |-> r.keys, msgs |-> r.msgs, limited |-> r.limited]
           /\ r.from \in Pos /\ r.to \in Pos /\ r.keys \subseteq KeyPos /\ r.msgs \subseteq MsgPos
           /\ r.limited \in BOOLEAN
BY DEF Response

LEMMA NoResponseFacts ==
  /\ NoResponse \in Response
  /\ NoResponse.from = 0 /\ NoResponse.to = 0 /\ NoResponse.keys = {} /\ NoResponse.msgs = {}
BY Constants DEF NoResponse, Response

\* The operators on finite sets of the library's theorems are those of the model.
LEMMA SameFiniteSets ==
  ASSUME NEW S
  PROVE  (IsFiniteSet(S) <=> FS!IsFiniteSet(S)) /\ Cardinality(S) = FS!Cardinality(S)
<1>1. IsFiniteSet(S) <=> FS!IsFiniteSet(S)
  BY DEF IsFiniteSet, FS!IsFiniteSet
<1>2. Cardinality(S) = FS!Cardinality(S)
  BY Zenon DEF Cardinality, FS!Cardinality
<1>. QED
  BY <1>1, <1>2

\* What the homeserver answers: the keys that are not acknowledged, and the last messages.
LEMMA AnswerFacts ==
  ASSUME TypeOK, NEW from \in 0..pos
  PROVE  LET r == Answer(from)
         IN  /\ Acknowledged(from) \in 0..pos /\ Acknowledged(from) \in {from, acked}
             /\ r \in Response /\ r.from = from /\ r.to = pos
             /\ \A k \in KeyPos : k <= pos => k <= from \/ k <= acked \/ k \in r.keys
             /\ UpTo(r.msgs, pos)
             /\ ~r.limited => r.msgs = (from + 1)..pos
<1>. DEFINE r == Answer(from)
            all == {p \in MsgPos : from < p /\ p <= pos}
            after(p) == {q \in all : q > p}
<1>1. pos \in 0..MaxPos /\ acked \in 0..pos /\ MaxPos \in Nat
  BY Constants DEF TypeOK
<1>2. /\ r.from = from /\ r.to = pos /\ r.limited = (Cardinality(all) > Limit)
      /\ r.keys = {k \in KeyPos : Acknowledged(from) < k /\ k <= pos}
      /\ r.msgs = {p \in all : Cardinality(after(p)) < Limit}
  BY DEF Answer
<1>3. Acknowledged(from) \in 0..pos /\ Acknowledged(from) \in {from, acked}
  BY <1>1 DEF Acknowledged
<1>4. r \in Response
  BY <1>1, Constants DEF Answer, Response
<1>5. \A k \in KeyPos : k <= pos => k <= from \/ k <= acked \/ k \in r.keys
  BY <1>1, <1>2, <1>3, Constants
<1>6. all = (from + 1)..pos
  BY <1>1, Constants
<1>7. IsFiniteSet(all) /\ Cardinality(all) \in Nat
  <2>1. FS!IsFiniteSet((from + 1)..pos) /\ FS!Cardinality((from + 1)..pos) \in Nat
    BY <1>1, FS!FS_Interval, FS!FS_CardinalityType
  <2>. QED
    BY <1>6, <2>1, SameFiniteSets
<1>8. ASSUME NEW p, NEW q \in all, p \in all, p <= q
      PROVE  /\ Cardinality(after(p)) \in Nat /\ Cardinality(after(q)) \in Nat
             /\ Cardinality(after(q)) <= Cardinality(after(p))
             /\ Cardinality(after(p)) < Cardinality(all)
  <2>1. after(q) \in SUBSET after(p) /\ after(p) \in SUBSET all /\ after(p) # all
    BY <1>1, <1>6, <1>8
  <2>. HIDE DEF all
  <2>2. IsFiniteSet(after(p)) /\ Cardinality(after(p)) <= Cardinality(all)
        /\ (Cardinality(all) = Cardinality(after(p)) => all = after(p))
    BY <1>7, <2>1, FS!FS_Subset, SameFiniteSets
  <2>3. IsFiniteSet(after(q)) /\ Cardinality(after(q)) <= Cardinality(after(p))
    BY <2>1, <2>2, FS!FS_Subset, SameFiniteSets
  <2>4. Cardinality(after(p)) \in Nat /\ Cardinality(after(q)) \in Nat
    BY <2>2, <2>3, FS!FS_CardinalityType, SameFiniteSets
  <2>. QED
    BY <1>7, <2>1, <2>2, <2>3, <2>4
<1>9. UpTo(r.msgs, pos)
  <2>1. \A m \in r.msgs : m \in all /\ m <= pos
    BY <1>2
  <2>2. ASSUME NEW m \in r.msgs, NEW n \in m..pos
        PROVE  n \in r.msgs
    <3>1. n \in all /\ m <= n /\ m \in all
      BY <1>1, <1>6, <2>1, <2>2
    <3>2. Cardinality(after(m)) < Limit
      BY <1>2, <2>2
    <3>3. Cardinality(after(n)) < Limit
      <4>1. /\ Cardinality(after(m)) \in Nat /\ Cardinality(after(n)) \in Nat
            /\ Cardinality(after(n)) <= Cardinality(after(m))
        BY <1>8, <3>1
      <4>. HIDE DEF after
      <4>. QED
        BY <3>2, <4>1, Constants
    <3>. QED
      BY <1>2, <3>1, <3>3
  <2>. QED
    BY <2>1, <2>2 DEF UpTo
<1>10. ~r.limited => r.msgs = all
  <2>1. ASSUME ~r.limited, NEW p \in all
        PROVE  p \in r.msgs
    <3>0. p <= p
      BY <1>1, <1>6
    <3>1. Cardinality(after(p)) \in Nat /\ Cardinality(after(p)) < Cardinality(all)
      BY <1>8, <3>0
    <3>2. Cardinality(all) <= Limit
      <4>1. ~(Cardinality(all) > Limit)
        BY <1>2, <2>1
      <4>. HIDE DEF all
      <4>. QED
        BY <1>7, <4>1, Constants
    <3>3. Cardinality(after(p)) < Limit
      BY <1>7, <3>1, <3>2, Constants
    <3>. QED
      BY <1>2, <3>3
  <2>2. r.msgs \subseteq all
    BY <1>2
  <2>. QED
    BY <2>1, <2>2
<1>. QED
  BY <1>2, <1>3, <1>4, <1>5, <1>6, <1>9, <1>10

LEMMA MergedFacts ==
  ASSUME NEW old \in Response, NEW new \in Response
  PROVE  LET r == Merged(old, new)
         IN  /\ r \in Response /\ r.from = old.from /\ r.to = new.to /\ r.keys = old.keys \cup new.keys
             /\ r.msgs = IF new.limited THEN new.msgs ELSE old.msgs \cup new.msgs
             /\ r.limited = (old.limited \/ new.limited)
BY DEF Merged, Response

\* The cached responses that are read together.
LEMMA MergedAllFacts ==
  ASSUME TypeOK, NEW ids \in Seq(Chunks)
  PROVE  LET r == MergedAll(ids)
             found == {i \in DOMAIN ids : Exists(ids[i])}
         IN  /\ r \in Response
             /\ r.keys = UNION {files[c].keys : c \in ToSet(ids)}
             /\ found = {} => r = NoResponse
             /\ found # {} =>
                  /\ Min(found) \in found /\ \A i \in found : Min(found) <= i
                  /\ Max(found) \in found /\ \A i \in found : i <= Max(found)
                  /\ r.from = files[ids[Min(found)]].from /\ r.to = files[ids[Max(found)]].to
                  /\ r.msgs = UNION {files[ids[i]].msgs : i \in
                       {i \in found : \A j \in found : j > i => ~files[ids[j]].limited}}
                  /\ r.limited = \E i \in found : files[ids[i]].limited
<1>. DEFINE r == MergedAll(ids)
            found == {i \in DOMAIN ids : Exists(ids[i])}
            ungapped == {i \in found : \A j \in found : j > i => ~files[ids[j]].limited}
<1>1. /\ Len(ids) \in Nat /\ DOMAIN ids = 1..Len(ids) /\ \A i \in DOMAIN ids : ids[i] \in Chunks
      /\ \A c \in Chunks : files[c] \in Response
  BY LenProperties, ElementOfSeq DEF TypeOK
<1>2. CASE found = {}
  <2>1. r = NoResponse
    BY <1>2 DEF MergedAll
  <2>2. \A c \in ToSet(ids) : files[c] = NoResponse
    BY <1>2 DEF ToSet, Exists
  <2>. QED
    BY <1>2, <2>1, <2>2, NoResponseFacts
<1>3. CASE found # {}
  <2>1. Min(found) \in found /\ \A i \in found : Min(found) <= i
    <3>1. found \subseteq Nat
      BY <1>1
    <3>. HIDE DEF found
    <3>. QED
      BY <1>3, <3>1, LeastIn
  <2>2. Max(found) \in found /\ \A i \in found : i <= Max(found)
    <3>1. found \subseteq 1..Len(ids)
      BY <1>1
    <3>. HIDE DEF found
    <3>. QED
      BY <1>1, <1>3, <3>1, GreatestIn
  <2>3. r = [from |-> files[ids[Min(found)]].from, to |-> files[ids[Max(found)]].to,
             keys |-> UNION {files[ids[i]].keys : i \in found},
             msgs |-> UNION {files[ids[i]].msgs : i \in ungapped},
             limited |-> \E i \in found : files[ids[i]].limited]
    BY <1>3 DEF MergedAll
  <2>4. \A i \in found : i \in DOMAIN ids /\ files[ids[i]] \in Response
    BY <1>1
  <2>5. UNION {files[ids[i]].keys : i \in found} = UNION {files[c].keys : c \in ToSet(ids)}
    <3>1. \A i \in DOMAIN ids : i \in found \/ files[ids[i]].keys = {}
      BY NoResponseFacts DEF Exists
    <3>2. ASSUME NEW k, NEW c \in ToSet(ids), k \in files[c].keys
          PROVE  \E i \in found : k \in files[ids[i]].keys
      <4>1. PICK i \in DOMAIN ids : c = ids[i]
        BY <3>2 DEF ToSet
      <4>. QED
        BY <3>1, <3>2, <4>1
    <3>3. \A i \in found : ids[i] \in ToSet(ids)
      BY DEF ToSet
    <3>. HIDE DEF found
    <3>. QED
      BY <3>2, <3>3
  <2>. HIDE DEF r, found
  <2>6. r \in Response
    <3>1. UNION {files[ids[i]].keys : i \in found} \subseteq KeyPos
      BY <2>4, ResponseFacts
    <3>2. UNION {files[ids[i]].msgs : i \in ungapped} \subseteq MsgPos
      BY <2>4, ResponseFacts
    <3>3. files[ids[Min(found)]].from \in Pos /\ files[ids[Max(found)]].to \in Pos
      BY <2>1, <2>2, <2>4, ResponseFacts
    <3>4. (\E i \in found : files[ids[i]].limited) \in BOOLEAN
      OBVIOUS
    <3>. HIDE DEF ungapped
    <3>. QED
      BY <2>3, <3>1, <3>2, <3>3, <3>4 DEF Response
  <2>. QED
    <3>1. /\ r.from = files[ids[Min(found)]].from /\ r.to = files[ids[Max(found)]].to
          /\ r.keys = UNION {files[ids[i]].keys : i \in found}
          /\ r.msgs = UNION {files[ids[i]].msgs : i \in ungapped}
          /\ r.limited = \E i \in found : files[ids[i]].limited
      <4>. HIDE DEF ungapped
      <4>. QED
        BY <2>3
    <3>2. ungapped = {i \in found : \A j \in found : j > i => ~files[ids[j]].limited}
      OBVIOUS
    <3>. HIDE DEF ungapped
    <3>. QED
      BY <1>3, <2>1, <2>2, <2>5, <2>6, <3>1, <3>2 DEF r, found
<1>. QED
  BY <1>2, <1>3

\* MergedAll is the loop of mergedSyncResponse: a response that cannot be read is skipped,
\* the first is taken as it is, and each of the others is merged onto those before it
\* (MXSyncResponseStoreManager.swift:96).
THEOREM ResponsesAreFolded ==
  ASSUME TypeOK, NEW ids \in Seq(Chunks), NEW c \in Chunks
  PROVE  /\ MergedAll(<<>>) = NoResponse
         /\ ~Exists(c) => MergedAll(Append(ids, c)) = MergedAll(ids)
         /\ Exists(c) /\ (\A i \in DOMAIN ids : ~Exists(ids[i])) =>
              MergedAll(Append(ids, c)) = files[c]
         /\ Exists(c) /\ (\E i \in DOMAIN ids : Exists(ids[i])) =>
              MergedAll(Append(ids, c)) = Merged(MergedAll(ids), files[c])
<1>. DEFINE n == Len(ids)
            u == Append(ids, c)
            F == {i \in DOMAIN ids : Exists(ids[i])}
            G == {i \in DOMAIN u : Exists(u[i])}
            r == MergedAll(ids)
            v == MergedAll(u)
            late(ds, H) == {i \in H : \A j \in H : j > i => ~files[ds[j]].limited}
<1>1. /\ n \in Nat /\ DOMAIN ids = 1..n /\ \A i \in 1..n : ids[i] \in Chunks
      /\ DOMAIN u = 1..(n + 1) /\ u \in Seq(Chunks) /\ ToSet(u) = ToSet(ids) \cup {c}
      /\ u[n + 1] = c /\ \A i \in 1..n : u[i] = ids[i]
  BY AppendFacts, LenProperties, ElementOfSeq
<1>2. files \in [Chunks -> Response] /\ files[c] \in Response
  BY DEF TypeOK
<1>3. ASSUME NEW x \in Response, NEW y \in Response,
              x.from = y.from, x.to = y.to, x.keys = y.keys, x.msgs = y.msgs, x.limited = y.limited
       PROVE  x = y
  <2>1. /\ x = [from |-> x.from, to |-> x.to, keys |-> x.keys, msgs |-> x.msgs, limited |-> x.limited]
        /\ y = [from |-> y.from, to |-> y.to, keys |-> y.keys, msgs |-> y.msgs, limited |-> y.limited]
    BY DEF Response
  <2>. QED
    BY <1>3, <2>1
<1>4. /\ r \in Response /\ r.keys = UNION {files[d].keys : d \in ToSet(ids)}
      /\ F = {} => r = NoResponse
      /\ F # {} =>
           /\ Min(F) \in F /\ \A i \in F : Min(F) <= i
           /\ Max(F) \in F /\ \A i \in F : i <= Max(F)
           /\ r.from = files[ids[Min(F)]].from /\ r.to = files[ids[Max(F)]].to
           /\ r.msgs = UNION {files[ids[i]].msgs : i \in late(ids, F)}
           /\ r.limited = \E i \in F : files[ids[i]].limited
  BY MergedAllFacts
<1>5. /\ v \in Response /\ v.keys = UNION {files[d].keys : d \in ToSet(u)}
      /\ G = {} => v = NoResponse
      /\ G # {} =>
           /\ Min(G) \in G /\ \A i \in G : Min(G) <= i
           /\ Max(G) \in G /\ \A i \in G : i <= Max(G)
           /\ v.from = files[u[Min(G)]].from /\ v.to = files[u[Max(G)]].to
           /\ v.msgs = UNION {files[u[i]].msgs : i \in late(u, G)}
           /\ v.limited = \E i \in G : files[u[i]].limited
  BY <1>1, MergedAllFacts
<1>6. MergedAll(<<>>) = NoResponse
  BY EmptySeq DEF MergedAll
<1>7. v.keys = r.keys \cup files[c].keys
  BY <1>1, <1>4, <1>5
<1>8. F \subseteq 1..n /\ n + 1 \notin 1..n /\ G = F \cup (IF Exists(c) THEN {n + 1} ELSE {})
  <2>1. 1..(n + 1) = (1..n) \cup {n + 1} /\ n + 1 \notin 1..n
    BY <1>1
  <2>. QED
    BY <1>1, <2>1
<1>. HIDE DEF n, u, F, G, r, v
<1>9. ASSUME ~Exists(c)
      PROVE  v = r
  <2>1. G = F /\ v.keys = r.keys
    BY <1>7, <1>8, <1>9, NoResponseFacts DEF Exists
  <2>2. CASE F = {}
    BY <1>4, <1>5, <2>1, <2>2
  <2>3. CASE F # {}
    <3>1. \A i \in F : u[i] = ids[i]
      BY <1>1, <1>8
    <3>2. late(u, G) = late(ids, F) /\ late(ids, F) \subseteq F
      BY <2>1, <3>1
    <3>3. v.msgs = r.msgs
      <4>1. {files[u[i]].msgs : i \in late(u, G)} = {files[ids[i]].msgs : i \in late(ids, F)}
        BY <3>1, <3>2
      <4>. QED
        BY <1>4, <1>5, <2>1, <2>3, <4>1
    <3>4. v.from = r.from /\ v.to = r.to
      BY <1>4, <1>5, <2>1, <2>3, <3>1
    <3>5. v.limited = r.limited
      BY <1>4, <1>5, <2>1, <2>3, <3>1
    <3>. QED
      BY <1>2, <1>3, <1>4, <1>5, <2>1, <3>3, <3>4, <3>5
  <2>. QED
    BY <2>2, <2>3
<1>10. ASSUME Exists(c)
      PROVE  /\ Max(G) = n + 1 /\ v.to = files[c].to /\ G = F \cup {n + 1} /\ G # {}
             /\ n + 1 \in late(u, G)
  <2>1. G = F \cup {n + 1} /\ Max(G) \in G /\ n + 1 <= Max(G)
    BY <1>5, <1>8, <1>10
  <2>2. Max(G) = n + 1
    <3>1. \A i \in F \cup {n + 1} : n + 1 <= i => i = n + 1
      BY <1>1, <1>8
    <3>. QED
      BY <2>1, <3>1
  <2>3. \A j \in G : ~(j > n + 1)
    BY <1>1, <1>8, <2>1
  <2>. QED
    BY <1>1, <1>5, <2>1, <2>2, <2>3
<1>11. ASSUME Exists(c), F = {}
       PROVE  v = files[c]
  <2>1. G = {n + 1} /\ late(u, G) = {n + 1} /\ Min(G) = n + 1
    <3>1. G = {n + 1}
      BY <1>10, <1>11
    <3>2. Min(G) \in G
      BY <1>5, <1>10, <1>11
    <3>3. late(u, G) \subseteq G
      OBVIOUS
    <3>. QED
      BY <1>10, <1>11, <3>1, <3>2, <3>3
  <2>2. v.from = files[c].from /\ v.to = files[c].to
    BY <1>1, <1>5, <1>10, <1>11, <2>1
  <2>3. v.msgs = files[c].msgs
    <3>1. v.msgs = UNION {files[u[i]].msgs : i \in late(u, G)}
      BY <1>5, <1>10, <1>11
    <3>2. {files[u[i]].msgs : i \in late(u, G)} = {files[c].msgs}
      BY <1>1, <2>1
    <3>. QED
      BY <3>1, <3>2
  <2>4. v.limited = files[c].limited
    BY <1>1, <1>2, <1>5, <2>1 DEF Response
  <2>5. v.keys = files[c].keys
    BY <1>4, <1>7, <1>11, NoResponseFacts
  <2>. QED
    BY <1>2, <1>3, <1>5, <2>2, <2>3, <2>4, <2>5
<1>12. ASSUME Exists(c), F # {}
       PROVE  v = Merged(r, files[c])
  <2>. DEFINE w == Merged(r, files[c])
  <2>1. /\ w \in Response
        /\ w.from = r.from /\ w.to = files[c].to /\ w.keys = r.keys \cup files[c].keys
        /\ w.msgs = IF files[c].limited THEN files[c].msgs ELSE r.msgs \cup files[c].msgs
        /\ w.limited = (r.limited \/ files[c].limited)
    <3>1. r \in Response /\ files[c] \in Response
      BY <1>2, <1>4
    <3>. QED
      BY <3>1, MergedFacts
  <2>. HIDE DEF w
  <2>2. \A i \in F : u[i] = ids[i] /\ i < n + 1 /\ i \in Nat
    BY <1>1, <1>8
  <2>3. Min(G) = Min(F)
    <3>1. /\ Min(F) \in F /\ \A i \in F : Min(F) <= i
          /\ Min(G) \in F \cup {n + 1} /\ \A i \in F \cup {n + 1} : Min(G) <= i
      BY <1>4, <1>5, <1>10, <1>12
    <3>2. \A i, j \in F \cup {n + 1} : i \in Nat /\ j \in Nat /\ (i <= j /\ j <= i => i = j)
      BY <1>1, <2>2
    <3>3. Min(G) <= Min(F)
      BY <3>1
    <3>4. Min(G) \in F
      <4>1. ~(n + 1 <= Min(F))
        BY <1>1, <2>2, <3>1
      <4>. QED
        BY <3>1, <3>3, <4>1
    <3>. QED
      BY <3>1, <3>2, <3>3, <3>4
  <2>4. v.from = w.from /\ v.to = w.to /\ v.keys = w.keys
    BY <1>4, <1>5, <1>7, <1>10, <1>12, <2>1, <2>2, <2>3
  <2>5. v.limited = w.limited
    <3>1. v.limited = \E i \in F \cup {n + 1} : files[u[i]].limited
      BY <1>5, <1>10, <1>12
    <3>2. (\E i \in F \cup {n + 1} : files[u[i]].limited) <=> (files[c].limited \/ \E i \in F : files[ids[i]].limited)
      BY <1>1, <2>2
    <3>3. r.limited = \E i \in F : files[ids[i]].limited
      BY <1>4, <1>12
    <3>4. v.limited <=> w.limited
      BY <2>1, <3>1, <3>2, <3>3
    <3>. QED
      BY <1>5, <2>1, <3>4 DEF Response
  <2>6. v.msgs = w.msgs
    <3>1. v.msgs = UNION {files[u[i]].msgs : i \in late(u, G)}
      BY <1>5, <1>10, <1>12
    <3>2. CASE files[c].limited
      <4>1. late(u, G) = {n + 1}
        BY <1>1, <1>10, <1>12, <2>2, <3>2
      <4>. QED
        BY <1>1, <2>1, <3>1, <3>2, <4>1
    <3>3. CASE ~files[c].limited
      <4>1. late(u, G) = late(ids, F) \cup {n + 1}
        BY <1>1, <1>10, <1>12, <2>2, <3>3
      <4>2. UNION {files[u[i]].msgs : i \in late(ids, F) \cup {n + 1}}
              = (UNION {files[ids[i]].msgs : i \in late(ids, F)}) \cup files[c].msgs
        BY <1>1, <2>2
      <4>3. r.msgs = UNION {files[ids[i]].msgs : i \in late(ids, F)}
        BY <1>4, <1>12
      <4>. QED
        BY <2>1, <3>1, <3>3, <4>1, <4>2, <4>3
    <3>. QED
      BY <3>2, <3>3
  <2>. QED
    BY <1>2, <1>3, <1>5, <2>1, <2>4, <2>5, <2>6 DEF w
<1>. QED
  BY <1>6, <1>9, <1>11, <1>12 DEF F, r, u, v

\* What is read of the metadata can be listed again.
LEMMA MetaFacts ==
  ASSUME NEW m \in MetaData
  PROVE  /\ m.ids \in Seq(Chunks) /\ m.outdated \in Seq(Chunks)
         /\ ListedIn(m) = ToSet(m.ids \o m.outdated) /\ ListedIn(m) \subseteq Chunks
         /\ ListsOnce(m) <=> IsInjective(m.ids \o m.outdated)
         /\ ToSet(m.ids) \subseteq ListedIn(m) /\ ToSet(m.outdated) \subseteq ListedIn(m)
<1>1. m.ids \in Seq(Chunks) /\ m.outdated \in Seq(Chunks)
  BY DEF MetaData
<1>2. \A s \in Seq(Chunks) : ToSet(s) \subseteq Chunks
  BY LenProperties, ElementOfSeq DEF ToSet
<1>. QED
  BY <1>1, <1>2, ConcatFacts DEF ListedIn, ListsOnce

LEMMA NoMetaDataFacts ==
  /\ NoMetaData \in MetaData /\ ListsOnce(NoMetaData) /\ ListedIn(NoMetaData) = {}
  /\ NoMetaData.ids = <<>> /\ NoMetaData.outdated = <<>>
BY DEF NoMetaData, MetaData, ListsOnce, ListedIn, IsInjective, ToSet

\* Metadata without a response.
LEMMA UnlistFacts ==
  ASSUME NEW m \in MetaData, ListsOnce(m), NEW c
  PROVE  LET left == [ids |-> RemoveFirst(m.ids, c), outdated |-> RemoveFirst(m.outdated, c)]
         IN  /\ left \in MetaData /\ ListsOnce(left) /\ ListedIn(left) = ListedIn(m) \ {c}
             /\ ToSet(left.ids) = ToSet(m.ids) \ {c} /\ ToSet(left.outdated) = ToSet(m.outdated) \ {c}
<1>. DEFINE ids == RemoveFirst(m.ids, c)
            outdated == RemoveFirst(m.outdated, c)
<1>1. /\ m.ids \in Seq(Chunks) /\ IsInjective(m.ids)
      /\ m.outdated \in Seq(Chunks) /\ IsInjective(m.outdated)
  BY MetaFacts DEF ListsOnce
<1>2. /\ ids \in Seq(Chunks) /\ IsInjective(ids) /\ ToSet(ids) = ToSet(m.ids) \ {c}
      /\ outdated \in Seq(Chunks) /\ IsInjective(outdated) /\ ToSet(outdated) = ToSet(m.outdated) \ {c}
  BY <1>1, RemoveFirstFacts
<1>. HIDE DEF ids, outdated
<1>. DEFINE left == [ids |-> ids, outdated |-> outdated]
<1>3. left.ids = ids /\ left.outdated = outdated /\ left \in MetaData
  BY <1>2 DEF MetaData
<1>. HIDE DEF left
<1>4. /\ left \in MetaData /\ ListsOnce(left) /\ ListedIn(left) = ListedIn(m) \ {c}
      /\ ToSet(left.ids) = ToSet(m.ids) \ {c} /\ ToSet(left.outdated) = ToSet(m.outdated) \ {c}
  BY <1>2, <1>3 DEF ListsOnce, ListedIn
<1>. QED
  BY <1>4 DEF left, ids, outdated

LEMMA TokenFacts ==
  ASSUME TypeOK
  PROVE  /\ meta.ids # <<>> => /\ Head(meta.ids) = meta.ids[1] /\ 1 \in DOMAIN meta.ids
                               /\ Last(meta.ids) = meta.ids[Len(meta.ids)] /\ Len(meta.ids) \in DOMAIN meta.ids
                               /\ Head(meta.ids) \in ToSet(meta.ids) /\ Last(meta.ids) \in ToSet(meta.ids)
                               /\ SyncToken = files[Head(meta.ids)].from
                               /\ NextSyncToken = files[Last(meta.ids)].to
         /\ meta.ids = <<>> => SyncToken = 0 /\ NextSyncToken = 0
         /\ SyncToken \in Pos /\ NextSyncToken \in Pos
<1>1. meta.ids \in Seq(Chunks)
  BY MetaFacts DEF TypeOK
<1>2. meta.ids # <<>> => /\ Head(meta.ids) = meta.ids[1] /\ 1 \in DOMAIN meta.ids
                         /\ Last(meta.ids) = meta.ids[Len(meta.ids)] /\ Len(meta.ids) \in DOMAIN meta.ids
  BY <1>1, LenProperties, EmptySeq DEF Last
<1>3. \A i \in DOMAIN meta.ids : meta.ids[i] \in Chunks /\ files[meta.ids[i]] \in Response
  BY <1>1, LenProperties, ElementOfSeq DEF TypeOK
<1>4. \A i \in DOMAIN meta.ids : files[meta.ids[i]].from \in Pos /\ files[meta.ids[i]].to \in Pos
  BY <1>3, ResponseFacts
<1>. QED
  BY <1>2, <1>4, Constants DEF SyncToken, NextSyncToken, ToSet

\* handleBackgroundSyncCacheIfRequired takes the valid responses if they start at its
\* token, and otherwise all of them as outdated.
LEMMA HandleCacheFacts ==
  ASSUME TypeOK, NEW token \in 0..pos, NEW msgs \in SUBSET MsgPos, HandleCache(token, msgs)
  PROVE  /\ app' \in App /\ app'.token = token /\ app'.msgs = msgs
         /\ app'.stage = "outdated" \/ (app'.stage = "running" /\ app'.ids = <<>>)
         /\ \/ app'.ids = <<>> /\ app'.outdated = meta.outdated \o meta.ids
            \/ /\ meta.ids # <<>> /\ token # 0 /\ files[Head(meta.ids)].from = token
               /\ app'.ids = meta.ids /\ app'.outdated = meta.outdated
         /\ app'.meta = NoMetaData /\ ~app'.truncated
<1>. DEFINE valid == token # 0 /\ SyncToken = token
            outdated == meta.outdated \o (IF valid THEN <<>> ELSE meta.ids)
            ids == IF valid THEN meta.ids ELSE <<>>
            read == [stage |-> "outdated", token |-> token, msgs |-> msgs, outdated |-> outdated, ids |-> ids,
                     meta |-> NoMetaData, truncated |-> FALSE]
<1>1. app' = IF outdated = <<>> /\ ids = <<>> THEN [read EXCEPT !.stage = "running"] ELSE read
  BY DEF HandleCache
<1>2. /\ meta.ids \in Seq(Chunks) /\ meta.outdated \in Seq(Chunks) /\ <<>> \in Seq(Chunks)
      /\ token \in Pos
  BY MetaFacts, Constants, EmptySeq DEF TypeOK
<1>3. outdated = IF valid THEN meta.outdated ELSE meta.outdated \o meta.ids
  BY <1>2, ConcatEmptySeq
<1>4. outdated \in Seq(Chunks) /\ ids \in Seq(Chunks)
  BY <1>2, <1>3, ConcatFacts
<1>5. valid => meta.ids # <<>> /\ token # 0 /\ files[Head(meta.ids)].from = token
  BY TokenFacts
<1>. HIDE DEF outdated, ids, valid
<1>6. /\ app' \in App /\ app'.token = token /\ app'.msgs = msgs /\ app'.ids = ids /\ app'.outdated = outdated
      /\ app'.stage = "outdated" \/ (app'.stage = "running" /\ ids = <<>>)
      /\ app'.meta = NoMetaData /\ ~app'.truncated
  <2>1. read \in App
    BY <1>2, <1>4, NoMetaDataFacts DEF App
  <2>2. CASE app' = read
    <3>1. /\ app'.stage = "outdated" /\ app'.token = token /\ app'.msgs = msgs /\ app'.ids = ids
          /\ app'.outdated = outdated /\ app'.meta = NoMetaData /\ ~app'.truncated
      BY <2>2
    <3>2. app' \in App
      BY <2>1, <2>2, Zenon
    <3>. QED
      BY <3>1, <3>2
  <2>3. CASE app' = [read EXCEPT !.stage = "running"] /\ ids = <<>>
    <3>1. app' = [stage |-> "running", token |-> token, msgs |-> msgs, outdated |-> outdated,
                  ids |-> ids, meta |-> NoMetaData, truncated |-> FALSE]
      BY <2>3
    <3>. QED
      BY <1>2, <1>4, <2>3, <3>1, NoMetaDataFacts DEF App
  <2>. QED
    BY <1>1, <2>2, <2>3
<1>. QED
  BY <1>3, <1>5, <1>6 DEF ids

\* launchBackgroundSync goes on from what is cached, or from the session's token.
LEMMA LaunchFacts ==
  ASSUME TypeInv, LaunchBackgroundSync
  PROVE  \/ /\ bg' = [Off EXCEPT !.stage = "idle", !.token = bg.token]
            /\ acked' = acked
         \/ \E from \in 1..pos :
              /\ from = NextSyncToken \/ (NextSyncToken = 0 /\ from = bg.token)
              /\ bg' = [bg EXCEPT !.stage = "sync", !.from = from, !.response = NoResponse]
              /\ acked' = Acknowledged(from)
<1>. DEFINE from == IF NextSyncToken # 0 THEN NextSyncToken ELSE bg.token
<1>1. pos \in Nat /\ bg.token \in 0..pos /\ NextSyncToken \in 0..pos
  <2>1. pos \in Pos /\ bg.token \in Pos /\ bg.token <= pos
    BY DEF TypeInv, TypeOK, Bounded, Service
  <2>2. meta.ids # <<>> => Last(meta.ids) \in Chunks /\ NextSyncToken = files[Last(meta.ids)].to
    BY TokenFacts, MetaFacts DEF TypeInv, TypeOK
  <2>3. NextSyncToken \in Pos /\ NextSyncToken <= pos
    BY <2>1, <2>2, TokenFacts, Constants DEF TypeInv, Bounded
  <2>. QED
    BY <2>1, <2>3, Constants
<1>2. CASE from = 0
  BY <1>2 DEF LaunchBackgroundSync, Done
<1>3. CASE from # 0
  <2>1. /\ bg' = [bg EXCEPT !.stage = "sync", !.from = from, !.response = NoResponse]
        /\ acked' = Acknowledged(from)
    BY <1>3 DEF LaunchBackgroundSync
  <2>2. from \in 1..pos /\ (from = NextSyncToken \/ (NextSyncToken = 0 /\ from = bg.token))
    <3>1. from = NextSyncToken \/ (NextSyncToken = 0 /\ from = bg.token)
      OBVIOUS
    <3>2. from \in 0..pos
      BY <1>1
    <3>. HIDE DEF from
    <3>. QED
      BY <1>1, <1>3, <3>1, <3>2
  <2>. QED
    BY <2>1, <2>2
<1>. QED
  BY <1>2, <1>3

\* Neither process has anything in memory when it does not run, or waits.
LEMMA ReplacedFacts ==
  /\ Down \in App /\ Down.token = 0 /\ Down.ids = <<>> /\ Down.stage = "down" /\ Down.msgs = {}
  /\ Down.meta = NoMetaData /\ ~Down.truncated
  /\ Off \in Service /\ Off.token = 0 /\ Off.from = 0 /\ Off.content = NoResponse /\ Off.stage = "off" /\ ~Off.fresh
  /\ ~Off.truncated
  /\ \A token \in Pos : LET idle == [Off EXCEPT !.stage = "idle", !.token = token]
                        IN  /\ idle \in Service /\ idle.token = token /\ idle.from = 0
                            /\ idle.content = NoResponse /\ idle.stage = "idle" /\ ~idle.fresh
                            /\ ~idle.truncated
<1>1. /\ Down \in App /\ Down.token = 0 /\ Down.ids = <<>> /\ Down.stage = "down" /\ Down.msgs = {}
      /\ Down.meta = NoMetaData /\ ~Down.truncated
  BY Constants, EmptySeq, NoMetaDataFacts DEF Down, App
<1>2. ASSUME NEW token \in Pos, NEW stage \in {"off", "idle"}
      PROVE  [stage |-> stage, event |-> 0, allowSync |-> FALSE, token |-> token, from |-> 0,
              response |-> NoResponse, chunk |-> None, fresh |-> FALSE, content |-> NoResponse,
              meta |-> NoMetaData, truncated |-> FALSE] \in Service
  BY Constants, NoResponseFacts, NoMetaDataFacts DEF Service
<1>3. 0 \in Pos
  BY Constants
<1>4. /\ Off \in Service /\ Off.token = 0 /\ Off.from = 0 /\ Off.content = NoResponse /\ Off.stage = "off"
      /\ ~Off.fresh /\ ~Off.truncated
  BY <1>2, <1>3 DEF Off
<1>5. ASSUME NEW token \in Pos
      PROVE  LET idle == [Off EXCEPT !.stage = "idle", !.token = token]
             IN  /\ idle \in Service /\ idle.token = token /\ idle.from = 0
                 /\ idle.content = NoResponse /\ idle.stage = "idle" /\ ~idle.fresh
                 /\ ~idle.truncated
  BY <1>4 DEF Service
<1>. QED
  BY <1>1, <1>4, <1>5

LEMMA TypeInit == Init => TypeInv
<1>. SUFFICES ASSUME Init
              PROVE  TypeInv
  OBVIOUS
<1>1. TypeOK
  <2>1. NoMetaData.ids \o NoMetaData.outdated = <<>> /\ IsInjective(<<>>)
    BY NoMetaDataFacts, EmptySeq, ConcatEmptySeq DEF IsInjective
  <2>. QED
    <3>1. pos \in Pos /\ pushed \in 0..pos /\ acked \in 0..pos /\ kills \in 0..MaxKills
          /\ raced \in BOOLEAN /\ torn \in BOOLEAN /\ undone \in BOOLEAN
      <4>1. pos = 1 /\ pushed = 1 /\ acked = 0 /\ kills = 0
            /\ raced = FALSE /\ torn = FALSE /\ undone = FALSE
        BY DEF Init
      <4>2. 1 \in Pos /\ 1 \in 0..1 /\ 0 \in 0..1 /\ 0 \in 0..MaxKills
        BY Constants
      <4>. QED
        BY <4>1, <4>2
    <3>2. app \in App /\ bg \in Service
      BY ReplacedFacts, Constants DEF Init
    <3>3. disk \in Timeline
      BY Constants DEF Init, Timeline
    <3>4. files \in [Chunks -> Response] /\ meta \in MetaData
      BY NoResponseFacts, NoMetaDataFacts DEF Init
    <3>5. appKeys \subseteq KeyPos /\ bgKeys \subseteq KeyPos /\ copy \subseteq KeyPos
      BY DEF Init
    <3>6. IsInjective(meta.ids \o meta.outdated)
      BY <2>1 DEF Init
    <3>. QED
      BY <3>1, <3>2, <3>3, <3>4, <3>5, <3>6 DEF TypeOK
<1>2. Bounded
  BY Constants, NoResponseFacts DEF Init, Bounded, Down, Off
<1>3. Unlisted
  BY DEF Init, Unlisted, Off
<1>4. Deleting
  BY ReplacedFacts, NoMetaDataFacts DEF Init, Deleting
<1>. QED
  BY <1>1, <1>2, <1>3, <1>4 DEF TypeInv

\* What the types say, field by field.
LEMMA Fields ==
  ASSUME TypeInv
  PROVE  /\ pos \in Pos /\ pos \in Nat /\ acked \in 0..pos /\ pushed \in 0..pos
         /\ meta \in MetaData /\ ListsOnce(meta) /\ meta.ids \in Seq(Chunks) /\ meta.outdated \in Seq(Chunks)
         /\ ListedIn(meta) \subseteq Chunks
         /\ \A c \in Chunks : /\ files[c] \in Response /\ files[c].from \in Pos
                              /\ files[c].to \in 0..pos /\ files[c].keys \subseteq KeyPos
         /\ app.token \in 0..pos /\ disk.token \in 0..pos
         /\ app.ids \in Seq(Chunks) /\ app.outdated \in Seq(Chunks)
         /\ app.msgs \in SUBSET MsgPos /\ disk.msgs \in SUBSET MsgPos
         /\ appKeys \subseteq KeyPos
         /\ bg.token \in 0..pos /\ bg.from \in 0..pos
         /\ bg.content \in Response /\ bg.content.to \in 0..pos
         /\ bg.response \in Response /\ bg.response.keys \subseteq KeyPos
         /\ bg.meta \in MetaData /\ bg.meta.ids \in Seq(Chunks) /\ bg.meta.outdated \in Seq(Chunks)
         /\ app.meta \in MetaData /\ app.meta.ids \in Seq(Chunks) /\ app.meta.outdated \in Seq(Chunks)
         /\ ListsOnce(app.meta)
<1>1. /\ pos \in Pos /\ acked \in 0..pos /\ pushed \in 0..pos /\ files \in [Chunks -> Response]
      /\ meta \in MetaData /\ app \in App /\ disk \in Timeline /\ appKeys \subseteq KeyPos /\ bg \in Service
  BY DEF TypeInv, TypeOK
<1>2. pos \in Nat
  BY <1>1, Constants
<1>3. ListsOnce(meta) /\ meta.ids \in Seq(Chunks) /\ meta.outdated \in Seq(Chunks) /\ ListedIn(meta) \subseteq Chunks
  BY <1>1, MetaFacts DEF TypeInv, TypeOK
<1>4. /\ app.token \in Pos /\ disk.token \in Pos /\ app.ids \in Seq(Chunks) /\ app.outdated \in Seq(Chunks)
      /\ app.msgs \in SUBSET MsgPos /\ disk.msgs \in SUBSET MsgPos /\ app.meta \in MetaData
  BY <1>1 DEF App, Timeline
<1>5. /\ bg.token \in Pos /\ bg.from \in Pos /\ bg.content \in Response /\ bg.response \in Response
      /\ bg.meta \in MetaData
  BY <1>1 DEF Service
<1>6. /\ bg.meta.ids \in Seq(Chunks) /\ bg.meta.outdated \in Seq(Chunks)
      /\ app.meta.ids \in Seq(Chunks) /\ app.meta.outdated \in Seq(Chunks)
  BY <1>4, <1>5, MetaFacts
<1>7. /\ bg.content.to \in Pos /\ bg.response.keys \subseteq KeyPos
      /\ \A c \in Chunks : /\ files[c] \in Response /\ files[c].from \in Pos /\ files[c].to \in Pos
                           /\ files[c].keys \subseteq KeyPos
  BY <1>1, <1>5, ResponseFacts
<1>8. /\ disk.token \in 0..pos /\ app.token \in 0..pos /\ bg.token \in 0..pos /\ bg.from \in 0..pos
      /\ bg.content.to \in 0..pos /\ \A c \in Chunks : files[c].to \in 0..pos
  BY <1>2, <1>4, <1>5, <1>7, Constants DEF TypeInv, Bounded
<1>9. ListsOnce(app.meta)
  BY DEF TypeInv, Deleting
<1>. QED
  BY <1>1, <1>2, <1>3, <1>4, <1>5, <1>6, <1>7, <1>8, <1>9

LEMMA Lists ==
  ASSUME TypeInv
  PROVE  /\ meta.ids \in Seq(Chunks) /\ meta.outdated \in Seq(Chunks)
         /\ app.ids \in Seq(Chunks) /\ app.outdated \in Seq(Chunks)
         /\ bg.meta.ids \in Seq(Chunks) /\ bg.meta.outdated \in Seq(Chunks)
         /\ app.meta.ids \in Seq(Chunks) /\ app.meta.outdated \in Seq(Chunks)
BY Fields

LEMMA Numbers ==
  ASSUME TypeInv
  PROVE  /\ pos \in Pos /\ pos \in Nat /\ 0 \in 0..pos
         /\ acked \in 0..pos /\ pushed \in 0..pos /\ app.token \in 0..pos /\ disk.token \in 0..pos
         /\ bg.token \in 0..pos /\ bg.from \in 0..pos /\ bg.content.to \in 0..pos
         /\ NoResponse.to \in 0..pos
<1>1. 0 \in 0..pos /\ NoResponse.to \in 0..pos
  <2>1. pos \in Nat
    BY Fields
  <2>. QED
    BY <2>1, NoResponseFacts
<1>. QED
  BY <1>1, Fields

\* A step of the application that leaves the cache alone.
LEMMA TypeOfApp ==
  ASSUME TypeInv, UNCHANGED <<pos, pushed, cache, service>>, acked' \in 0..pos,
         app' \in App, app'.token \in 0..pos, ToSet(app'.ids) \subseteq ToSet(app.ids) \cup ListedIn(meta),
         disk' \in Timeline, disk'.token \in 0..pos, appKeys' \subseteq KeyPos,
         app'.meta \in {app.meta, meta, NoMetaData}, app'.truncated => app'.stage = "unlist",
         app'.stage \in {"removed", "unlist"} => app'.ids # <<>>,
         raced' \in BOOLEAN, torn' \in BOOLEAN, undone' \in BOOLEAN, kills' \in 0..MaxKills
  PROVE  TypeInv'
<1>1. TypeOK'
  BY DEF TypeInv, TypeOK, cache, service
<1>2. Bounded'
  <2>1. \A n \in 0..pos : n <= pos
    BY Numbers
  <2>2. app'.token <= pos /\ disk'.token <= pos
    BY <2>1
  <2>. QED
    BY <2>2 DEF TypeInv, Bounded, cache, service
<1>3. ListsOnce(NoMetaData) /\ ListedIn(NoMetaData) = {}
  BY NoMetaDataFacts
<1>4. Unlisted'
  <2>1. files' = files /\ meta' = meta /\ bg' = bg
    BY DEF cache, service
  <2>2. ListedIn(app'.meta) \subseteq ListedIn(app.meta) \cup ListedIn(meta)
    BY <1>3
  <2>. QED
    BY <2>1, <2>2 DEF TypeInv, Unlisted
<1>5. Deleting'
  <2>1. ListsOnce(app'.meta)
    BY <1>3, Fields
  <2>. QED
    BY <2>1 DEF Deleting
<1>. QED
  BY <1>1, <1>2, <1>4, <1>5 DEF TypeInv

\* A step of the service that leaves the cache alone, and does not get ready to write a response.
LEMMA TypeOfService ==
  ASSUME TypeInv, UNCHANGED <<pos, cache, app, disk, appKeys>>, acked' \in 0..pos, pushed' \in 0..pos,
         bg' \in Service, bg'.token \in 0..pos, bg'.from \in 0..pos, bg'.content.to \in 0..pos,
         ~bg'.fresh, bg'.stage \notin {"write", "register"}, bg'.stage = "mark" => bg'.meta = meta,
         ~bg'.truncated, bgKeys' \subseteq KeyPos, copy' \subseteq KeyPos,
         raced' \in BOOLEAN, torn' \in BOOLEAN, undone' \in BOOLEAN, kills' \in 0..MaxKills
  PROVE  TypeInv'
<1>1. TypeOK'
  BY DEF TypeInv, TypeOK, cache
<1>2. Bounded'
  <2>1. \A n \in 0..pos : n <= pos
    BY Fields
  <2>2. bg'.token <= pos /\ bg'.from <= pos /\ bg'.content.to <= pos
    BY <2>1
  <2>. QED
    BY <2>2 DEF TypeInv, Bounded, cache
<1>3. Unlisted'
  BY Fields DEF Unlisted
<1>4. Deleting'
  BY DEF TypeInv, Deleting
<1>. QED
  BY <1>1, <1>2, <1>3, <1>4 DEF TypeInv

\* The service goes back to wait, or launches a sync.
LEMMA TypeOfDone ==
  ASSUME TypeInv, Done
  PROVE  /\ bg' \in Service /\ ~bg'.fresh /\ bg'.stage = "idle"
         /\ bg'.token = bg.token /\ bg'.from = 0 /\ bg'.content = NoResponse /\ bg'.content.to = 0
         /\ ~bg'.truncated
<1>1. bg.token \in Pos
  BY DEF TypeInv, TypeOK, Service
<1>. QED
  BY <1>1, ReplacedFacts, NoResponseFacts DEF Done

LEMMA TypeOfLaunch ==
  ASSUME TypeInv, LaunchBackgroundSync, bg.stage \in {"look", "feed"}
  PROVE  /\ bg' \in Service /\ acked' \in 0..pos /\ ~bg'.fresh /\ bg'.stage \in {"idle", "sync"}
         /\ bg'.token = bg.token /\ bg'.from \in 0..pos /\ bg'.content.to \in 0..pos
         /\ ~bg'.truncated
<1>. DEFINE Goal == /\ bg' \in Service /\ acked' \in 0..pos /\ ~bg'.fresh /\ bg'.stage \in {"idle", "sync"}
                    /\ bg'.token = bg.token /\ bg'.from \in 0..pos /\ bg'.content.to \in 0..pos
                    /\ ~bg'.truncated
<1>1. CASE bg' = [Off EXCEPT !.stage = "idle", !.token = bg.token] /\ acked' = acked
  <2>1. 0 \in 0..pos /\ acked' \in 0..pos
    BY <1>1, Fields
  <2>. QED
    BY <1>1, <2>1, TypeOfDone DEF Done
<1>2. ASSUME NEW from \in 1..pos, acked' = Acknowledged(from),
             bg' = [bg EXCEPT !.stage = "sync", !.from = from, !.response = NoResponse]
      PROVE  Goal
  <2>1. from \in Pos /\ from \in 0..pos
    BY Numbers, Constants
  <2>2. acked' \in 0..pos
    BY <1>2, <2>1, AnswerFacts DEF TypeInv
  <2>3. ~bg.fresh /\ ~bg.truncated
    BY DEF TypeInv, Unlisted
  <2>4. bg' \in Service
    BY <1>2, <2>1, NoResponseFacts DEF TypeInv, TypeOK, Service
  <2>5. /\ ~bg'.fresh /\ bg'.stage = "sync" /\ bg'.token = bg.token /\ bg'.from = from /\ bg'.content = bg.content
        /\ ~bg'.truncated
    BY <1>2, <2>3 DEF TypeInv, TypeOK, Service
  <2>. QED
    BY <2>1, <2>2, <2>4, <2>5, Fields
<1>. QED
  BY <1>1, <1>2, LaunchFacts

LEMMA TypeStep ==
  ASSUME TypeInv, [Next]_vars
  PROVE  TypeInv'
<1>. USE DEF TypeInv
<1>1. CASE ServerEvent
  <2>1. /\ pos' = pos + 1 /\ pos' \in Pos /\ \A n \in 0..pos : n \in 0..pos'
        /\ UNCHANGED <<pushed, acked, cache, app, disk, appKeys, service, raced, torn, undone, kills>>
    BY <1>1, Numbers, Constants DEF ServerEvent
  <2>2. TypeOK'
    BY <2>1, Fields DEF TypeOK, cache, service
  <2>3. Bounded'
    <3>1. \A n \in 0..pos : n <= pos'
      BY <2>1, Fields
    <3>. QED
      BY <2>1, <3>1, Fields DEF Bounded, cache, service
  <2>4. Unlisted' /\ Deleting'
    BY <2>1 DEF Unlisted, Deleting, cache, service
  <2>. QED
    BY <2>2, <2>3, <2>4
<1>2. CASE AppPause
  <2>1. /\ app' \in App /\ app'.token = app.token /\ app'.ids = app.ids
        /\ app'.stage = "paused" /\ app'.meta = app.meta /\ ~app'.truncated
    BY <1>2 DEF AppPause, TypeOK, Deleting, App
  <2>. QED
    BY <1>2, <2>1, TypeOfApp, Numbers DEF AppPause, server, service, TypeOK
<1>3. CASE HandleOutdated
  <2>1. /\ app' \in App /\ app'.token = app.token /\ app'.ids = app.ids
        /\ app'.stage = "valid" /\ app'.meta = app.meta /\ ~app'.truncated
    BY <1>3, EmptySeq DEF HandleOutdated, TypeOK, Deleting, App
  <2>2. MergedAll(app.outdated).keys \subseteq KeyPos
    BY Fields, MergedAllFacts, ResponseFacts
  <2>. QED
    BY <1>3, <2>1, <2>2, TypeOfApp, Numbers DEF HandleOutdated, server, service, TypeOK
<1>4. CASE StartDelete
  <2>1. meta.outdated \o meta.ids \in Seq(Chunks) /\ ToSet(meta.outdated \o meta.ids) = ListedIn(meta)
    BY Lists, ConcatFacts DEF ListedIn
  <2>2. /\ app' \in App /\ app'.token = app.token /\ app'.ids = meta.outdated \o meta.ids
        /\ app'.stage = "delete" /\ app'.meta = app.meta /\ ~app'.truncated
    BY <1>4, <2>1 DEF StartDelete, TypeOK, Deleting, App
  <2>. QED
    BY <1>4, <2>1, <2>2, TypeOfApp, Numbers DEF StartDelete, server, service, TypeOK
<1>5. CASE AppLongPoll
  BY <1>5, TypeOfApp, Numbers DEF AppLongPoll, service, TypeOK, Deleting
<1>6. CASE Commit
  <2>1. disk' \in Timeline /\ disk'.token = app.token
    BY <1>6 DEF Commit, TypeOK, App, Timeline
  <2>. QED
    BY <1>6, <2>1, TypeOfApp, Numbers DEF Commit, server, service, TypeOK, Deleting
<1>7. CASE AppKilled
  <2>1. /\ app' \in App /\ app'.token = 0 /\ ToSet(app'.ids) = {}
        /\ app'.stage = "down" /\ app'.meta = NoMetaData /\ ~app'.truncated
    <3>1. /\ app' \in App /\ app'.token = 0 /\ app'.ids = <<>>
          /\ app'.stage = "down" /\ app'.meta = NoMetaData /\ ~app'.truncated
      BY <1>7, ReplacedFacts DEF AppKilled
    <3>. QED
      BY <3>1 DEF ToSet
  <2>2. kills' \in 0..MaxKills
    BY <1>7, Constants DEF AppKilled, TypeOK
  <2>. QED
    <3>1. ToSet(app'.ids) \subseteq ToSet(app.ids) \cup ListedIn(meta)
      BY <2>1
    <3>. QED
      <4>1. /\ UNCHANGED <<pos, pushed, acked, cache, service, disk, appKeys, raced, torn, undone>>
        BY <1>7 DEF AppKilled, server
      <4>2. app'.token \in 0..pos
        BY <2>1, Fields
      <4>. QED
        BY <2>1, <2>2, <3>1, <4>1, <4>2, TypeOfApp, Numbers DEF TypeOK
<1>8. CASE ClearCache
  <2>1. disk' \in Timeline /\ disk'.token = 0
    BY <1>8, Constants DEF ClearCache, Timeline
  <2>2. kills' \in 0..MaxKills
    BY <1>8, Constants DEF ClearCache, TypeOK
  <2>. QED
    BY <1>8, <2>1, <2>2, TypeOfApp, Numbers DEF ClearCache, server, service, TypeOK, Deleting
<1>9. CASE ServiceStart
  <2>1. disk.token \in Pos
    BY DEF TypeOK, Timeline
  <2>2. /\ bg' \in Service /\ bg'.token = disk.token /\ bg'.from = 0 /\ bg'.content = NoResponse
        /\ bg'.stage = "idle" /\ ~bg'.fresh /\ ~bg'.truncated
    BY <1>9, <2>1, ReplacedFacts DEF ServiceStart
  <2>3. bgKeys' \subseteq KeyPos
    BY <1>9 DEF ServiceStart, TypeOK
  <2>. QED
    BY <1>9, <2>2, <2>3, TypeOfService, Numbers DEF ServiceStart, server, TypeOK
<1>10. CASE ServiceEnds
  <2>1. /\ bg' \in Service /\ ~bg'.fresh /\ bg'.stage = "off" /\ bg'.token = 0 /\ bg'.from = 0
        /\ bg'.content.to = 0 /\ ~bg'.truncated
    BY <1>10, ReplacedFacts, NoResponseFacts DEF ServiceEnds
  <2>. QED
    BY <1>10, <2>1, TypeOfService, Numbers DEF ServiceEnds, server, TypeOK
<1>11. CASE ServiceKilled
  <2>1. kills' \in 0..MaxKills /\ torn' \in BOOLEAN
    <3>1. bg.truncated \in BOOLEAN
      BY DEF TypeOK, Service
    <3>. QED
      BY <1>11, <3>1, Constants DEF ServiceKilled, TypeOK
  <2>. QED
    <3>1. /\ bg' \in Service /\ ~bg'.fresh /\ bg'.stage = "off" /\ bg'.token = 0 /\ bg'.from = 0
          /\ bg'.content.to = 0 /\ ~bg'.truncated
      BY <1>11, ReplacedFacts, NoResponseFacts DEF ServiceKilled
    <3>. QED
      BY <1>11, <2>1, <3>1, TypeOfService, Numbers DEF ServiceKilled, server, TypeOK
<1>12. CASE MarkOutdated
  <2>. DEFINE all == bg.meta.outdated \o bg.meta.ids
  <2>1. ListsOnce(bg.meta) /\ ~bg.fresh
    BY <1>12 DEF MarkOutdated, Unlisted
  <2>2. all \in Seq(Chunks) /\ IsInjective(all)
    BY <2>1, Lists, ConcatFacts DEF ListsOnce
  <2>. HIDE DEF all
  <2>3. meta' = [ids |-> <<>>, outdated |-> all]
    BY <1>12 DEF MarkOutdated, all
  <2>4. meta' \in MetaData /\ ListsOnce(meta')
    BY <2>2, <2>3, EmptySeq DEF MetaData, ListsOnce, IsInjective, ToSet
  <2>5. bg' \in Service /\ bg'.stage = "look" /\ ~bg'.fresh /\ bg'.token = bg.token /\ bg'.from = bg.from
        /\ bg'.content = bg.content /\ ~bg'.truncated
    BY <1>12, <2>1, NoMetaDataFacts DEF MarkOutdated, TypeOK, Service
  <2>6. TypeOK'
    BY <1>12, <2>4, <2>5, MetaFacts DEF MarkOutdated, ResetIfEmpty, Undoes, TypeOK, server
  <2>7. Bounded'
    BY <1>12, <2>5 DEF MarkOutdated, Bounded, server
  <2>8. Unlisted' /\ Deleting'
    BY <1>12, <2>5 DEF MarkOutdated, Unlisted, Deleting
  <2>. QED
    BY <2>6, <2>7, <2>8
<1>13. CASE Fetched
  BY <1>13, TypeOfDone, TypeOfService, Numbers DEF Fetched, server, TypeOK
<1>14. CASE SyncFails
  BY <1>14, TypeOfDone, TypeOfService, Numbers DEF SyncFails, server, TypeOK
<1>15. CASE WriteResponse
  <2>1. /\ bg.chunk \in Chunks /\ files' = [files EXCEPT ![bg.chunk] = bg.content]
        /\ UNCHANGED <<server, meta, app, disk, appKeys, bgKeys, copy, raced, torn, kills>>
        /\ undone' \in BOOLEAN /\ ~bg.truncated
    BY <1>15 DEF WriteResponse, Unlisted, Undoes, TypeOK
  <2>2. bg' = IF bg.fresh THEN [bg EXCEPT !.stage = "register", !.content = NoResponse, !.meta = meta]
              ELSE [bg EXCEPT !.stage = "feed", !.content = NoResponse, !.chunk = None]
    BY <1>15 DEF WriteResponse
  <2>3. /\ bg' \in Service /\ bg'.fresh = bg.fresh /\ bg'.token = bg.token /\ bg'.from = bg.from
        /\ bg'.content = NoResponse /\ ~bg'.truncated
        /\ \/ bg.fresh /\ bg'.stage = "register" /\ bg'.meta = meta /\ bg'.chunk = bg.chunk
           \/ ~bg.fresh /\ bg'.stage = "feed"
    BY <2>1, <2>2, NoResponseFacts DEF TypeOK, Service
  <2>4. TypeOK'
    BY <2>1, <2>3, Fields DEF TypeOK, server
  <2>5. Bounded'
    BY <2>1, <2>3, Fields, NoResponseFacts DEF Bounded, server, TypeOK
  <2>6. Unlisted' /\ Deleting'
    BY <1>15, <2>1, <2>3, Fields DEF WriteResponse, Unlisted, Deleting
  <2>. QED
    BY <2>4, <2>5, <2>6
<1>16. CASE RegisterResponse
  <2>. DEFINE ids == Append(bg.meta.ids, bg.chunk)
  <2>1. ListsOnce(bg.meta) /\ bg.chunk \in Chunks /\ bg.chunk \notin ListedIn(bg.meta)
    BY <1>16 DEF RegisterResponse, Unlisted
  <2>2. ids \in Seq(Chunks) /\ IsInjective(ids) /\ ToSet(ids) = ToSet(bg.meta.ids) \cup {bg.chunk}
    <3>1. bg.meta.ids \in Seq(Chunks) /\ IsInjective(bg.meta.ids) /\ bg.chunk \notin ToSet(bg.meta.ids)
      BY <2>1, Lists DEF ListsOnce, ListedIn
    <3>. QED
      BY <2>1, <3>1, AppendFacts
  <2>. HIDE DEF ids
  <2>3. meta' = [bg.meta EXCEPT !.ids = ids]
    BY <1>16 DEF RegisterResponse, ids
  <2>4. meta' \in MetaData /\ ListsOnce(meta')
    BY <2>1, <2>2, <2>3, Fields DEF MetaData, ListsOnce, ListedIn
  <2>5. bg' \in Service /\ bg'.stage = "feed" /\ ~bg'.fresh /\ bg'.token = bg.token /\ bg'.from = bg.from
        /\ bg'.content = bg.content /\ ~bg'.truncated
    BY <1>16, NoMetaDataFacts DEF RegisterResponse, TypeOK, Service
  <2>6. TypeOK'
    BY <1>16, <2>4, <2>5, MetaFacts DEF RegisterResponse, Undoes, TypeOK, server
  <2>7. Bounded'
    BY <1>16, <2>5 DEF RegisterResponse, Bounded, server
  <2>8. Unlisted' /\ Deleting'
    BY <1>16, <2>5 DEF RegisterResponse, Unlisted, Deleting
  <2>. QED
    BY <2>6, <2>7, <2>8
<1>17. CASE DeleteMetaData
  <2>1. TypeOK'
    BY <1>17, Fields, Constants, MetaFacts, NoMetaDataFacts DEF DeleteMetaData, TypeOK, server, service, App
  <2>2. Bounded'
    BY <1>17, Fields DEF DeleteMetaData, Bounded, server, service
  <2>3. Unlisted' /\ Deleting'
    BY <1>17, Fields, NoMetaDataFacts DEF DeleteMetaData, Unlisted, Deleting, server, service, TypeOK, App
  <2>. QED
    BY <2>1, <2>2, <2>3
<1>18. CASE RemoveSyncResponse
  <2>1. Head(app.ids) \in Chunks
    BY <1>18, Lists, HeadTailProperties DEF RemoveSyncResponse
  <2>2. /\ files' = [files EXCEPT ![Head(app.ids)] = NoResponse] /\ app.ids # <<>>
        /\ UNCHANGED <<server, meta, disk, appKeys, service, raced, torn, undone, kills>>
        /\ app.stage = "delete" /\ ~app.truncated
    BY <1>18 DEF RemoveSyncResponse, Deleting
  <2>3. /\ app' \in App /\ app'.stage = "removed" /\ app'.token = app.token /\ app'.ids = app.ids
        /\ app'.meta = app.meta /\ ~app'.truncated
    BY <1>18, <2>2 DEF RemoveSyncResponse, TypeOK, App
  <2>4. files' \in [Chunks -> Response] /\ \A c \in Chunks : files'[c] \in {files[c], NoResponse}
    BY <2>2, NoResponseFacts DEF TypeOK
  <2>5. TypeOK'
    BY <2>2, <2>3, <2>4 DEF TypeOK, server, service
  <2>6. Bounded'
    <3>1. NoResponse.to <= pos
      BY Numbers
    <3>2. \A c \in Chunks : files'[c].to <= pos
      BY <2>4, <3>1 DEF Bounded
    <3>. QED
      BY <2>2, <2>3, <3>2 DEF Bounded, server, service
  <2>7. Unlisted' /\ Deleting'
    BY <2>2, <2>3 DEF Unlisted, Deleting, service
  <2>. QED
    BY <2>5, <2>6, <2>7
<1>19. CASE ReadMetaData
  <2>1. app.stage = "removed" /\ ~app.truncated /\ app.ids # <<>>
    BY <1>19 DEF ReadMetaData, Deleting
  <2>2. /\ app' \in App /\ app'.stage = "unlist" /\ app'.token = app.token /\ app'.ids = app.ids
        /\ app'.meta = meta /\ ~app'.truncated
    BY <1>19, <2>1 DEF ReadMetaData, TypeOK, App
  <2>. QED
    BY <1>19, <2>1, <2>2, TypeOfApp, Numbers DEF ReadMetaData, server, service, TypeOK
<1>20. CASE AppTruncates
  <2>1. /\ app' \in App /\ app'.stage = "unlist" /\ app'.token = app.token /\ app'.ids = app.ids
        /\ app'.meta = app.meta /\ app.ids # <<>>
    BY <1>20 DEF AppTruncates, TypeOK, Deleting, App
  <2>2. /\ meta' = NoMetaData /\ undone' \in BOOLEAN
        /\ UNCHANGED <<server, files, disk, appKeys, service, raced, torn, kills>>
    BY <1>20 DEF AppTruncates, Undoes, TypeOK
  <2>3. TypeOK'
    BY <2>1, <2>2, NoMetaDataFacts, MetaFacts DEF TypeOK, server, service
  <2>4. Bounded'
    BY <2>1, <2>2 DEF Bounded, server, service
  <2>5. Unlisted' /\ Deleting'
    BY <2>1, <2>2, NoMetaDataFacts DEF Unlisted, Deleting, service
  <2>. QED
    BY <2>3, <2>4, <2>5
<1>21. CASE DeleteSyncResponseId
  <2>. DEFINE h == Head(app.ids)
              left == [ids |-> RemoveFirst(app.meta.ids, h), outdated |-> RemoveFirst(app.meta.outdated, h)]
  <2>1. app.stage = "unlist" /\ app.ids # <<>>
    BY <1>21 DEF DeleteSyncResponseId, Deleting
  <2>2. Tail(app.ids) \in Seq(Chunks) /\ ToSet(Tail(app.ids)) \subseteq ToSet(app.ids)
    <3>1. /\ Tail(app.ids) \in Seq(Chunks) /\ Len(Tail(app.ids)) = Len(app.ids) - 1
          /\ \A i \in 1..Len(Tail(app.ids)) : Tail(app.ids)[i] = app.ids[i + 1]
      BY <2>1, Lists, HeadTailProperties
    <3>2. \A i \in DOMAIN Tail(app.ids) : i + 1 \in DOMAIN app.ids /\ Tail(app.ids)[i] = app.ids[i + 1]
      BY <2>1, <3>1, Lists, LenProperties
    <3>. QED
      BY <3>1, <3>2 DEF ToSet
  <2>3. left \in MetaData /\ ListsOnce(left) /\ ListedIn(left) = ListedIn(app.meta) \ {h}
    BY Fields, UnlistFacts
  <2>4. /\ meta' = left
        /\ UNCHANGED <<server, files, disk, appKeys, service, raced, torn, undone, kills>>
    BY <1>21 DEF DeleteSyncResponseId
  <2>. HIDE DEF left, h
  <2>5. /\ app' \in App /\ app'.stage = "delete" /\ app'.token = app.token /\ app'.ids = Tail(app.ids)
        /\ app'.meta = NoMetaData /\ ~app'.truncated
    BY <1>21, <2>2, NoMetaDataFacts DEF DeleteSyncResponseId, TypeOK, App
  <2>6. TypeOK'
    BY <2>3, <2>4, <2>5, MetaFacts DEF TypeOK, server, service
  <2>7. Bounded'
    BY <2>4, <2>5 DEF Bounded, server, service
  <2>8. Unlisted' /\ Deleting'
    BY <2>2, <2>3, <2>4, <2>5, NoMetaDataFacts DEF Unlisted, Deleting, service
  <2>. QED
    BY <2>6, <2>7, <2>8
<1>22. CASE ServiceTruncates
  <2>1. /\ bg' \in Service /\ bg'.stage = bg.stage /\ bg'.token = bg.token /\ bg'.from = bg.from
        /\ bg'.content = bg.content /\ bg'.chunk = bg.chunk /\ bg'.fresh = bg.fresh /\ bg'.meta = bg.meta
        /\ bg.stage \in {"mark", "register"}
    BY <1>22 DEF ServiceTruncates, TypeOK, Service
  <2>2. /\ meta' = NoMetaData
        /\ UNCHANGED <<server, files, app, disk, appKeys, bgKeys, copy, raced, torn, undone, kills>>
    BY <1>22 DEF ServiceTruncates
  <2>3. TypeOK'
    BY <2>1, <2>2, NoMetaDataFacts, MetaFacts DEF TypeOK, server
  <2>4. Bounded'
    BY <2>1, <2>2 DEF Bounded, server
  <2>5. Unlisted' /\ Deleting'
    BY <2>1, <2>2, NoMetaDataFacts DEF Unlisted, Deleting
  <2>. QED
    BY <2>3, <2>4, <2>5
<1>23. ASSUME NEW token \in 0..pos, NEW msgs \in SUBSET MsgPos, HandleCache(token, msgs),
              UNCHANGED <<server, cache, disk, appKeys, service, torn, undone, kills>>, raced' \in BOOLEAN
       PROVE  TypeInv'
  <2>1. /\ app' \in App /\ app'.token = token /\ (app'.ids = <<>> \/ app'.ids = meta.ids)
        /\ app'.stage \in {"outdated", "running"} /\ app'.meta = NoMetaData /\ ~app'.truncated
    BY <1>23, HandleCacheFacts
  <2>2. ToSet(app'.ids) \subseteq ListedIn(meta)
    BY <2>1 DEF ListedIn, ToSet
  <2>. QED
    BY <1>23, <2>1, <2>2, TypeOfApp, Numbers DEF server, TypeOK
<1>24. CASE AppStart \/ AppResume
  <2>1. raced' \in BOOLEAN
    BY <1>24 DEF AppStart, AppResume, Races, TypeOK
  <2>. QED
    BY <1>23, <1>24, <2>1, Fields DEF AppStart, AppResume
<1>25. CASE HandleValid
  <2>. DEFINE r == MergedAll(app.ids)
  <2>1. r \in Response /\ r.to \in 0..pos
    <3>1. app.ids \in Seq(Chunks)
      BY Fields
    <3>2. /\ r \in Response
          /\ r = NoResponse \/ \E i \in DOMAIN app.ids : r.to = files[app.ids[i]].to
      BY <3>1, MergedAllFacts
    <3>3. \A i \in DOMAIN app.ids : app.ids[i] \in Chunks
      BY <3>1, LenProperties, ElementOfSeq
    <3>. QED
      <4>1. NoResponse.to \in 0..pos
        BY Numbers
      <4>2. \A c \in Chunks : files[c].to \in 0..pos
        BY Fields
      <4>. QED
        BY <3>2, <3>3, <4>1, <4>2
  <2>. HIDE DEF r
  <2>2. PICK t : /\ t = IF r = NoResponse THEN [token |-> app.token, msgs |-> app.msgs]
                         ELSE Handled([token |-> app.token, msgs |-> app.msgs], r)
                 /\ appKeys' = appKeys \cup r.keys
                 /\ app' = [app EXCEPT !.stage = "handled", !.token = t.token, !.msgs = t.msgs, !.ids = <<>>]
    BY <1>25 DEF HandleValid, r
  <2>3. t.token \in 0..pos /\ t.msgs \subseteq MsgPos
    BY <2>1, <2>2, Fields, ResponseFacts DEF Handled
  <2>4. /\ app' \in App /\ app'.token = t.token /\ ToSet(app'.ids) = {}
        /\ app'.stage = "handled" /\ app'.meta = app.meta /\ ~app'.truncated
    <3>1. t.token \in Pos /\ <<>> \in Seq(Chunks)
      <4>1. t.token \in Pos
        BY <2>3, Numbers, Constants
      <4>. QED
        BY <4>1, EmptySeq
    <3>2. app.stage = "valid"
      BY <1>25 DEF HandleValid
    <3>3. /\ app' \in App /\ app'.token = t.token /\ app'.ids = <<>>
          /\ app'.stage = "handled" /\ app'.meta = app.meta /\ ~app'.truncated
      BY <2>2, <2>3, <3>1, <3>2 DEF TypeOK, Deleting, App
    <3>. QED
      BY <3>3 DEF ToSet
  <2>5. appKeys' \subseteq KeyPos
    BY <2>1, <2>2, Fields, ResponseFacts
  <2>. QED
    BY <1>25, <2>3, <2>4, <2>5, TypeOfApp, Numbers DEF HandleValid, server, service, TypeOK
<1>26. CASE AppSync
  <2>. DEFINE r == Answer(app.token)
              t == Handled([token |-> app.token, msgs |-> app.msgs], r)
  <2>1. r \in Response /\ r.to = pos /\ Acknowledged(app.token) \in 0..pos
    BY Fields, AnswerFacts
  <2>. HIDE DEF r
  <2>2. t.token = pos /\ t.msgs \subseteq MsgPos
    BY <2>1, Fields, ResponseFacts DEF Handled
  <2>. HIDE DEF t
  <2>3. /\ acked' = Acknowledged(app.token) /\ appKeys' = appKeys \cup r.keys
        /\ app' = [app EXCEPT !.token = t.token, !.msgs = t.msgs]
    BY <1>26 DEF AppSync, r, t
  <2>4. /\ app' \in App /\ app'.token = pos /\ app'.ids = app.ids
        /\ app'.stage = "running" /\ app'.meta = app.meta /\ ~app'.truncated
    <3>1. app.stage = "running"
      BY <1>26 DEF AppSync
    <3>. QED
      BY <2>2, <2>3, <3>1, Fields DEF TypeOK, Deleting, App
  <2>5. appKeys' \subseteq KeyPos
    BY <2>1, <2>3, Fields, ResponseFacts
  <2>. QED
    <3>1. /\ UNCHANGED <<pos, pushed, cache, service>> /\ disk' = disk /\ raced' = raced
          /\ torn' = torn /\ undone' = undone /\ kills' = kills /\ acked' \in 0..pos
      BY <1>26, <2>1, <2>3 DEF AppSync, service
    <3>2. ToSet(app'.ids) \subseteq ToSet(app.ids) \cup ListedIn(meta) /\ app'.token \in 0..pos
      BY <2>4, Fields
    <3>. QED
      BY <2>4, <2>5, <3>1, <3>2, TypeOfApp, Numbers DEF TypeOK
<1>27. CASE \E e \in MsgPos : Event(e)
  <2>. PICK e \in MsgPos : Event(e)
    BY <1>27
  <2>1. /\ pushed' = e /\ e \in 0..pos
        /\ UNCHANGED <<pos, acked, cache, app, disk, appKeys, torn, undone, kills>>
        /\ raced' \in BOOLEAN
    BY Fields, Constants DEF Event, ToAnswer, Races, TypeOK
  <2>2. /\ bgKeys' \subseteq KeyPos /\ copy' \subseteq KeyPos
    BY Fields DEF Event, ResetIfEmpty, TypeOK
  <2>3. PICK read : /\ read = [bg EXCEPT !.event = e, !.allowSync = TRUE, !.token = disk.token]
                    /\ \/ bg' = [read EXCEPT !.stage = "mark", !.meta = meta]
                       \/ bg' = [read EXCEPT !.stage = "look"]
    BY DEF Event
  <2>4. bg.stage = "idle" /\ ~bg.fresh /\ ~bg.truncated
    BY DEF Event, Unlisted
  <2>5. e \in MsgPos \cup {0} /\ disk.token \in Pos /\ meta \in MetaData
    BY DEF TypeOK, Timeline
  <2>6. read \in Service /\ read.token = disk.token /\ read.from = bg.from /\ read.content = bg.content
        /\ ~read.fresh /\ ~read.truncated
    BY <2>3, <2>4, <2>5 DEF TypeOK, Service
  <2>7. /\ bg' \in Service /\ bg'.token = disk.token /\ bg'.from = bg.from /\ bg'.content = bg.content
        /\ ~bg'.fresh /\ ~bg'.truncated /\ bg'.stage \in {"mark", "look"}
        /\ bg'.stage = "mark" => bg'.meta = meta
    <3>1. CASE bg' = [read EXCEPT !.stage = "mark", !.meta = meta]
      BY <2>5, <2>6, <3>1 DEF Service
    <3>2. CASE bg' = [read EXCEPT !.stage = "look"]
      BY <2>6, <3>2 DEF Service
    <3>. QED
      BY <2>3, <3>1, <3>2
  <2>. QED
    BY <2>1, <2>2, <2>7, TypeOfService, Numbers DEF TypeOK
<1>28. CASE Look
  <2>1. /\ bg.stage = "look" /\ bgKeys' \subseteq KeyPos /\ copy' \subseteq KeyPos /\ ~bg.fresh
        /\ UNCHANGED <<pos, pushed, cache, app, disk, appKeys, copy, raced, torn, kills>>
        /\ ~bg.truncated /\ undone' \in BOOLEAN
    BY <1>28 DEF Look, TypeOK, Unlisted, Undoes
  <2>2. \/ Done /\ UNCHANGED acked
        \/ LaunchBackgroundSync
        \/ bg' = [bg EXCEPT !.stage = "fetch"] /\ UNCHANGED acked
    BY <1>28 DEF Look, Decrypt
  <2>3. CASE bg' = [bg EXCEPT !.stage = "fetch"] /\ UNCHANGED acked
    <3>1. /\ bg' \in Service /\ ~bg'.fresh /\ ~bg'.truncated /\ bg'.stage = "fetch"
          /\ bg'.token = bg.token /\ bg'.from = bg.from /\ bg'.content = bg.content
      BY <2>1, <2>3 DEF TypeOK, Service
    <3>. QED
      BY <2>1, <2>3, <3>1, TypeOfService, Numbers DEF TypeOK
  <2>4. CASE Done /\ UNCHANGED acked
    BY <2>1, <2>4, TypeOfDone, TypeOfService, Numbers DEF TypeOK
  <2>5. CASE LaunchBackgroundSync
    BY <2>1, <2>5, TypeOfLaunch, TypeOfService, Numbers DEF TypeOK
  <2>. QED
    BY <2>2, <2>3, <2>4, <2>5
<1>29. CASE HandleToDeviceEvents
  <2>1. /\ bg.stage = "feed" /\ bgKeys' = bgKeys \cup bg.response.keys /\ ~bg.fresh
        /\ UNCHANGED <<pos, pushed, cache, app, disk, appKeys, copy, raced, torn, kills>>
        /\ ~bg.truncated /\ undone' \in BOOLEAN
    BY <1>29 DEF HandleToDeviceEvents, Unlisted, Undoes, TypeOK
  <2>2. bgKeys' \subseteq KeyPos /\ copy' \subseteq KeyPos
    BY <2>1, Fields DEF TypeOK
  <2>3. \/ LaunchBackgroundSync
        \/ /\ bg' = [bg EXCEPT !.stage = "look", !.allowSync = FALSE, !.from = 0, !.response = NoResponse]
           /\ UNCHANGED acked
    BY <1>29 DEF HandleToDeviceEvents
  <2>4. CASE bg' = [bg EXCEPT !.stage = "look", !.allowSync = FALSE, !.from = 0, !.response = NoResponse]
             /\ UNCHANGED acked
    <3>0. 0 \in Pos
      BY Constants
    <3>1. /\ bg' \in Service /\ ~bg'.fresh /\ ~bg'.truncated /\ bg'.stage = "look"
          /\ bg'.token = bg.token /\ bg'.from = 0 /\ bg'.content = bg.content
      BY <2>1, <2>4, <3>0, NoResponseFacts DEF TypeOK, Service
    <3>. QED
      BY <2>1, <2>2, <2>4, <3>1, TypeOfService, Numbers DEF TypeOK
  <2>5. CASE LaunchBackgroundSync
    BY <2>1, <2>2, <2>5, TypeOfLaunch, TypeOfService, Numbers DEF TypeOK
  <2>. QED
    BY <2>3, <2>4, <2>5
<1>30. CASE SyncSucceeds
  <2>. DEFINE r == Answer(bg.from)
  <2>1. r \in Response /\ r.to = pos
    BY Fields, AnswerFacts
  <2>. HIDE DEF r
  <2>2. /\ bg.stage = "sync" /\ raced' \in BOOLEAN /\ ~bg.fresh /\ ~bg.truncated
        /\ UNCHANGED <<server, cache, app, disk, appKeys, bgKeys, copy, torn, undone, kills>>
    BY <1>30 DEF SyncSucceeds, Races, TypeOK, Unlisted
  <2>3. PICK c \in Chunks, fresh \in BOOLEAN, content \in Response :
          /\ content.to = pos
          /\ fresh => c \in Free
          /\ bg' = [bg EXCEPT !.stage = "write", !.from = 0, !.response = r,
                              !.chunk = c, !.fresh = fresh, !.content = content]
    <3>1. CASE \E c \in Free : bg' = [[bg EXCEPT !.stage = "write", !.from = 0, !.response = r]
                                        EXCEPT !.chunk = c, !.fresh = TRUE, !.content = r]
      <4>1. PICK c \in Free : bg' = [[bg EXCEPT !.stage = "write", !.from = 0, !.response = r]
                                        EXCEPT !.chunk = c, !.fresh = TRUE, !.content = r]
        BY <3>1
      <4>2. c \in Chunks
        BY DEF Free
      <4>3. bg' = [bg EXCEPT !.stage = "write", !.from = 0, !.response = r,
                             !.chunk = c, !.fresh = TRUE, !.content = r]
        BY <4>1 DEF TypeOK, Service
      <4>. QED
        BY <2>1, <4>2, <4>3
    <3>2. CASE /\ meta.ids # <<>>
               /\ bg' = [[bg EXCEPT !.stage = "write", !.from = 0, !.response = r]
                           EXCEPT !.chunk = Last(meta.ids), !.content = Merged(files[Last(meta.ids)], r)]
      <4>1. Last(meta.ids) \in Chunks /\ files[Last(meta.ids)] \in Response
        BY <3>2, TokenFacts, MetaFacts, Fields
      <4>2. Merged(files[Last(meta.ids)], r) \in Response /\ Merged(files[Last(meta.ids)], r).to = pos
        BY <2>1, <4>1, MergedFacts
      <4>3. bg' = [bg EXCEPT !.stage = "write", !.from = 0, !.response = r,
                             !.chunk = Last(meta.ids), !.fresh = FALSE,
                             !.content = Merged(files[Last(meta.ids)], r)]
        BY <2>2, <3>2 DEF TypeOK, Service
      <4>. QED
        BY <4>1, <4>2, <4>3
    <3>. QED
      BY <1>30, <3>1, <3>2 DEF SyncSucceeds, r
  <2>4. /\ bg' \in Service /\ bg'.stage = "write" /\ bg'.from = 0 /\ bg'.token = bg.token
        /\ bg'.chunk = c /\ bg'.fresh = fresh /\ bg'.content = content /\ ~bg'.truncated
    <3>1. 0 \in Pos
      BY Constants
    <3>. QED
      BY <2>1, <2>2, <2>3, <3>1 DEF TypeOK, Service
  <2>5. TypeOK'
    BY <2>2, <2>4 DEF TypeOK, server, cache
  <2>6. Bounded'
    BY <2>2, <2>3, <2>4, Fields DEF Bounded, server, cache
  <2>7. fresh => c \notin ListedIn(meta) /\ c \notin ListedIn(app.meta) /\ c \notin ToSet(app.ids)
    <3>1. ToSet(Listings) = ((((ToSet(meta.ids) \cup ToSet(meta.outdated)) \cup ToSet(app.outdated))
                                \cup ToSet(app.ids)) \cup ToSet(app.meta.ids)) \cup ToSet(app.meta.outdated)
      <4>. DEFINE a == meta.ids \o meta.outdated
                  b == a \o app.outdated
                  d == b \o app.ids
                  e == d \o app.meta.ids
      <4>1. a \in Seq(Chunks) /\ ToSet(a) = ToSet(meta.ids) \cup ToSet(meta.outdated)
        BY Lists, ConcatFacts
      <4>. HIDE DEF a
      <4>2. b \in Seq(Chunks) /\ ToSet(b) = ToSet(a) \cup ToSet(app.outdated)
        BY <4>1, Lists, ConcatFacts
      <4>. HIDE DEF b
      <4>3. d \in Seq(Chunks) /\ ToSet(d) = ToSet(b) \cup ToSet(app.ids)
        BY <4>2, Lists, ConcatFacts
      <4>. HIDE DEF d
      <4>4. e \in Seq(Chunks) /\ ToSet(e) = ToSet(d) \cup ToSet(app.meta.ids)
        BY <4>3, Lists, ConcatFacts
      <4>. HIDE DEF e
      <4>5. ToSet(e \o app.meta.outdated) = ToSet(e) \cup ToSet(app.meta.outdated)
        BY <4>4, Lists, ConcatFacts
      <4>6. Listings = e \o app.meta.outdated
        BY DEF Listings, a, b, d, e
      <4>. QED
        BY <4>1, <4>2, <4>3, <4>4, <4>5, <4>6
    <3>. QED
      BY <2>3, <3>1 DEF Free, ListedIn
  <2>8. Unlisted' /\ Deleting'
    BY <2>2, <2>4, <2>7 DEF Unlisted, Deleting, cache
  <2>. QED
    BY <2>5, <2>6, <2>8
<1>31. CASE UNCHANGED vars
  BY <1>31 DEF vars, TypeOK, Bounded, Unlisted, Deleting
<1>. QED
  BY <1>1, <1>2, <1>3, <1>4, <1>5, <1>6, <1>7, <1>8, <1>9, <1>10, <1>11, <1>12, <1>13, <1>14, <1>15,
     <1>16, <1>17, <1>18, <1>19, <1>20, <1>21, <1>22, <1>24, <1>25, <1>26, <1>27, <1>28, <1>29,
     <1>30, <1>31
     DEF Next, AppStep, ServiceStep

(***************************************************************************)
(* No key is lost.                                                         *)
(***************************************************************************)
LEMMA ListedFacts ==
  ASSUME TypeInv
  PROVE  /\ Listed = UNION {files[c].keys : c \in Known}
         /\ Keys(meta) = UNION {files[c].keys : c \in ListedIn(meta)} /\ Keys(meta) \subseteq Listed
         /\ Known \subseteq Chunks /\ ListedIn(meta) \subseteq Known
<1>1. ASSUME NEW m \in MetaData
      PROVE  Keys(m) = UNION {files[c].keys : c \in ListedIn(m)} /\ ListedIn(m) \subseteq Chunks
  BY MetaFacts DEF Keys
<1>2. meta \in MetaData /\ app.meta \in MetaData /\ bg.meta \in MetaData
  BY Fields
<1>. QED
  BY <1>1, <1>2 DEF Listed, Known

LEMMA NoneBeforeTheFirst == SafeUpTo(0)
BY Constants DEF SafeUpTo

\* A step of the application that leaves the cache alone.
LEMMA KeysOfApp ==
  ASSUME ~(Handling /\ Writing), Tokens, Written,
         UNCHANGED <<cache, service>>, Safe \subseteq Safe', Known' \subseteq Known,
         SafeUpTo(acked)', SafeUpTo(disk.token)', SafeUpTo(app.token)',
         Handling' => Handling \/ ~Writing,
         HandledSoFar'
  PROVE  KeyInv'
<1>1. Safe \subseteq Safe' /\ files' = files /\ meta' = meta /\ bg' = bg
  BY DEF cache, service
<1>2. Tokens'
  BY <1>1 DEF Tokens, SafeUpTo
<1>3. Written'
  BY <1>1 DEF Written
<1>4. ~(Handling' /\ Writing')
  BY <1>1 DEF Writing
<1>. QED
  BY <1>2, <1>3, <1>4 DEF KeyInv

\* A step of the service that leaves the cache alone, and brings no response.
LEMMA KeysOfService ==
  ASSUME ~(Handling /\ Writing), Tokens, HandledSoFar,
         UNCHANGED <<cache, app, disk, appKeys>>, ~bg.truncated, ~bg'.truncated,
         SafeUpTo(acked'), SafeUpTo(bg'.token), SafeUpTo(bg'.from),
         bg'.stage \notin {"write", "register"},
         bg'.stage = "mark" => bg'.meta = meta /\ ~Handling
  PROVE  KeyInv'
<1>1. /\ files' = files /\ meta' = meta /\ app' = app /\ disk' = disk /\ appKeys' = appKeys
      /\ Safe' = Safe /\ Known' = Known /\ Listed' = Listed
  BY DEF Safe, Listed, Keys, Known, cache
<1>2. Tokens'
  BY <1>1 DEF Tokens, SafeUpTo
<1>3. Written'
  BY <1>1 DEF Written
<1>4. HandledSoFar'
  BY <1>1 DEF HandledSoFar, Reading
<1>5. ~(Handling' /\ Writing')
  BY <1>1 DEF Handling, Writing
<1>. QED
  BY <1>2, <1>3, <1>4, <1>5 DEF KeyInv

\* A step of the service that changes the cache, while the session does not handle it.
LEMMA KeysOfCache ==
  ASSUME ~Handling, Tokens, UNCHANGED <<acked, app, disk, appKeys>>, bg'.token = bg.token, bg'.from = bg.from,
         Safe \subseteq Safe',
         \A c \in Known' : (files'[c] = files[c] /\ SafeUpTo(files[c].to)) \/ SafeUpTo(files[c].to)',
         Written'
  PROVE  KeyInv'
<1>1. \A t : SafeUpTo(t) => \A k \in KeyPos : k <= t => k \in Safe'
  BY DEF SafeUpTo
<1>2. Tokens'
  BY <1>1 DEF Tokens, SafeUpTo
<1>3. ~Handling' /\ HandledSoFar'
  BY DEF Handling, HandledSoFar, Reading
<1>. QED
  BY <1>2, <1>3 DEF KeyInv

LEMMA KeysOfLaunch ==
  ASSUME TypeInv, Tokens, LaunchBackgroundSync
  PROVE  /\ SafeUpTo(acked') /\ SafeUpTo(bg'.token) /\ SafeUpTo(bg'.from)
         /\ bg'.stage \in {"idle", "sync"}
<1>1. CASE bg' = [Off EXCEPT !.stage = "idle", !.token = bg.token] /\ acked' = acked
  <2>1. bg'.token = bg.token /\ bg'.from = 0 /\ bg'.stage = "idle"
    BY <1>1, TypeOfDone DEF Done
  <2>. QED
    BY <1>1, <2>1, NoneBeforeTheFirst DEF Tokens
<1>2. ASSUME NEW from \in 1..pos, acked' = Acknowledged(from),
             from = NextSyncToken \/ (NextSyncToken = 0 /\ from = bg.token),
             bg' = [bg EXCEPT !.stage = "sync", !.from = from, !.response = NoResponse]
      PROVE  /\ SafeUpTo(acked') /\ SafeUpTo(bg'.token) /\ SafeUpTo(bg'.from)
             /\ bg'.stage \in {"idle", "sync"}
  <2>1. bg'.token = bg.token /\ bg'.from = from /\ bg'.stage = "sync"
    BY <1>2 DEF TypeInv, TypeOK, Service
  <2>2. SafeUpTo(from)
    <3>1. CASE from = bg.token
      BY <3>1 DEF Tokens
    <3>2. CASE from = NextSyncToken
      <4>1. meta.ids # <<>> /\ Last(meta.ids) \in ToSet(meta.ids) /\ from = files[Last(meta.ids)].to
        BY <1>2, <3>2, TokenFacts DEF TypeInv
      <4>. QED
        BY <4>1 DEF Tokens, Known, ListedIn
    <3>. QED
      BY <1>2, <3>1, <3>2
  <2>3. acked' \in {from, acked}
    BY <1>2, AnswerFacts, Fields DEF TypeInv
  <2>. QED
    BY <2>1, <2>2, <2>3 DEF Tokens
<1>. QED
  BY <1>1, <1>2, LaunchFacts

LEMMA KeyInit == Init => KeyInv
<1>. SUFFICES ASSUME Init
              PROVE  KeyInv
  OBVIOUS
<1>1. TypeInv
  BY TypeInit
<1>2. ListedIn(meta) = {} /\ Known = {} /\ Listed = {}
  <2>1. meta = NoMetaData /\ ~app.truncated /\ ~bg.truncated
    BY ReplacedFacts DEF Init
  <2>2. Known = {} /\ ListedIn(meta) = {}
    BY <2>1, NoMetaDataFacts DEF Known
  <2>. QED
    BY <1>1, <2>2, ListedFacts
<1>3. ~Handling /\ ~Writing /\ ~Reading
  BY DEF Init, Handling, Writing, Reading, Down, Off
<1>4. SafeUpTo(1)
  BY Constants DEF SafeUpTo, Safe, Init
<1>5. Tokens
  BY <1>2, <1>4, NoneBeforeTheFirst DEF Tokens, Init, Down, Off
<1>6. Written /\ HandledSoFar
  BY <1>2, <1>3 DEF Written, HandledSoFar, Init, Off, Down
<1>. QED
  BY <1>3, <1>5, <1>6 DEF KeyInv

\* What has happened has happened.
LEMMA HistoryStep ==
  ASSUME [Next]_vars
  PROVE  (raced => raced') /\ (torn => torn') /\ (undone => undone')
<1>1. CASE AppStart
  BY <1>1, Zenon DEF AppStart, Races
<1>2. CASE AppResume
  BY <1>2, Zenon DEF AppResume, Races
<1>3. CASE AppPause
  BY <1>3, Zenon DEF AppPause
<1>4. CASE AppKilled
  BY <1>4, Zenon DEF AppKilled
<1>5. CASE ClearCache
  BY <1>5, Zenon DEF ClearCache
<1>6. CASE ServerEvent
  BY <1>6, Zenon DEF ServerEvent
<1>7. CASE UNCHANGED vars
  BY <1>7, Zenon DEF vars
<1>8. CASE AppTruncates
  BY <1>8, Zenon DEF AppTruncates, Undoes
<1>9. CASE AppStep /\ ~AppTruncates
  BY <1>9 DEF AppStep, HandleOutdated, HandleValid, StartDelete, RemoveSyncResponse, ReadMetaData,
               DeleteSyncResponseId, DeleteMetaData, AppSync, AppLongPoll, Commit
<1>10. CASE ServiceStart
  BY <1>10, Zenon DEF ServiceStart
<1>11. CASE ServiceEnds
  BY <1>11, Zenon DEF ServiceEnds
<1>12. CASE ServiceKilled
  BY <1>12, Zenon DEF ServiceKilled
<1>13. CASE ServiceTruncates
  BY <1>13, Zenon DEF ServiceTruncates
<1>14. CASE MarkOutdated
  BY <1>14, Zenon DEF MarkOutdated, Undoes
<1>15. CASE Look
  BY <1>15, Zenon DEF Look, Undoes
<1>16. CASE Fetched
  BY <1>16, Zenon DEF Fetched
<1>17. CASE SyncFails
  BY <1>17, Zenon DEF SyncFails
<1>18. CASE WriteResponse
  BY <1>18, Zenon DEF WriteResponse, Undoes
<1>19. CASE RegisterResponse
  BY <1>19, Zenon DEF RegisterResponse, Undoes
<1>20. CASE HandleToDeviceEvents
  BY <1>20, Zenon DEF HandleToDeviceEvents, Undoes
<1>21. CASE SyncSucceeds
  BY <1>21, Zenon DEF SyncSucceeds, Races
<1>22. ASSUME NEW e \in MsgPos, Event(e)
      PROVE  (raced => raced') /\ (torn => torn') /\ (undone => undone')
  BY <1>22, Zenon DEF Event, Races
<1>. QED
  BY <1>1, <1>2, <1>3, <1>4, <1>5, <1>6, <1>7, <1>8, <1>9, <1>10, <1>11, <1>12, <1>13, <1>14, <1>15,
     <1>16, <1>17, <1>18, <1>19, <1>20, <1>21, <1>22 DEF Next, ServiceStep

LEMMA KeyStep ==
  ASSUME TypeInv, TypeInv', KeyInv, [Next]_vars
  PROVE  KeyInv'
<1>1. (raced => raced') /\ (torn => torn')
  BY HistoryStep
<1>. SUFFICES ASSUME ~raced', ~raced, ~torn', ~torn
              PROVE  KeyInv'
  BY <1>1 DEF KeyInv
<1>2. ~(Handling /\ Writing) /\ Tokens /\ Written /\ HandledSoFar
  BY DEF KeyInv
<1>3. /\ \A t : SafeUpTo(t) => (Safe \subseteq Safe' => \A k \in KeyPos : k <= t => k \in Safe')
      /\ Listed = UNION {files[c].keys : c \in Known}
      /\ Listed' = UNION {files'[c].keys : c \in Known'}
  <2>1. TypeInv' => Listed' = UNION {files'[c].keys : c \in Known'}
    <3>1. ASSUME NEW m \in MetaData, NEW f
          PROVE  UNION {f[c].keys : c \in ToSet(m.ids \o m.outdated)} = UNION {f[c].keys : c \in ListedIn(m)}
      BY MetaFacts
    <3>2. TypeInv' => meta' \in MetaData /\ app'.meta \in MetaData /\ bg'.meta \in MetaData
      BY DEF TypeInv, TypeOK, App, Service
    <3>. DEFINE of(A) == UNION {files'[c].keys : c \in A}
    <3>3. TypeInv' => \A m \in {meta', app'.meta, bg'.meta} : of(ToSet(m.ids \o m.outdated)) = of(ListedIn(m))
      BY <3>1, <3>2
    <3>4. \A A, B, C : of((A \cup B) \cup C) = (of(A) \cup of(B)) \cup of(C)
      OBVIOUS
    <3>5. of({}) = {}
      OBVIOUS
    <3>6. Listed' = (of(ToSet(meta'.ids \o meta'.outdated))
             \cup (IF app'.truncated THEN of(ToSet(app'.meta.ids \o app'.meta.outdated)) ELSE {}))
             \cup (IF bg'.truncated THEN of(ToSet(bg'.meta.ids \o bg'.meta.outdated)) ELSE {})
      BY DEF Listed, Keys
    <3>7. Known' = (ListedIn(meta') \cup (IF app'.truncated THEN ListedIn(app'.meta) ELSE {}))
                      \cup (IF bg'.truncated THEN ListedIn(bg'.meta) ELSE {})
      BY DEF Known
    <3>. HIDE DEF of
    <3>8. TypeInv' => Listed' = of(Known')
      BY <3>3, <3>4, <3>5, <3>6, <3>7
    <3>. QED
      BY <3>8 DEF of
  <2>. QED
    BY <2>1, ListedFacts DEF SafeUpTo
<1>4. ASSUME UNCHANGED <<cache, service>>, appKeys \subseteq appKeys',
             app' = app \/ (~app.truncated /\ ~app'.truncated)
      PROVE  /\ Safe \subseteq Safe' /\ Known' = Known /\ Listed' = Listed
             /\ \A t : SafeUpTo(t) => SafeUpTo(t)'
  <2>1. files' = files /\ meta' = meta /\ bg' = bg
    BY <1>4 DEF cache, service
  <2>2. Known' = Known /\ Listed' = Listed
    BY <1>4, <2>1 DEF Known, Listed, Keys
  <2>. QED
    BY <1>4, <2>2 DEF SafeUpTo, Safe
<1>5. SafeUpTo(acked) /\ SafeUpTo(disk.token) /\ SafeUpTo(app.token) /\ SafeUpTo(bg.token) /\ SafeUpTo(bg.from)
  BY <1>2 DEF Tokens
<1>6. ASSUME NEW from \in {app.token, bg.from}
      PROVE  \A k \in KeyPos : k <= pos => k \in Safe \cup Answer(from).keys
  <2>1. from \in 0..pos /\ SafeUpTo(from) /\ SafeUpTo(acked)
    BY <1>5, Fields
  <2>2. \A k \in KeyPos : k <= pos => k <= from \/ k <= acked \/ k \in Answer(from).keys
    BY <2>1, AnswerFacts DEF TypeInv
  <2>. QED
    BY <2>1, <2>2 DEF SafeUpTo
<1>7. CASE ServerEvent \/ UNCHANGED vars
  <2>1. UNCHANGED <<acked, files, meta, app, disk, appKeys, bg, cache, service>>
    BY <1>7 DEF ServerEvent, vars, cache, service
  <2>2. Safe \subseteq Safe' /\ Known' = Known /\ Listed' = Listed
    BY <1>4, <2>1
  <2>3. HandledSoFar' /\ Handling' = Handling
    BY <1>2, <2>1, <2>2 DEF HandledSoFar, Reading, Handling
  <2>. QED
    BY <1>2, <1>4, <1>5, <2>1, <2>2, <2>3, KeysOfApp
<1>8. CASE AppPause
  <2>1. app'.token = app.token /\ app'.stage = "paused" /\ ~app.truncated /\ ~app'.truncated
    BY <1>8 DEF AppPause, TypeInv, TypeOK, Deleting, App
  <2>2. ~Handling' /\ HandledSoFar'
    BY <2>1 DEF Handling, HandledSoFar, Reading
  <2>. QED
    BY <1>2, <1>4, <1>5, <1>8, <2>1, <2>2, KeysOfApp DEF AppPause, server
<1>9. ASSUME NEW token \in {disk.token, app.token}, NEW msgs \in SUBSET MsgPos, HandleCache(token, msgs),
             UNCHANGED <<server, cache, disk, appKeys, service>>, Races(Handling' /\ Writing),
             app.stage \in {"down", "paused"}
      PROVE  KeyInv'
  <2>1. token \in 0..pos /\ SafeUpTo(token)
    BY <1>5, Fields
  <2>2. /\ app'.token = token
        /\ app'.stage = "outdated" \/ (app'.stage = "running" /\ app'.ids = <<>>)
        /\ \/ app'.ids = <<>> /\ app'.outdated = meta.outdated \o meta.ids
           \/ app'.ids = meta.ids /\ app'.outdated = meta.outdated
        /\ ~app.truncated /\ ~app'.truncated
    BY <1>9, <2>1, HandleCacheFacts DEF TypeInv, Deleting
  <2>3. ToSet(meta.outdated \o meta.ids) = ListedIn(meta) /\ ToSet(<<>>) = {}
    <3>1. ToSet(meta.outdated \o meta.ids) = ToSet(meta.outdated) \cup ToSet(meta.ids)
      BY Lists, ConcatFacts
    <3>2. ToSet(<<>>) = {}
      BY DEF ToSet
    <3>. QED
      BY <3>1, <3>2 DEF ListedIn
  <2>4. meta' = meta /\ files' = files
    BY <1>9 DEF cache
  <2>5. HandledSoFar'
    BY <2>2, <2>3, <2>4 DEF HandledSoFar, Reading, ListedIn
  <2>6. ~(Handling' /\ Writing)
    BY <1>9 DEF Races
  <2>. QED
    BY <1>2, <1>4, <1>5, <1>9, <2>1, <2>2, <2>5, <2>6, KeysOfApp DEF server
<1>10. CASE AppStart \/ AppResume
  BY <1>9, <1>10, Fields DEF AppStart, AppResume
<1>11. CASE HandleOutdated
  <2>. DEFINE r == MergedAll(app.outdated)
  <2>1. r.keys = UNION {files[c].keys : c \in ToSet(app.outdated)}
    BY Fields, MergedAllFacts DEF TypeInv
  <2>. HIDE DEF r
  <2>2. /\ app.stage = "outdated" /\ appKeys' = appKeys \cup r.keys
        /\ app'.stage = "valid" /\ app'.token = app.token /\ app'.ids = app.ids
        /\ ~app.truncated /\ ~app'.truncated
        /\ UNCHANGED <<server, cache, disk, service>>
    BY <1>11 DEF HandleOutdated, r, TypeInv, TypeOK, Deleting, App
  <2>3. HandledSoFar'
    <3>1. \A c \in ListedIn(meta) : c \in ToSet(app.outdated) \/ c \in ToSet(app.ids)
      BY <1>2, <2>2 DEF HandledSoFar
    <3>2. \A c \in ListedIn(meta) : c \in ToSet(app.ids) \/ files[c].keys \subseteq appKeys'
      BY <2>1, <2>2, <3>1
    <3>. QED
      BY <1>2, <2>2, <3>2 DEF HandledSoFar, Reading, cache
  <2>4. Handling
    BY <2>2 DEF Handling
  <2>. QED
    BY <1>2, <1>4, <1>5, <2>2, <2>3, <2>4, KeysOfApp DEF server
<1>12. CASE HandleValid
  <2>. DEFINE r == MergedAll(app.ids)
  <2>1. /\ r.keys = UNION {files[c].keys : c \in ToSet(app.ids)}
        /\ r = NoResponse \/ \E c \in ToSet(app.ids) : r.to = files[c].to
    <3>. DEFINE found == {i \in DOMAIN app.ids : Exists(app.ids[i])}
    <3>1. /\ r.keys = UNION {files[c].keys : c \in ToSet(app.ids)}
          /\ found = {} => r = NoResponse
          /\ found # {} => Max(found) \in found /\ r.to = files[app.ids[Max(found)]].to
      BY Fields, MergedAllFacts DEF TypeInv
    <3>2. \A i \in found : app.ids[i] \in ToSet(app.ids)
      BY DEF ToSet
    <3>. HIDE DEF found, r
    <3>. QED
      BY <3>1, <3>2
  <2>. HIDE DEF r
  <2>2. /\ app.stage = "valid" /\ appKeys' = appKeys \cup r.keys
        /\ app'.stage = "handled" /\ app'.token = IF r = NoResponse THEN app.token ELSE r.to
        /\ ~app.truncated /\ ~app'.truncated
        /\ UNCHANGED <<server, cache, disk, service>>
    BY <1>12 DEF HandleValid, r, Handled, TypeInv, TypeOK, Deleting, App
  <2>3. SafeUpTo(app'.token)
    <3>1. CASE r = NoResponse
      BY <1>5, <2>2, <3>1
    <3>2. CASE r # NoResponse
      <4>1. PICK c \in ToSet(app.ids) : r.to = files[c].to
        BY <2>1, <3>2
      <4>2. c \in ListedIn(meta)
        BY <1>2, <2>2 DEF HandledSoFar, Reading
      <4>. QED
        BY <1>2, <2>2, <3>2, <4>1, <4>2 DEF Tokens, Known
    <3>. QED
      BY <3>1, <3>2
  <2>4. HandledSoFar'
    <3>1. \A c \in ListedIn(meta) : files[c].keys \subseteq appKeys'
      BY <1>2, <2>1, <2>2 DEF HandledSoFar
    <3>2. Known = ListedIn(meta)
      BY <1>2, <2>2 DEF Known, Handling, Writing, TypeInv, Unlisted
    <3>3. appKeys \subseteq appKeys'
      BY <2>2
    <3>4. Listed \subseteq appKeys' /\ Listed' = Listed
      BY <1>3, <1>4, <2>2, <3>1, <3>2, <3>3
    <3>. QED
      BY <2>2, <3>4 DEF HandledSoFar, Reading
  <2>5. Handling
    BY <2>2 DEF Handling
  <2>. QED
    BY <1>2, <1>4, <1>5, <2>2, <2>3, <2>4, <2>5, KeysOfApp DEF server
<1>13. CASE StartDelete
  <2>1. /\ app.stage = "handled" /\ app'.stage = "delete" /\ app'.token = app.token
        /\ ~app.truncated /\ ~app'.truncated
        /\ UNCHANGED <<server, cache, disk, appKeys, service>>
    BY <1>13 DEF StartDelete, TypeInv, TypeOK, Deleting, App
  <2>2. HandledSoFar' /\ Handling
    BY <1>2, <1>4, <2>1 DEF HandledSoFar, Reading, Handling
  <2>. QED
    BY <1>2, <1>4, <1>5, <2>1, <2>2, KeysOfApp DEF server
<1>14. ASSUME app.stage \in {"delete", "removed", "unlist"}, app'.stage \in {"delete", "removed", "unlist", "running"},
              app'.token = app.token, UNCHANGED <<server, disk, appKeys, service>>,
              Known' \subseteq Known, \A c \in Known' : files'[c].keys \subseteq files[c].keys /\ files'[c].to <= files[c].to,
              app'.stage = "unlist" => meta' = IF app'.truncated THEN NoMetaData ELSE app'.meta
       PROVE  KeyInv'
  <2>1. ~Writing /\ ~Writing' /\ Listed \subseteq appKeys
    BY <1>2, <1>14 DEF Handling, HandledSoFar, Writing, service
  <2>2. Listed' \subseteq Listed
    BY <1>3, <1>14
  <2>3. Safe \subseteq Safe'
    BY <1>14, <2>1 DEF Safe
  <2>4. Tokens'
    <3>1. bg' = bg /\ acked' = acked /\ disk' = disk /\ app'.token = app.token
      BY <1>14 DEF server, service
    <3>2. \A t : SafeUpTo(t) => SafeUpTo(t)'
      BY <2>3 DEF SafeUpTo
    <3>3. ASSUME NEW c \in Known'
          PROVE  SafeUpTo(files'[c].to)
      <4>1. c \in Known /\ c \in Chunks /\ files'[c].to <= files[c].to /\ SafeUpTo(files[c].to)
        BY <1>2, <1>14, ListedFacts DEF Tokens
      <4>2. files[c].to \in Nat /\ files'[c].to \in Nat /\ KeyPos \subseteq Nat
        <5>1. files[c] \in Response /\ files'[c] \in Response
          BY <4>1 DEF TypeInv, TypeOK
        <5>. QED
          BY <5>1, ResponseFacts, Constants
      <4>. QED
        BY <4>1, <4>2 DEF SafeUpTo
    <3>. QED
      BY <1>5, <2>3, <3>1, <3>2, <3>3 DEF Tokens, SafeUpTo
  <2>5. Written'
    BY <2>1 DEF Written, Writing
  <2>6. HandledSoFar'
    BY <1>14, <2>1, <2>2 DEF HandledSoFar, Reading
  <2>. QED
    BY <2>1, <2>4, <2>5, <2>6 DEF KeyInv
<1>15. CASE RemoveSyncResponse \/ ReadMetaData \/ AppTruncates \/ DeleteSyncResponseId \/ DeleteMetaData
  <2>0. \A c \in Known : /\ files[c].to \in Nat /\ files[c].to <= files[c].to
                          /\ NoResponse.to <= files[c].to /\ NoResponse.keys = {}
    <3>1. \A c \in Chunks : files[c].to \in Nat
      BY Constants, ResponseFacts DEF TypeInv, TypeOK
    <3>2. NoResponse.to = 0 /\ NoResponse.keys = {}
      BY DEF NoResponse
    <3>. QED
      BY <3>1, <3>2, ListedFacts
  <2>1. CASE RemoveSyncResponse
    <3>1. /\ files' = [files EXCEPT ![Head(app.ids)] = NoResponse]
          /\ app.stage = "delete" /\ ~app.truncated
          /\ UNCHANGED <<server, meta, disk, appKeys, service>>
      BY <2>1 DEF RemoveSyncResponse, TypeInv, Deleting
    <3>2. app'.stage = "removed" /\ app'.token = app.token /\ ~app'.truncated
      BY <2>1, <3>1 DEF RemoveSyncResponse, TypeInv, TypeOK, App
    <3>3. Known' = Known
      BY <3>1, <3>2 DEF Known, service
    <3>4. \A c \in Chunks : files'[c] \in {files[c], NoResponse}
      BY <3>1 DEF TypeInv, TypeOK
    <3>5. \A c \in Known : files'[c].keys \subseteq files[c].keys /\ files'[c].to <= files[c].to
      BY <2>0, <3>4, ListedFacts
    <3>. QED
      BY <1>14, <3>1, <3>2, <3>3, <3>5
  <2>2. CASE ReadMetaData
    <3>1. /\ app.stage = "removed" /\ ~app.truncated /\ files' = files /\ meta' = meta
          /\ UNCHANGED <<server, disk, appKeys, service>>
      BY <2>2 DEF ReadMetaData, cache, TypeInv, Deleting
    <3>2. app'.stage = "unlist" /\ app'.token = app.token /\ ~app'.truncated /\ app'.meta = meta
      BY <2>2, <3>1 DEF ReadMetaData, TypeInv, TypeOK, App
    <3>3. Known' = Known
      BY <3>1, <3>2 DEF Known, service
    <3>. QED
      BY <1>14, <2>0, <3>1, <3>2, <3>3
  <2>3. CASE AppTruncates
    <3>1. /\ app.stage = "unlist" /\ ~app.truncated /\ files' = files /\ meta' = NoMetaData
          /\ UNCHANGED <<server, disk, appKeys, service>>
      BY <2>3 DEF AppTruncates
    <3>2. /\ app'.stage = "unlist" /\ app'.token = app.token /\ app'.truncated /\ app'.meta = app.meta
      BY <2>3 DEF AppTruncates, TypeInv, TypeOK, App
    <3>3. meta = app.meta
      BY <1>2, <3>1 DEF HandledSoFar
    <3>4. Known' = Known
      BY <3>1, <3>2, <3>3, NoMetaDataFacts DEF Known, service
    <3>. QED
      BY <1>14, <2>0, <3>1, <3>2, <3>4
  <2>4. CASE DeleteSyncResponseId
    <3>. DEFINE left == [ids |-> RemoveFirst(app.meta.ids, Head(app.ids)),
                         outdated |-> RemoveFirst(app.meta.outdated, Head(app.ids))]
    <3>1. /\ app.stage = "unlist" /\ app.truncated /\ files' = files /\ meta' = left
          /\ UNCHANGED <<server, disk, appKeys, service>>
      BY <2>4 DEF DeleteSyncResponseId, TypeInv, Deleting
    <3>2. app'.stage = "delete" /\ app'.token = app.token /\ ~app'.truncated
      BY <2>4 DEF DeleteSyncResponseId, TypeInv, TypeOK, App
    <3>3. ListedIn(left) \subseteq ListedIn(app.meta)
      <4>1. app.meta \in MetaData /\ ListsOnce(app.meta)
        BY Fields
      <4>2. ListedIn(left) = ListedIn(app.meta) \ {Head(app.ids)}
        BY <4>1, UnlistFacts
      <4>. QED
        BY <4>2
    <3>. HIDE DEF left
    <3>4. Known' \subseteq Known
      BY <3>1, <3>2, <3>3 DEF Known, service
    <3>. QED
      BY <1>14, <2>0, <3>1, <3>2, <3>4
  <2>5. CASE DeleteMetaData
    <3>1. /\ app.stage = "delete" /\ ~app.truncated /\ files' = files /\ meta' = NoMetaData
          /\ UNCHANGED <<server, disk, appKeys, service>>
      BY <2>5 DEF DeleteMetaData, TypeInv, Deleting
    <3>2. app'.stage = "running" /\ app'.token = app.token /\ ~app'.truncated
      BY <2>5, <3>1 DEF DeleteMetaData, TypeInv, TypeOK, App
    <3>3. Known' \subseteq Known
      BY <3>1, <3>2, NoMetaDataFacts DEF Known, service
    <3>. QED
      BY <1>14, <2>0, <3>1, <3>2, <3>3
  <2>. QED
    BY <1>15, <2>1, <2>2, <2>3, <2>4, <2>5
<1>16. CASE ServiceTruncates
  <2>1. /\ bg.stage \in {"mark", "register"} /\ ~bg.truncated /\ ~Handling /\ ~app.truncated /\ meta = bg.meta
        /\ meta' = NoMetaData /\ files' = files /\ UNCHANGED <<server, app, disk, appKeys>>
    BY <1>2, <1>16 DEF ServiceTruncates, Written, Writing, Handling, TypeInv, Deleting
  <2>2. /\ bg'.stage = bg.stage /\ bg'.truncated /\ bg'.meta = bg.meta /\ bg'.chunk = bg.chunk
        /\ bg'.token = bg.token /\ bg'.from = bg.from
    BY <1>16 DEF ServiceTruncates, TypeInv, TypeOK, Service
  <2>3. Known' = Known
    BY <2>1, <2>2, NoMetaDataFacts DEF Known
  <2>4. Safe' = Safe
    BY <1>3, <2>1, <2>3 DEF Safe
  <2>5. Written'
    BY <1>2, <2>1, <2>2, <2>4 DEF Written
  <2>6. \A c \in Known' : files'[c] = files[c] /\ SafeUpTo(files[c].to)
    BY <1>2, <2>1, <2>3 DEF Tokens
  <2>. QED
    BY <1>2, <2>1, <2>2, <2>4, <2>5, <2>6, KeysOfCache DEF server
<1>17. CASE AppSync
  <2>. DEFINE r == Answer(app.token)
  <2>1. r.to = pos /\ acked' \in {app.token, acked}
    BY <1>17, Fields, AnswerFacts DEF AppSync, TypeInv
  <2>2. \A k \in KeyPos : k <= pos => k \in Safe \cup r.keys
    BY <1>6
  <2>. HIDE DEF r
  <2>3. /\ app.stage = "running" /\ appKeys' = appKeys \cup r.keys
        /\ app'.stage = "running" /\ app'.token = r.to
        /\ ~app.truncated /\ ~app'.truncated
        /\ UNCHANGED <<cache, disk, service>>
    BY <1>17 DEF AppSync, Handled, r, TypeInv, TypeOK, Deleting, App
  <2>7. Safe \subseteq Safe' /\ Known' = Known /\ \A t : SafeUpTo(t) => SafeUpTo(t)'
    BY <1>4, <2>3
  <2>4. SafeUpTo(app.token)'
    <3>1. Safe \cup r.keys \subseteq Safe'
      BY <2>3, <2>7 DEF Safe
    <3>. QED
      BY <2>1, <2>2, <2>3, <3>1 DEF SafeUpTo
  <2>5. SafeUpTo(acked)' /\ SafeUpTo(disk.token)'
    <3>1. SafeUpTo(acked')
      BY <1>5, <2>1
    <3>. QED
      BY <1>5, <2>3, <2>7, <3>1
  <2>6. HandledSoFar' /\ ~Handling'
    BY <2>3 DEF HandledSoFar, Reading, Handling
  <2>. QED
    BY <1>2, <2>3, <2>4, <2>5, <2>6, <2>7, KeysOfApp
<1>18. CASE AppLongPoll
  <2>1. acked' = app.token /\ UNCHANGED <<cache, app, disk, appKeys, service>>
    BY <1>18 DEF AppLongPoll
  <2>2. HandledSoFar' /\ Handling' = Handling
    BY <1>2, <1>4, <2>1 DEF HandledSoFar, Reading, Handling, cache
  <2>. QED
    BY <1>2, <1>4, <1>5, <2>1, <2>2, KeysOfApp
<1>19. CASE Commit
  <2>1. disk'.token = app.token /\ UNCHANGED <<server, cache, app, appKeys, service>>
    BY <1>19 DEF Commit
  <2>2. HandledSoFar' /\ Handling' = Handling
    BY <1>2, <1>4, <2>1 DEF HandledSoFar, Reading, Handling, cache
  <2>. QED
    BY <1>2, <1>4, <1>5, <2>1, <2>2, KeysOfApp DEF server
<1>20. CASE AppKilled
  <2>1. /\ app'.token = 0 /\ app'.stage = "down" /\ ~app'.truncated
        /\ UNCHANGED <<server, cache, disk, appKeys, service>>
    BY <1>20 DEF AppKilled, Down
  <2>2. HandledSoFar' /\ ~Handling'
    BY <2>1 DEF HandledSoFar, Reading, Handling
  <2>3. Safe \subseteq Safe' /\ Known' \subseteq Known
    <3>1. CASE ~app.truncated
      BY <1>4, <2>1, <3>1
    <3>2. CASE app.truncated
      <4>1. Listed \subseteq appKeys
        BY <1>2, <3>2 DEF HandledSoFar, TypeInv, Deleting
      <4>2. Known' \subseteq Known
        BY <2>1 DEF Known, cache, service
      <4>. QED
        BY <2>1, <4>1, <4>2 DEF Safe
    <3>. QED
      BY <3>1, <3>2
  <2>4. \A t : SafeUpTo(t) => SafeUpTo(t)'
    BY <2>3 DEF SafeUpTo
  <2>. QED
    BY <1>2, <1>5, <2>1, <2>2, <2>3, <2>4, NoneBeforeTheFirst, KeysOfApp DEF server
<1>21. CASE ClearCache
  <2>1. disk'.token = 0 /\ UNCHANGED <<server, cache, app, appKeys, service>>
    BY <1>21 DEF ClearCache
  <2>2. HandledSoFar' /\ Handling' = Handling
    BY <1>2, <1>4, <2>1 DEF HandledSoFar, Reading, Handling, cache
  <2>. QED
    BY <1>2, <1>4, <1>5, <2>1, <2>2, NoneBeforeTheFirst, KeysOfApp DEF server
<1>22. CASE ServiceStart
  <2>1. disk.token \in Pos
    BY DEF TypeInv, TypeOK, Timeline
  <2>2. /\ bg'.token = disk.token /\ bg'.from = 0 /\ bg'.stage = "idle"
        /\ ~bg.truncated /\ ~bg'.truncated
    BY <1>22, <2>1, ReplacedFacts DEF ServiceStart, TypeInv, Unlisted
  <2>. QED
    BY <1>2, <1>5, <1>22, <2>2, NoneBeforeTheFirst, KeysOfService DEF ServiceStart, server
<1>23. CASE ServiceEnds \/ ServiceKilled
  <2>1. /\ bg'.token = 0 /\ bg'.from = 0 /\ bg'.stage = "off"
        /\ ~bg.truncated /\ ~bg'.truncated
        /\ UNCHANGED <<acked, cache, app, disk, appKeys>>
    BY <1>23, ReplacedFacts DEF ServiceEnds, ServiceKilled, server, TypeInv, Unlisted
  <2>. QED
    BY <1>2, <1>5, <2>1, NoneBeforeTheFirst, KeysOfService
<1>24. CASE \E e \in MsgPos : Event(e)
  <2>. PICK e \in MsgPos : Event(e)
    BY <1>24
  <2>1. /\ bg'.token = disk.token /\ bg'.from = bg.from
        /\ bg'.stage \in {"mark", "look"} /\ (bg'.stage = "mark" => bg'.meta = meta)
        /\ ~bg.truncated /\ ~bg'.truncated
        /\ UNCHANGED <<acked, cache, app, disk, appKeys>>
    <3>1. bg \in Service /\ ~bg.truncated
      BY DEF TypeInv, TypeOK, Unlisted, Event
    <3>2. /\ \/ bg' = [bg EXCEPT !.event = e, !.allowSync = TRUE, !.token = disk.token,
                                 !.stage = "mark", !.meta = meta]
             \/ bg' = [bg EXCEPT !.event = e, !.allowSync = TRUE, !.token = disk.token, !.stage = "look"]
          /\ UNCHANGED <<acked, cache, app, disk, appKeys>>
      BY <3>1 DEF Event, Service
    <3>3. CASE bg' = [bg EXCEPT !.event = e, !.allowSync = TRUE, !.token = disk.token,
                                !.stage = "mark", !.meta = meta]
      BY <3>1, <3>2, <3>3 DEF Service
    <3>4. CASE bg' = [bg EXCEPT !.event = e, !.allowSync = TRUE, !.token = disk.token, !.stage = "look"]
      BY <3>1, <3>2, <3>4 DEF Service
    <3>. QED
      BY <3>2, <3>3, <3>4
  <2>2. bg'.stage = "mark" => ~Handling
    BY DEF Event, Races, Writing
  <2>. QED
    BY <1>2, <1>5, <2>1, <2>2, KeysOfService
<1>25. ASSUME \/ Done
              \/ /\ bg'.from \in {0, bg.from} /\ bg'.token = bg.token /\ bg'.stage \in {"fetch", "look"}
                 /\ ~bg'.truncated,
              UNCHANGED <<acked, cache, app, disk, appKeys>>, ~bg.truncated
       PROVE  KeyInv'
  <2>1. /\ bg'.token = bg.token /\ bg'.from \in {0, bg.from} /\ bg'.stage \in {"idle", "fetch", "look"}
        /\ ~bg'.truncated
    BY <1>25, TypeOfDone
  <2>. QED
    BY <1>2, <1>5, <1>25, <2>1, NoneBeforeTheFirst, KeysOfService
<1>26. CASE Fetched \/ SyncFails
  BY <1>25, <1>26 DEF Fetched, SyncFails, server, TypeInv, Unlisted
<1>27. CASE Look \/ HandleToDeviceEvents
  <2>1. UNCHANGED <<cache, app, disk, appKeys>> /\ ~bg.truncated /\ bg.stage \in {"look", "feed"}
    BY <1>27 DEF Look, HandleToDeviceEvents, TypeInv, Unlisted
  <2>2. CASE LaunchBackgroundSync
    BY <1>2, <2>1, <2>2, TypeOfLaunch, KeysOfLaunch, KeysOfService
  <2>3. CASE ~LaunchBackgroundSync
    <3>1. UNCHANGED acked
      BY <1>27, <2>3 DEF Look, Decrypt, HandleToDeviceEvents
    <3>2. \/ Done
          \/ /\ bg'.from \in {0, bg.from} /\ bg'.token = bg.token /\ bg'.stage \in {"fetch", "look"}
             /\ ~bg'.truncated
      <4>1. bg \in Service /\ ~bg.truncated
        BY <2>1 DEF TypeInv, TypeOK
      <4>2. CASE Look
        BY <2>3, <4>1, <4>2 DEF Look, Decrypt, Service
      <4>3. CASE HandleToDeviceEvents
        BY <2>3, <4>1, <4>3 DEF HandleToDeviceEvents, Service
      <4>. QED
        BY <1>27, <4>2, <4>3
    <3>. QED
      BY <1>25, <2>1, <3>1, <3>2
  <2>. QED
    BY <2>2, <2>3
<1>28. CASE MarkOutdated
  <2>1. /\ bg.stage = "mark" /\ bg.truncated /\ meta = NoMetaData /\ ~Handling
    BY <1>2, <1>28 DEF MarkOutdated, Written, Writing
  <2>2. meta' = [ids |-> <<>>, outdated |-> bg.meta.outdated \o bg.meta.ids]
    BY <1>28 DEF MarkOutdated
  <2>3. ListedIn(meta') = ListedIn(bg.meta)
    <3>1. ToSet(bg.meta.outdated \o bg.meta.ids) = ToSet(bg.meta.outdated) \cup ToSet(bg.meta.ids)
      BY Lists, ConcatFacts
    <3>2. ToSet(<<>>) = {}
      BY DEF ToSet
    <3>. QED
      BY <2>2, <3>1, <3>2 DEF ListedIn
  <2>4. /\ bg'.token = bg.token /\ bg'.from = bg.from /\ bg'.stage = "look" /\ ~bg'.truncated
        /\ UNCHANGED <<server, files, app, disk, appKeys>>
    BY <1>28 DEF MarkOutdated, TypeInv, TypeOK, Service
  <2>0. ~app.truncated
    BY <2>1 DEF Handling, TypeInv, Deleting
  <2>8. Known' = Known
    BY <2>0, <2>1, <2>3, <2>4, NoMetaDataFacts DEF Known
  <2>5. Safe' = Safe
    BY <1>3, <2>4, <2>8 DEF Safe
  <2>6. \A c \in Known' : SafeUpTo(files[c].to)
    BY <1>2, <2>8 DEF Tokens
  <2>7. Written'
    BY <2>4 DEF Written
  <2>. QED
    BY <1>2, <2>1, <2>4, <2>5, <2>6, <2>7, KeysOfCache DEF server
<1>29. CASE WriteResponse
  <2>1. /\ bg.stage = "write" /\ ~Handling /\ bg.chunk \in Chunks
        /\ files' = [files EXCEPT ![bg.chunk] = bg.content]
        /\ UNCHANGED <<server, meta, app, disk, appKeys>>
        /\ ~app.truncated /\ ~bg.truncated
    BY <1>2, <1>29 DEF WriteResponse, Writing, Handling, TypeInv, Unlisted, Deleting
  <2>2. /\ bg'.token = bg.token /\ bg'.from = bg.from /\ ~bg'.truncated
        /\ \/ bg.fresh /\ bg'.stage = "register" /\ bg'.meta = meta /\ bg'.chunk = bg.chunk
           \/ ~bg.fresh /\ bg'.stage = "feed"
    BY <1>29, <2>1 DEF WriteResponse, TypeInv, TypeOK, Service
  <2>0. Known = ListedIn(meta) /\ Known' = ListedIn(meta)
    BY <2>1, <2>2 DEF Known
  <2>3. /\ files'[bg.chunk] = bg.content /\ \A c \in Chunks : c # bg.chunk => files'[c] = files[c]
    BY <2>1 DEF TypeInv, TypeOK
  <2>4. \A k \in KeyPos : k <= bg.content.to => k \in Safe \cup bg.content.keys
    BY <1>2, <2>1 DEF Written
  <2>5. CASE bg.fresh
    <3>1. bg.chunk \notin ListedIn(meta)
      BY <2>1, <2>5 DEF TypeInv, Unlisted
    <3>2. \A c \in ListedIn(meta) : files'[c] = files[c]
      BY <2>3, <3>1, Fields
    <3>3. Safe' = Safe
      BY <1>3, <2>0, <2>1, <3>2 DEF Safe
    <3>4. Written'
      BY <2>1, <2>2, <2>3, <2>4, <2>5, <3>3 DEF Written
    <3>5. \A c \in Known' : files'[c] = files[c] /\ SafeUpTo(files[c].to)
      BY <1>2, <2>0, <3>2 DEF Tokens
    <3>. QED
      BY <1>2, <2>1, <2>2, <3>3, <3>4, <3>5, KeysOfCache DEF server
  <2>6. CASE ~bg.fresh
    <3>1. bg.chunk \in ListedIn(meta) /\ files[bg.chunk].keys \subseteq bg.content.keys
      BY <1>2, <2>1, <2>6 DEF Written
    <3>2. \A c \in ListedIn(meta) : c \in Chunks /\ files[c].keys \subseteq files'[c].keys
      BY <2>3, <3>1, Fields
    <3>3. Listed \cup bg.content.keys \subseteq Listed'
      BY <1>3, <2>0, <2>3, <3>1, <3>2
    <3>4. Safe \cup bg.content.keys \subseteq Safe'
      BY <2>1, <3>3 DEF Safe
    <3>5. Written'
      BY <2>2, <2>6 DEF Written
    <3>6. \A c \in Known' : SafeUpTo(files[c].to)
      BY <1>2, <2>0 DEF Tokens
    <3>7. \A c \in Known' : files'[c] = files[c] \/ SafeUpTo(files[c].to)'
      <4>1. \A k \in KeyPos : k <= files'[bg.chunk].to => k \in Safe'
        BY <2>3, <2>4, <3>4
      <4>2. \A c \in Known' : c = bg.chunk \/ files'[c] = files[c]
        BY <2>0, <2>3, <3>2
      <4>. QED
        BY <4>1, <4>2 DEF SafeUpTo
    <3>. QED
      BY <1>2, <2>1, <2>2, <3>4, <3>5, <3>6, <3>7, KeysOfCache DEF server
  <2>. QED
    BY <2>5, <2>6
<1>30. CASE RegisterResponse
  <2>1. /\ bg.stage = "register" /\ ~Handling /\ bg.truncated /\ meta = NoMetaData /\ bg.chunk \in Chunks
        /\ \A k \in KeyPos : k <= files[bg.chunk].to => k \in Safe \cup files[bg.chunk].keys
    BY <1>2, <1>30 DEF RegisterResponse, Written, Writing, TypeInv, Unlisted
  <2>2. meta' = [bg.meta EXCEPT !.ids = Append(@, bg.chunk)]
    BY <1>30 DEF RegisterResponse
  <2>3. ToSet(Append(bg.meta.ids, bg.chunk)) = ToSet(bg.meta.ids) \cup {bg.chunk}
    BY <2>1, Fields, AppendFacts
  <2>9. ListedIn(meta') = ListedIn(bg.meta) \cup {bg.chunk}
    BY <2>2, <2>3, Fields DEF ListedIn, MetaData
  <2>5. /\ bg'.token = bg.token /\ bg'.from = bg.from /\ bg'.stage = "feed" /\ ~bg'.truncated
        /\ UNCHANGED <<server, files, app, disk, appKeys>>
    BY <1>30 DEF RegisterResponse, TypeInv, TypeOK, Service
  <2>0. ~app.truncated
    BY <2>1 DEF Handling, TypeInv, Deleting
  <2>4. Known' = Known \cup {bg.chunk}
    BY <2>0, <2>1, <2>5, <2>9, NoMetaDataFacts DEF Known
  <2>6. Safe \cup files[bg.chunk].keys \subseteq Safe'
    BY <1>3, <2>4, <2>5 DEF Safe
  <2>7. \A c \in Known' : SafeUpTo(files[c].to) \/ SafeUpTo(files[c].to)'
    BY <1>2, <2>1, <2>4, <2>5, <2>6 DEF Tokens, SafeUpTo
  <2>8. Written'
    BY <2>5 DEF Written
  <2>. QED
    BY <1>2, <2>1, <2>5, <2>6, <2>7, <2>8, KeysOfCache DEF server
<1>31. CASE SyncSucceeds
  <2>. DEFINE r == Answer(bg.from)
  <2>1. /\ r \in Response /\ r.to = pos
        /\ \A k \in KeyPos : k <= pos => k \in Safe \cup r.keys
    BY <1>6, Fields, AnswerFacts DEF TypeInv
  <2>. HIDE DEF r
  <2>2. /\ UNCHANGED <<server, cache, app, disk, appKeys>> /\ ~Handling /\ ~bg.fresh /\ ~bg.truncated
    BY <1>31 DEF SyncSucceeds, Races, TypeInv, Unlisted
  <2>3. /\ bg'.token = bg.token /\ bg'.from = 0 /\ bg'.stage = "write" /\ ~bg'.truncated
        /\ bg'.content.to = pos /\ r.keys \subseteq bg'.content.keys
        /\ ~bg'.fresh => bg'.chunk \in ListedIn(meta) /\ files[bg'.chunk].keys \subseteq bg'.content.keys
    <3>1. CASE \E c \in Free : bg' = [[bg EXCEPT !.stage = "write", !.from = 0, !.response = r]
                                        EXCEPT !.chunk = c, !.fresh = TRUE, !.content = r]
      BY <2>1, <2>2, <3>1 DEF TypeInv, TypeOK, Service
    <3>2. CASE /\ meta.ids # <<>>
               /\ bg' = [[bg EXCEPT !.stage = "write", !.from = 0, !.response = r]
                           EXCEPT !.chunk = Last(meta.ids), !.content = Merged(files[Last(meta.ids)], r)]
      <4>1. Last(meta.ids) \in ListedIn(meta) /\ files[Last(meta.ids)] \in Response
        BY <3>2, TokenFacts, Fields DEF ListedIn, TypeInv
      <4>2. LET m == Merged(files[Last(meta.ids)], r)
            IN  m.to = pos /\ m.keys = files[Last(meta.ids)].keys \cup r.keys
        BY <2>1, <4>1, MergedFacts
      <4>3. /\ bg'.token = bg.token /\ bg'.from = 0 /\ bg'.stage = "write"
            /\ bg'.chunk = Last(meta.ids) /\ bg'.content = Merged(files[Last(meta.ids)], r)
            /\ ~bg'.truncated
        BY <2>2, <3>2 DEF TypeInv, TypeOK, Service
      <4>. QED
        BY <4>1, <4>2, <4>3
    <3>. QED
      BY <1>31, <3>1, <3>2 DEF SyncSucceeds, r
  <2>4. Safe' = Safe /\ Known' = Known /\ files' = files /\ meta' = meta
    BY <2>2, <2>3 DEF Safe, Listed, Keys, Known, cache
  <2>5. Written'
    BY <2>1, <2>3, <2>4 DEF Written
  <2>6. Tokens'
    BY <1>2, <2>2, <2>3, <2>4, NoneBeforeTheFirst DEF Tokens, SafeUpTo, server
  <2>7. ~Handling' /\ HandledSoFar'
    BY <2>2 DEF Handling, HandledSoFar, Reading
  <2>. QED
    BY <2>5, <2>6, <2>7 DEF KeyInv
<1>. QED
  BY <1>7, <1>8, <1>10, <1>11, <1>12, <1>13, <1>14, <1>15, <1>16, <1>17, <1>18, <1>19, <1>20, <1>21,
     <1>22, <1>23, <1>24, <1>26, <1>27, <1>28, <1>29, <1>30, <1>31 DEF Next, AppStep, ServiceStep

LEMMA KeysAreSafe ==
  ASSUME TypeInv, KeyInv
  PROVE  NoKeyLost
<1>1. acked \in Nat /\ app.token \in Nat /\ disk.token \in Nat /\ \A k \in KeyPos : k \in Nat
  BY Fields, Constants
<1>2. ~raced /\ ~torn => SafeUpTo(acked) /\ SafeUpTo(SessionToken)
  BY DEF KeyInv, Tokens, SessionToken
<1>3. SessionToken \in Nat
  BY <1>1 DEF SessionToken
<1>. QED
  BY <1>1, <1>2, <1>3 DEF NoKeyLost, SafeUpTo, Safe

(***************************************************************************)
(* Chains of responses.                                                    *)
(***************************************************************************)
LEMMA ResponseNumbers ==
  ASSUME NEW r \in Response
  PROVE  r.from \in Nat /\ r.to \in Nat /\ r.msgs \subseteq MsgPos /\ \A m \in r.msgs : m \in Nat
BY Constants, ResponseFacts

LEMMA JoinUpTo ==
  ASSUME NEW a \in Nat, NEW b \in Nat, a <= b, NEW A, A \subseteq Nat, UpTo(A, a),
         NEW R, R \subseteq Nat, UpTo(R, b), (a + 1)..b \subseteq R
  PROVE  UpTo(A \cup R, b)
<1>1. \A m \in A \cup R : m <= b
  BY DEF UpTo
<1>2. ASSUME NEW m \in A, NEW n \in m..b
      PROVE  n \in A \cup R
  <2>1. CASE n <= a
    BY <2>1 DEF UpTo
  <2>2. CASE ~(n <= a)
    BY <1>2, <2>2
  <2>. QED
    BY <2>1, <2>2
<1>. QED
  BY <1>1, <1>2 DEF UpTo

LEMMA SoundMerged ==
  ASSUME NEW old \in Response, NEW new \in Response, Sound(old), Sound(new), new.from = old.to
  PROVE  Sound(Merged(old, new)) /\ old.to <= new.to
<1>. DEFINE r == Merged(old, new)
<1>1. /\ r.from = old.from /\ r.to = new.to
      /\ r.msgs = IF new.limited THEN new.msgs ELSE old.msgs \cup new.msgs
      /\ r.limited = (old.limited \/ new.limited)
  BY MergedFacts
<1>. HIDE DEF r
<1>2. /\ old.from \in Nat /\ old.to \in Nat /\ new.to \in Nat /\ old.msgs \subseteq Nat /\ new.msgs \subseteq Nat
      /\ 1 <= old.from /\ old.from <= old.to /\ old.to <= new.to
  BY ResponseNumbers DEF Sound
<1>3. UpTo(r.msgs, r.to)
  <2>1. CASE new.limited
    BY <1>1, <2>1 DEF Sound
  <2>2. CASE ~new.limited
    <3>1. new.msgs = (old.to + 1)..new.to
      BY <2>2 DEF Sound
    <3>2. UpTo(old.msgs \cup new.msgs, new.to)
      BY <1>2, <3>1, JoinUpTo DEF Sound
    <3>. QED
      BY <1>1, <2>2, <3>2
  <2>. QED
    BY <2>1, <2>2
<1>4. ASSUME ~r.limited
      PROVE  r.msgs = (r.from + 1)..r.to
  <2>1. ~old.limited /\ ~new.limited
    BY <1>1, <1>4
  <2>2. old.msgs = (old.from + 1)..old.to /\ new.msgs = (old.to + 1)..new.to
    BY <2>1 DEF Sound
  <2>. QED
    BY <1>1, <1>2, <2>1, <2>2
<1>. QED
  BY <1>1, <1>2, <1>3, <1>4 DEF Sound, r

LEMMA ListFacts ==
  ASSUME NEW ids \in Seq(Chunks)
  PROVE  /\ Len(ids) \in Nat /\ DOMAIN ids = 1..Len(ids) /\ \A i \in DOMAIN ids : ids[i] \in Chunks
         /\ ids # <<>> <=> Len(ids) # 0
         /\ ids # <<>> => /\ Head(ids) = ids[1] /\ 1 \in DOMAIN ids
                          /\ Last(ids) = ids[Len(ids)] /\ Len(ids) \in DOMAIN ids
                          /\ \A i \in DOMAIN ids : i <= Len(ids)
BY LenProperties, ElementOfSeq, EmptySeq DEF Last

\* The last of a chain can be read if any can.
LEMMA ChainLast ==
  ASSUME NEW f \in [Chunks -> Response], NEW ids \in Seq(Chunks), Chained(f, ids),
         NEW i \in DOMAIN ids, f[ids[i]] # NoResponse
  PROVE  /\ ids # <<>> /\ f[Last(ids)] # NoResponse /\ \A j \in DOMAIN ids : j >= i => f[ids[j]] # NoResponse
         /\ \A j \in DOMAIN ids : j > i => f[ids[i]].to <= f[ids[j]].from
<1>1. \A j \in DOMAIN ids : j > i => f[ids[j]] # NoResponse /\ f[ids[i]].to <= f[ids[j]].from
  BY DEF Chained
<1>2. \A j \in DOMAIN ids : j >= i => f[ids[j]] # NoResponse
  BY <1>1, ListFacts
<1>. QED
  BY <1>1, <1>2, ListFacts

LEMMA EmptyChain ==
  ASSUME NEW f
  PROVE  Chained(f, <<>>) /\ \A t, token : Behind(f, <<>>, t) /\ EndsAt(f, <<>>, token)
BY DEF Chained, Behind, EndsAt

LEMMA ChainSame ==
  ASSUME NEW f, NEW g, NEW ids \in Seq(Chunks), \A c \in ToSet(ids) : g[c] = f[c], Chained(f, ids)
  PROVE  Chained(g, ids)
<1>1. \A i \in DOMAIN ids : g[ids[i]] = f[ids[i]]
  BY DEF ToSet
<1>2. ids = <<>> \/ g[Last(ids)] = f[Last(ids)]
  BY <1>1, ListFacts
<1>3. CASE ids = <<>>
  BY <1>3, EmptyChain
<1>4. CASE ids # <<>>
  BY <1>1, <1>2, <1>4 DEF Chained
<1>. QED
  BY <1>3, <1>4

\* A response that starts where the last one ends.
LEMMA ChainAppend ==
  ASSUME NEW f \in [Chunks -> Response], \A c \in Chunks : f[c] # NoResponse => f[c].from <= f[c].to,
         NEW ids \in Seq(Chunks), NEW c \in Chunks, c \notin ToSet(ids), f[c] # NoResponse,
         Chained(f, ids), EndsAt(f, ids, f[c].from)
  PROVE  Chained(f, Append(ids, c))
<1>. DEFINE n == Len(ids)
            u == Append(ids, c)
<1>1. /\ n \in Nat /\ DOMAIN ids = 1..n /\ DOMAIN u = 1..(n + 1) /\ Last(u) = c /\ u[n + 1] = c
      /\ \A i \in 1..n : u[i] = ids[i] /\ ids[i] \in Chunks
  BY ListFacts, AppendFacts
<1>2. \A d \in Chunks : f[d].from \in Nat /\ f[d].to \in Nat
  BY ResponseNumbers
<1>. HIDE DEF n, u
<1>3. ASSUME NEW i \in 1..n, f[ids[i]] # NoResponse
      PROVE  /\ f[ids[n]] # NoResponse /\ n \in 1..n /\ f[ids[n]].to = f[c].from
             /\ f[ids[i]].to <= f[c].from /\ f[ids[i]].from <= f[ids[i]].to
  <2>1. ids # <<>> /\ Last(ids) = ids[n] /\ n \in 1..n
    BY <1>1, ListFacts DEF n
  <2>2. f[ids[n]] # NoResponse
    BY <1>1, <1>3, <2>1, ChainLast
  <2>3. f[ids[n]].to = f[c].from
    BY <2>1, <2>2 DEF EndsAt
  <2>4. i # n => f[ids[i]].to <= f[ids[n]].from /\ f[ids[n]].from <= f[ids[n]].to
    BY <1>1, <1>3, <2>1, <2>2 DEF Chained
  <2>5. f[ids[i]].to <= f[c].from
    BY <1>1, <1>2, <2>1, <2>3, <2>4
  <2>. QED
    BY <1>1, <1>3, <2>1, <2>2, <2>3, <2>5
<1>4. ASSUME NEW i \in 1..(n + 1), f[u[i]] # NoResponse, NEW j \in 1..(n + 1), j > i
      PROVE  f[u[j]] # NoResponse /\ f[u[i]].to <= f[u[j]].from
  <2>1. i \in 1..n
    BY <1>1, <1>4
  <2>2. CASE j \in 1..n
    BY <1>1, <1>4, <2>1, <2>2 DEF Chained
  <2>3. CASE j = n + 1
    BY <1>1, <1>3, <1>4, <2>1, <2>3
  <2>. QED
    BY <1>1, <2>2, <2>3
<1>5. ASSUME NEW i \in 1..(n + 1), f[u[i]] # NoResponse, NEW m \in (f[u[i]].from + 1)..f[c].to
      PROVE  \E j \in 1..(n + 1) : j >= i /\ f[u[j]].from < m /\ m <= f[u[j]].to
  <2>1. CASE i = n + 1
    BY <1>1, <1>2, <1>5, <2>1
  <2>2. CASE i \in 1..n /\ m <= f[c].from
    <3>1. f[ids[n]].to = f[c].from /\ Last(ids) = ids[n]
      BY <1>1, <1>3, <1>5, <2>2, ListFacts DEF n
    <3>2. m \in (f[ids[i]].from + 1)..f[Last(ids)].to
      BY <1>1, <1>2, <1>5, <2>2, <3>1
    <3>3. PICK j \in 1..n : j >= i /\ f[ids[j]].from < m /\ m <= f[ids[j]].to
      BY <1>1, <1>5, <2>2, <3>2 DEF Chained
    <3>. QED
      BY <1>1, <3>3
  <2>3. CASE i \in 1..n /\ ~(m <= f[c].from)
    <3>1. f[u[n + 1]].from < m /\ m <= f[u[n + 1]].to /\ n + 1 >= i /\ n + 1 \in 1..(n + 1)
      BY <1>1, <1>2, <1>5, <2>3
    <3>. QED
      BY <3>1
  <2>. QED
    BY <1>1, <2>1, <2>2, <2>3
<1>. QED
  BY <1>1, <1>4, <1>5 DEF Chained, u

\* A longer last response, from the same token, or one that was not there any more.
LEMMA ChainExtend ==
  ASSUME NEW f \in [Chunks -> Response], NEW ids \in Seq(Chunks), IsInjective(ids), ids # <<>>,
         NEW r \in Response, r # NoResponse, r.from <= r.to,
         f[Last(ids)] # NoResponse =>
           r.from = f[Last(ids)].from /\ f[Last(ids)].from <= f[Last(ids)].to /\ f[Last(ids)].to <= r.to,
         Chained(f, ids)
  PROVE  Chained([f EXCEPT ![Last(ids)] = r], ids)
<1>. DEFINE n == Len(ids)
            c == Last(ids)
            g == [f EXCEPT ![c] = r]
<1>1. /\ n \in Nat /\ n \in 1..n /\ DOMAIN ids = 1..n /\ c = ids[n] /\ \A i \in 1..n : ids[i] \in Chunks
      /\ \A i \in 1..n : i # n => ids[i] # ids[n]
  BY ListFacts DEF IsInjective
<1>2. /\ \A d \in Chunks : f[d].from \in Nat /\ f[d].to \in Nat
      /\ r.from \in Nat /\ r.to \in Nat
  BY ResponseNumbers
<1>. HIDE DEF n, c
<1>3. g[c] = r /\ \A i \in 1..n : i # n => g[ids[i]] = f[ids[i]]
  BY <1>1
<1>. HIDE DEF g
<1>4. ASSUME NEW i \in 1..n, f[ids[i]] # NoResponse
      PROVE  f[c] # NoResponse /\ r.from = f[c].from /\ f[c].from <= f[c].to /\ f[c].to <= r.to
  BY <1>1, <1>4, ChainLast DEF c
<1>5. ASSUME NEW i \in 1..n, g[ids[i]] # NoResponse, NEW j \in 1..n, j > i
      PROVE  g[ids[j]] # NoResponse /\ g[ids[i]].to <= g[ids[j]].from
  <2>1. i # n /\ f[ids[i]] # NoResponse /\ g[ids[i]] = f[ids[i]]
    BY <1>1, <1>3, <1>5
  <2>2. f[ids[j]] # NoResponse /\ f[ids[i]].to <= f[ids[j]].from
    BY <1>1, <1>5, <2>1 DEF Chained
  <2>3. CASE j = n
    BY <1>1, <1>3, <1>4, <2>1, <2>2, <2>3
  <2>4. CASE j # n
    BY <1>3, <2>1, <2>2, <2>4
  <2>. QED
    BY <2>3, <2>4
<1>6. ASSUME NEW i \in 1..n, g[ids[i]] # NoResponse, NEW m \in (g[ids[i]].from + 1)..g[c].to
      PROVE  \E j \in 1..n : j >= i /\ g[ids[j]].from < m /\ m <= g[ids[j]].to
  <2>1. CASE i = n
    BY <1>1, <1>2, <1>3, <1>6, <2>1
  <2>2. CASE i # n
    <3>1. f[ids[i]] # NoResponse /\ g[ids[i]] = f[ids[i]]
      BY <1>3, <1>6, <2>2
    <3>2. f[c] # NoResponse /\ r.from = f[c].from /\ f[c].from <= f[c].to /\ f[c].to <= r.to
      BY <1>4, <3>1
    <3>3. CASE m <= f[c].to
      <4>1. m \in (f[ids[i]].from + 1)..f[c].to
        BY <1>1, <1>2, <1>6, <3>1, <3>3
      <4>2. PICK j \in 1..n : j >= i /\ f[ids[j]].from < m /\ m <= f[ids[j]].to
        BY <1>1, <3>1, <4>1 DEF Chained, c
      <4>3. g[ids[j]].from = f[ids[j]].from /\ f[ids[j]].to <= g[ids[j]].to
        <5>1. CASE j = n
          BY <1>1, <1>3, <3>2, <5>1
        <5>2. CASE j # n
          <6>1. g[ids[j]] = f[ids[j]] /\ f[ids[j]].to \in Nat
            BY <1>1, <1>2, <1>3, <5>2
          <6>. QED
            BY <6>1
        <5>. QED
          BY <5>1, <5>2
      <4>4. m <= g[ids[j]].to
        BY <1>1, <1>2, <1>3, <4>2, <4>3
      <4>. QED
        BY <4>2, <4>3, <4>4
    <3>4. CASE ~(m <= f[c].to)
      <4>1. f[ids[i]].to <= f[c].from
        BY <1>1, <2>2, <3>1 DEF Chained
      <4>2. m > f[c].from \/ m <= f[c].from
        BY <1>1, <1>2, <1>6, <3>1
      <4>3. CASE m > f[c].from
        BY <1>1, <1>2, <1>3, <1>6, <3>2, <4>3
      <4>4. CASE m <= f[c].from
        BY <1>1, <1>2, <3>2, <3>4, <4>4
      <4>. QED
        BY <4>2, <4>3, <4>4
    <3>. QED
      BY <3>3, <3>4
  <2>. QED
    BY <2>1, <2>2
<1>. QED
  BY <1>1, <1>5, <1>6 DEF Chained, c, g

\* A file is deleted, when none before it in the list is left.
LEMMA ChainLose ==
  ASSUME NEW f \in [Chunks -> Response], NEW ids \in Seq(Chunks), NEW c \in Chunks,
         \A p \in DOMAIN ids : ids[p] = c => \A j \in 1..(p - 1) : f[ids[j]] = NoResponse,
         Chained(f, ids)
  PROVE  Chained([f EXCEPT ![c] = NoResponse], ids)
<1>. DEFINE n == Len(ids)
            g == [f EXCEPT ![c] = NoResponse]
<1>1. n \in Nat /\ DOMAIN ids = 1..n /\ \A i \in 1..n : ids[i] \in Chunks
  BY ListFacts
<1>2. g[c] = NoResponse /\ \A i \in 1..n : ids[i] # c => g[ids[i]] = f[ids[i]]
  BY <1>1
<1>3. \A d \in Chunks : f[d].from \in Nat /\ f[d].to \in Nat
  BY ResponseNumbers
<1>. HIDE DEF g, n
<1>4. ASSUME NEW i \in 1..n, g[ids[i]] # NoResponse
      PROVE  /\ f[ids[i]] # NoResponse
             /\ \A j \in 1..n : j >= i => ids[j] # c /\ g[ids[j]] = f[ids[j]]
             /\ g[Last(ids)] = f[Last(ids)]
  <2>1. ids[i] # c /\ f[ids[i]] # NoResponse
    BY <1>2, <1>4
  <2>2. ASSUME NEW j \in 1..n, j >= i
        PROVE  ids[j] # c /\ g[ids[j]] = f[ids[j]]
    <3>1. ids[j] # c
      <4>1. CASE j = i
        BY <2>1, <4>1
      <4>2. CASE j # i
        <5>1. i \in 1..(j - 1)
          BY <1>1, <2>2, <4>2
        <5>. QED
          BY <1>1, <2>1, <5>1
      <4>. QED
        BY <4>1, <4>2
    <3>. QED
      BY <1>2, <3>1
  <2>3. Last(ids) = ids[n] /\ n \in 1..n /\ n >= i
    BY <1>1, ListFacts DEF n
  <2>. QED
    BY <2>1, <2>2, <2>3
<1>5. ASSUME NEW i \in 1..n, g[ids[i]] # NoResponse, NEW j \in 1..n, j > i
      PROVE  g[ids[j]] # NoResponse /\ g[ids[i]].to <= g[ids[j]].from
  <2>1. f[ids[j]] # NoResponse /\ f[ids[i]].to <= f[ids[j]].from
    BY <1>1, <1>4, <1>5 DEF Chained
  <2>2. g[ids[j]] = f[ids[j]] /\ g[ids[i]] = f[ids[i]]
    BY <1>1, <1>4, <1>5
  <2>. QED
    BY <2>1, <2>2
<1>6. ASSUME NEW i \in 1..n, g[ids[i]] # NoResponse, NEW m \in (g[ids[i]].from + 1)..g[Last(ids)].to
      PROVE  \E j \in 1..n : j >= i /\ g[ids[j]].from < m /\ m <= g[ids[j]].to
  <2>1. g[ids[i]] = f[ids[i]] /\ f[ids[i]] # NoResponse /\ g[Last(ids)] = f[Last(ids)]
    BY <1>1, <1>4, <1>6
  <2>2. PICK j \in 1..n : j >= i /\ f[ids[j]].from < m /\ m <= f[ids[j]].to
    BY <1>1, <1>6, <2>1 DEF Chained
  <2>3. g[ids[j]] = f[ids[j]]
    BY <1>4, <1>6, <2>2
  <2>. QED
    BY <2>2, <2>3
<1>. QED
  BY <1>1, <1>5, <1>6 DEF Chained, g

\* The last of a list is so without another.
LEMMA LastKept ==
  ASSUME NEW ids \in Seq(Chunks), IsInjective(ids), ids # <<>>, NEW c, Last(ids) # c
  PROVE  RemoveFirst(ids, c) # <<>> /\ Last(RemoveFirst(ids, c)) = Last(ids)
<1>. DEFINE t == RemoveFirst(ids, c)
<1>1. PICK at \in [DOMAIN t -> DOMAIN ids] :
        /\ \A k \in DOMAIN t : t[k] = ids[at[k]]
        /\ \A k, l \in DOMAIN t : k < l => at[k] < at[l]
        /\ \A i \in DOMAIN ids : ids[i] # c => \E k \in DOMAIN t : at[k] = i
  BY RemovedPlaces
<1>2. t \in Seq(Chunks)
  BY RemoveFirstFacts
<1>. HIDE DEF t
<1>3. Last(ids) = ids[Len(ids)] /\ Len(ids) \in DOMAIN ids /\ DOMAIN ids = 1..Len(ids) /\ Len(ids) \in Nat
  BY ListFacts
<1>4. PICK k \in DOMAIN t : at[k] = Len(ids)
  BY <1>1, <1>3
<1>5. DOMAIN t = 1..Len(t) /\ Len(t) \in Nat /\ t # <<>> /\ Last(t) = t[Len(t)] /\ Len(t) \in DOMAIN t
  BY <1>2, <1>4, ListFacts
<1>6. ~(k < Len(t))
  <2>1. at[Len(t)] \in 1..Len(ids)
    BY <1>1, <1>3, <1>5
  <2>. QED
    BY <1>1, <1>3, <1>4, <1>5, <2>1
<1>7. k = Len(t)
  BY <1>5, <1>6
<1>. QED
  BY <1>1, <1>3, <1>4, <1>5, <1>7 DEF t

\* Nor can the last one that can be read change with one that has none before it.
LEMMA LastOfRemoved ==
  ASSUME NEW f, NEW ids \in Seq(Chunks), IsInjective(ids), NEW c, f[c] = NoResponse,
         \A p \in DOMAIN ids : ids[p] = c => \A j \in 1..(p - 1) : f[ids[j]] = NoResponse,
         RemoveFirst(ids, c) # <<>>, f[Last(RemoveFirst(ids, c))] # NoResponse
  PROVE  ids # <<>> /\ Last(RemoveFirst(ids, c)) = Last(ids)
<1>. DEFINE t == RemoveFirst(ids, c)
            n == Len(ids)
<1>1. PICK at \in [DOMAIN t -> DOMAIN ids] : \A k \in DOMAIN t : t[k] = ids[at[k]]
  BY RemoveFirstFacts
<1>2. t \in Seq(Chunks)
  BY RemoveFirstFacts
<1>. HIDE DEF t
<1>3. Last(t) = t[Len(t)] /\ Len(t) \in DOMAIN t
  BY <1>2, ListFacts DEF t
<1>4. n \in Nat /\ DOMAIN ids = 1..n /\ at[Len(t)] \in 1..n
  BY <1>1, <1>3, ListFacts
<1>5. ids # <<>> /\ Last(ids) = ids[n] /\ n \in 1..n
  BY <1>4, ListFacts
<1>. HIDE DEF n
<1>6. ids[n] # c
  <2>1. ASSUME ids[n] = c
        PROVE  FALSE
    <3>1. ids[at[Len(t)]] # c
      BY <1>1, <1>3 DEF t
    <3>2. at[Len(t)] \in 1..(n - 1)
      BY <1>4, <2>1, <3>1
    <3>3. f[ids[at[Len(t)]]] = NoResponse
      BY <1>4, <1>5, <2>1, <3>2
    <3>. QED
      BY <1>1, <1>3, <3>3 DEF t
  <2>. QED
    BY <2>1
<1>. QED
  BY <1>5, <1>6, LastKept DEF t

LEMMA EndsAtRemove ==
  ASSUME NEW f, NEW ids \in Seq(Chunks), IsInjective(ids), NEW c, f[c] = NoResponse,
         \A p \in DOMAIN ids : ids[p] = c => \A j \in 1..(p - 1) : f[ids[j]] = NoResponse,
         NEW token, EndsAt(f, ids, token)
  PROVE  EndsAt(f, RemoveFirst(ids, c), token)
BY LastOfRemoved DEF EndsAt

LEMMA ChainRemove ==
  ASSUME NEW f \in [Chunks -> Response], NEW ids \in Seq(Chunks), IsInjective(ids), NEW c \in Chunks,
         f[c] = NoResponse,
         \A p \in DOMAIN ids : ids[p] = c => \A j \in 1..(p - 1) : f[ids[j]] = NoResponse,
         Chained(f, ids)
  PROVE  Chained(f, RemoveFirst(ids, c))
<1>. DEFINE t == RemoveFirst(ids, c)
<1>1. PICK at \in [DOMAIN t -> DOMAIN ids] :
        /\ \A k \in DOMAIN t : t[k] = ids[at[k]]
        /\ \A k, l \in DOMAIN t : k < l => at[k] < at[l]
        /\ \A i \in DOMAIN ids : ids[i] # c => \E k \in DOMAIN t : at[k] = i
  BY RemovedPlaces
<1>2. t \in Seq(Chunks)
  BY RemoveFirstFacts
<1>. HIDE DEF t
<1>3. /\ DOMAIN t = 1..Len(t) /\ Len(t) \in Nat /\ DOMAIN ids = 1..Len(ids) /\ Len(ids) \in Nat
      /\ \A d \in Chunks : f[d].from \in Nat /\ f[d].to \in Nat
      /\ \A i \in DOMAIN ids : ids[i] \in Chunks
  BY <1>2, ListFacts, ResponseNumbers
<1>4. ASSUME NEW i \in DOMAIN t, f[t[i]] # NoResponse, NEW j \in DOMAIN t, j > i
      PROVE  f[t[j]] # NoResponse /\ f[t[i]].to <= f[t[j]].from
  <2>1. t[i] = ids[at[i]] /\ t[j] = ids[at[j]] /\ at[i] \in DOMAIN ids /\ at[j] \in DOMAIN ids /\ at[j] > at[i]
    BY <1>1, <1>3, <1>4
  <2>. QED
    BY <1>4, <2>1 DEF Chained
<1>5. ASSUME NEW i \in DOMAIN t, f[t[i]] # NoResponse, NEW m \in (f[t[i]].from + 1)..f[Last(t)].to
      PROVE  \E j \in DOMAIN t : j >= i /\ f[t[j]].from < m /\ m <= f[t[j]].to
  <2>1. Last(t) = t[Len(t)] /\ Len(t) \in DOMAIN t /\ t # <<>>
    BY <1>2, <1>3, <1>5, ListFacts
  <2>2. f[t[Len(t)]] # NoResponse
    <3>1. i = Len(t) \/ Len(t) > i
      BY <1>3
    <3>. QED
      BY <1>4, <1>5, <2>1, <3>1
  <2>3. Last(t) = Last(ids)
    BY <2>1, <2>2, LastOfRemoved DEF t
  <2>4. at[i] \in DOMAIN ids /\ t[i] = ids[at[i]]
    BY <1>1
  <2>5. PICK k \in DOMAIN ids : k >= at[i] /\ f[ids[k]].from < m /\ m <= f[ids[k]].to
    BY <1>5, <2>3, <2>4 DEF Chained
  <2>6. ids[k] # c
    <3>1. ASSUME ids[k] = c
          PROVE  FALSE
      <4>1. f[ids[k]].from = 0 /\ f[ids[k]].to = 0
        BY <3>1, NoResponseFacts
      <4>2. f[t[i]].from \in Nat /\ f[Last(t)].to \in Nat
        BY <1>3, <2>1, <2>4, <1>1
      <4>. QED
        BY <1>5, <2>5, <4>1, <4>2
    <3>. QED
      BY <3>1
  <2>7. PICK j \in DOMAIN t : at[j] = k
    BY <1>1, <2>6
  <2>8. j >= i
    <3>1. ~(j < i)
      BY <1>1, <1>3, <2>4, <2>5, <2>7
    <3>. QED
      BY <1>3, <3>1
  <2>. QED
    BY <1>1, <2>5, <2>7, <2>8
<1>. QED
  BY <1>4, <1>5 DEF Chained, t

(***************************************************************************)
(* The order in which files are deleted.                                   *)
(***************************************************************************)
\* What appears does it at the end of the list.
LEMMA BehindGrows ==
  ASSUME NEW f, NEW g, NEW s \in Seq(Chunks), NEW t,
         \A j \in DOMAIN s : g[s[j]] # NoResponse => f[s[j]] # NoResponse \/ j = Len(s),
         Behind(f, s, t)
  PROVE  Behind(g, s, t)
<1>1. Len(s) \in Nat /\ DOMAIN s = 1..Len(s)
  BY ListFacts
<1>2. ASSUME NEW i \in DOMAIN s, NEW j \in 1..(i - 1), g[s[j]] # NoResponse
      PROVE  f[s[j]] # NoResponse
  BY <1>1, <1>2
<1>. QED
  BY <1>2 DEF Behind

LEMMA BehindItself ==
  ASSUME NEW f, NEW s \in Seq(Chunks), IsInjective(s)
  PROVE  Behind(f, s, s)
<1>1. Len(s) \in Nat /\ DOMAIN s = 1..Len(s)
  BY ListFacts
<1>. QED
  BY <1>1 DEF Behind, IsInjective

\* Nothing that can be read comes before the next to delete.
LEMMA BehindHead ==
  ASSUME NEW f, NEW s, NEW t \in Seq(Chunks), t # <<>>, Behind(f, s, t)
  PROVE  \A p \in DOMAIN s : s[p] = Head(t) => \A j \in 1..(p - 1) : f[s[j]] = NoResponse
<1>1. Head(t) = t[1] /\ 1 \in DOMAIN t
  BY ListFacts
<1>. QED
  BY <1>1 DEF Behind

LEMMA BehindTail ==
  ASSUME NEW f, NEW g, NEW s, NEW t \in Seq(Chunks), t # <<>>,
         \A j \in DOMAIN s : g[s[j]] # NoResponse => f[s[j]] # NoResponse /\ s[j] # Head(t),
         DOMAIN s \subseteq Nat, \A i \in DOMAIN s : 1..i \subseteq DOMAIN s,
         Behind(f, s, t)
  PROVE  Behind(g, s, Tail(t))
<1>1. /\ DOMAIN Tail(t) = 1..(Len(t) - 1) /\ Len(t) \in Nat \ {0} /\ DOMAIN t = 1..Len(t) /\ Head(t) = t[1]
      /\ \A k \in 1..(Len(t) - 1) : Tail(t)[k] = t[k + 1]
  BY HeadTailProperties, LenProperties, ListFacts
<1>2. ASSUME NEW i \in DOMAIN s, NEW k \in 1..(Len(t) - 1), s[i] = t[k + 1],
             NEW j \in 1..(i - 1), g[s[j]] # NoResponse
      PROVE  \E l \in 1..(k - 1) : t[l + 1] = s[j]
  <2>1. j \in DOMAIN s /\ i \in Nat
    BY <1>2
  <2>2. f[s[j]] # NoResponse /\ s[j] # t[1]
    BY <1>1, <1>2, <2>1
  <2>3. PICK l \in 1..((k + 1) - 1) : t[l] = s[j]
    <3>1. k + 1 \in DOMAIN t
      BY <1>1
    <3>. QED
      BY <1>2, <2>2, <3>1 DEF Behind
  <2>4. l # 1
    BY <2>2, <2>3
  <2>5. l - 1 \in 1..(k - 1) /\ (l - 1) + 1 = l
    BY <1>1, <2>4
  <2>. QED
    BY <2>3, <2>5
<1>3. \A k \in 1..(Len(t) - 1) : \A l \in 1..(k - 1) : Tail(t)[l] = t[l + 1]
  BY <1>1
<1>. HIDE DEF Behind
<1>4. ASSUME NEW i \in DOMAIN s, NEW k \in 1..(Len(t) - 1), s[i] = Tail(t)[k],
             NEW j \in 1..(i - 1), g[s[j]] # NoResponse
      PROVE  \E l \in 1..(k - 1) : Tail(t)[l] = s[j]
  <2>1. PICK l \in 1..(k - 1) : t[l + 1] = s[j]
    BY <1>1, <1>2, <1>4
  <2>. QED
    BY <1>3, <2>1
<1>. QED
  BY <1>1, <1>4 DEF Behind

LEMMA BehindRemoveLeft ==
  ASSUME NEW f, NEW s \in Seq(Chunks), IsInjective(s), NEW t, NEW c, Behind(f, s, t)
  PROVE  Behind(f, RemoveFirst(s, c), t)
<1>. DEFINE u == RemoveFirst(s, c)
<1>1. PICK at \in [DOMAIN u -> DOMAIN s] :
        /\ \A k \in DOMAIN u : u[k] = s[at[k]]
        /\ \A k, l \in DOMAIN u : k < l => at[k] < at[l]
  BY RemoveFirstFacts
<1>2. u \in Seq(Chunks)
  BY RemoveFirstFacts
<1>. HIDE DEF u
<1>3. DOMAIN u = 1..Len(u) /\ Len(u) \in Nat /\ DOMAIN s = 1..Len(s) /\ Len(s) \in Nat
  BY <1>2, ListFacts
<1>4. ASSUME NEW i \in DOMAIN u, NEW k \in DOMAIN t, u[i] = t[k],
             NEW j \in 1..(i - 1), f[u[j]] # NoResponse
      PROVE  \E l \in 1..(k - 1) : t[l] = u[j]
  <2>1. j \in DOMAIN u /\ j < i
    BY <1>3
  <2>2. /\ at[i] \in DOMAIN s /\ u[i] = s[at[i]] /\ u[j] = s[at[j]] /\ at[j] \in 1..(at[i] - 1)
    BY <1>1, <1>3, <2>1
  <2>. QED
    BY <1>4, <2>2 DEF Behind
<1>. QED
  BY <1>4 DEF Behind, u

LEMMA BehindRemoveRight ==
  ASSUME NEW f, NEW s, NEW t \in Seq(Chunks), IsInjective(t), NEW c, f[c] = NoResponse, Behind(f, s, t)
  PROVE  Behind(f, s, RemoveFirst(t, c))
<1>. DEFINE u == RemoveFirst(t, c)
<1>1. PICK at \in [DOMAIN u -> DOMAIN t] :
        /\ \A k \in DOMAIN u : u[k] = t[at[k]]
        /\ \A k, l \in DOMAIN u : k < l => at[k] < at[l]
        /\ \A i \in DOMAIN t : t[i] # c => \E k \in DOMAIN u : at[k] = i
  BY RemovedPlaces
<1>2. u \in Seq(Chunks)
  BY RemoveFirstFacts
<1>. HIDE DEF u
<1>3. DOMAIN u = 1..Len(u) /\ Len(u) \in Nat /\ DOMAIN t = 1..Len(t) /\ Len(t) \in Nat
  BY <1>2, ListFacts
<1>4. ASSUME NEW i \in DOMAIN s, NEW k \in DOMAIN u, s[i] = u[k],
             NEW j \in 1..(i - 1), f[s[j]] # NoResponse
      PROVE  \E l \in 1..(k - 1) : u[l] = s[j]
  <2>1. at[k] \in DOMAIN t /\ s[i] = t[at[k]]
    BY <1>1, <1>4
  <2>2. PICK l \in 1..(at[k] - 1) : t[l] = s[j]
    BY <1>4, <2>1 DEF Behind
  <2>3. l \in DOMAIN t /\ t[l] # c /\ l < at[k]
    BY <1>3, <1>4, <2>1, <2>2
  <2>4. PICK m \in DOMAIN u : at[m] = l
    BY <1>1, <2>3
  <2>5. ~(k < m) /\ k # m
    BY <1>1, <1>3, <2>1, <2>3, <2>4
  <2>6. m \in 1..(k - 1)
    BY <1>3, <2>5
  <2>. QED
    BY <1>1, <2>2, <2>4, <2>6
<1>. QED
  BY <1>4 DEF Behind, u

\* Outdated responses are deleted before the others.
LEMMA BehindConcat ==
  ASSUME NEW f, NEW s, NEW o \in Seq(Chunks), NEW t \in Seq(Chunks), ToSet(o) \cap ToSet(s) = {},
         Behind(f, s, t)
  PROVE  Behind(f, s, o \o t)
<1>. DEFINE n == Len(o)
            m == Len(t)
            u == o \o t
<1>1. /\ n \in Nat /\ m \in Nat /\ DOMAIN o = 1..n /\ DOMAIN t = 1..m /\ DOMAIN u = 1..(n + m)
      /\ \A i \in 1..(n + m) : u[i] = IF i <= n THEN o[i] ELSE t[i - n]
  BY ConcatProperties, LenProperties
<1>. HIDE DEF n, m, u
<1>2. ASSUME NEW i \in DOMAIN s, NEW k \in 1..(n + m), s[i] = u[k],
             NEW j \in 1..(i - 1), f[s[j]] # NoResponse
      PROVE  \E l \in 1..(k - 1) : u[l] = s[j]
  <2>1. ~(k <= n)
    <3>1. ASSUME k <= n
          PROVE  FALSE
      <4>1. k \in DOMAIN o /\ s[i] = o[k]
        BY <1>1, <1>2, <3>1
      <4>. QED
        BY <4>1 DEF ToSet
    <3>. QED
      BY <3>1
  <2>2. k - n \in 1..m /\ s[i] = t[k - n]
    BY <1>1, <1>2, <2>1
  <2>3. PICK l \in 1..((k - n) - 1) : t[l] = s[j]
    <3>1. k - n \in DOMAIN t
      BY <1>1, <2>2
    <3>. QED
      BY <1>2, <2>2, <3>1 DEF Behind
  <2>4. n + l \in 1..(k - 1) /\ n + l \in 1..(n + m) /\ ~(n + l <= n) /\ (n + l) - n = l
    BY <1>1, <2>2, <2>3
  <2>. QED
    BY <1>1, <2>3, <2>4
<1>. QED
  BY <1>1, <1>2 DEF Behind, u

LEMMA BehindAppend ==
  ASSUME NEW f, NEW s \in Seq(Chunks), NEW t \in Seq(Chunks), NEW c \in Chunks, c \notin ToSet(t),
         Behind(f, s, t)
  PROVE  Behind(f, Append(s, c), t)
<1>. DEFINE n == Len(s)
            u == Append(s, c)
<1>1. /\ n \in Nat /\ DOMAIN s = 1..n /\ DOMAIN u = 1..(n + 1) /\ u[n + 1] = c
      /\ \A i \in 1..n : u[i] = s[i]
  BY ListFacts, AppendFacts
<1>. HIDE DEF n, u
<1>2. ASSUME NEW i \in 1..(n + 1), NEW k \in DOMAIN t, u[i] = t[k],
             NEW j \in 1..(i - 1), f[u[j]] # NoResponse
      PROVE  \E l \in 1..(k - 1) : t[l] = u[j]
  <2>1. i # n + 1
    BY <1>1, <1>2 DEF ToSet
  <2>2. i \in DOMAIN s /\ j \in 1..n /\ s[i] = t[k] /\ u[j] = s[j]
    BY <1>1, <1>2, <2>1
  <2>. QED
    BY <1>2, <2>2 DEF Behind
<1>. QED
  BY <1>1, <1>2 DEF Behind, u

(***************************************************************************)
(* What is read of a chain.                                                *)
(***************************************************************************)
LEMMA ChainMerged ==
  ASSUME TypeInv, FilesSound, NEW ids \in Seq(Chunks), ids # <<>>, Exists(Head(ids)), Chained(files, ids)
  PROVE  LET r == MergedAll(ids)
         IN  /\ r # NoResponse
             /\ files[Head(ids)].from <= r.to
             /\ UpTo(r.msgs, r.to)
             /\ ~r.limited => (files[Head(ids)].from + 1)..r.to \subseteq r.msgs
<1>. DEFINE r == MergedAll(ids)
            n == Len(ids)
            f(i) == files[ids[i]]
            found == {i \in DOMAIN ids : Exists(ids[i])}
            ungapped == {i \in found : \A j \in found : j > i => ~f(j).limited}
<1>1. /\ n \in Nat /\ DOMAIN ids = 1..n /\ 1 \in 1..n /\ n \in 1..n /\ Head(ids) = ids[1] /\ Last(ids) = ids[n]
      /\ \A i \in 1..n : ids[i] \in Chunks
  BY ListFacts
<1>2. files \in [Chunks -> Response]
  BY DEF TypeInv, TypeOK
<1>3. \A i \in 1..n : Exists(ids[i]) /\ (1 < i => f(1).to <= f(i).from)
  BY <1>1, <1>2, ChainLast DEF Exists
<1>4. found = 1..n
  BY <1>1, <1>3
<1>5. ASSUME NEW i \in 1..n
      PROVE  /\ f(i).from \in Nat /\ f(i).to \in Nat /\ f(i).msgs \subseteq Nat
             /\ 1 <= f(i).from /\ f(i).from <= f(i).to /\ UpTo(f(i).msgs, f(i).to)
             /\ ~f(i).limited => f(i).msgs = (f(i).from + 1)..f(i).to
  BY <1>1, <1>2, <1>3, ResponseNumbers DEF FilesSound, Sound
<1>6. ASSUME NEW i \in 1..n, NEW j \in 1..n, i < j
      PROVE  f(i).to <= f(j).from
  BY <1>1, <1>3, <1>6 DEF Chained, Exists
<1>7. ASSUME NEW i \in 1..n, NEW m \in (f(i).from + 1)..f(n).to
      PROVE  \E j \in 1..n : j >= i /\ f(j).from < m /\ m <= f(j).to
  BY <1>1, <1>3, <1>7 DEF Chained, Exists
<1>8. /\ r.from = f(1).from /\ r.to = f(n).to
      /\ r.msgs = UNION {f(i).msgs : i \in ungapped}
      /\ r.limited = \E i \in 1..n : f(i).limited
  <2>1. /\ Min(found) \in found /\ \A i \in found : Min(found) <= i
        /\ Max(found) \in found /\ \A i \in found : i <= Max(found)
        /\ r.from = f(Min(found)).from /\ r.to = f(Max(found)).to
        /\ r.msgs = UNION {f(i).msgs : i \in ungapped}
        /\ r.limited = \E i \in found : f(i).limited
    <3>1. found # {}
      BY <1>1, <1>4
    <3>. QED
      BY <3>1, MergedAllFacts DEF TypeInv
  <2>. HIDE DEF found, r
  <2>2. Min(found) = 1 /\ Max(found) = n
    BY <1>1, <1>4, <2>1
  <2>. QED
    BY <1>4, <2>1, <2>2
<1>9. ungapped = {i \in 1..n : \A j \in 1..n : j > i => ~f(j).limited}
  BY <1>4
<1>. HIDE DEF r, n, found, f, ungapped
<1>10. \A i \in 1..n : f(i).to <= r.to
  <2>1. ASSUME NEW i \in 1..n, i # n
        PROVE  f(i).to <= f(n).to
    <3>1. f(i).to <= f(n).from
      BY <1>1, <1>6, <2>1
    <3>. QED
      BY <1>1, <1>5, <3>1
  <2>. QED
    BY <1>1, <1>5, <1>8, <2>1
<1>11. UpTo(r.msgs, r.to)
  <2>1. \A m \in r.msgs : \E i \in ungapped : m \in f(i).msgs
    BY <1>8
  <2>2. ASSUME NEW m \in r.msgs
        PROVE  m <= r.to
    <3>1. PICK i \in 1..n : m \in f(i).msgs
      BY <1>9, <2>1
    <3>2. m \in Nat /\ m <= f(i).to /\ f(i).to <= r.to /\ f(i).to \in Nat /\ r.to \in Nat
      BY <1>1, <1>5, <1>8, <1>10, <3>1 DEF UpTo
    <3>. QED
      BY <3>2
  <2>3. ASSUME NEW m \in r.msgs, NEW k \in m..r.to
        PROVE  k \in r.msgs
    <3>1. PICK i \in ungapped : m \in f(i).msgs
      BY <2>1
    <3>2. i \in 1..n /\ m \in Nat /\ f(i).to \in Nat /\ r.to \in Nat /\ f(i).from \in Nat /\ f(i).from <= f(i).to
      BY <1>1, <1>5, <1>8, <1>9, <3>1
    <3>3. CASE k <= f(i).to
      <4>1. k \in f(i).msgs
        BY <1>5, <3>1, <3>2, <3>3 DEF UpTo
      <4>. QED
        BY <1>8, <4>1
    <3>4. CASE ~(k <= f(i).to)
      <4>1. k \in (f(i).from + 1)..f(n).to
        BY <1>8, <3>2, <3>4
      <4>2. PICK j \in 1..n : j >= i /\ f(j).from < k /\ k <= f(j).to
        BY <1>7, <3>2, <4>1
      <4>3. j > i
        BY <3>2, <3>4, <4>2
      <4>4. ~f(j).limited /\ j \in ungapped
        BY <1>9, <3>1, <3>2, <4>2, <4>3
      <4>5. k \in f(j).msgs
        BY <1>5, <3>2, <4>2, <4>4
      <4>. QED
        BY <1>8, <4>4, <4>5
    <3>. QED
      BY <3>3, <3>4
  <2>. QED
    BY <2>2, <2>3 DEF UpTo
<1>12. ASSUME ~r.limited, NEW k \in (f(1).from + 1)..r.to
       PROVE  k \in r.msgs
  <2>1. PICK j \in 1..n : f(j).from < k /\ k <= f(j).to
    BY <1>1, <1>7, <1>8, <1>12
  <2>2. j \in ungapped /\ ~f(j).limited
    BY <1>8, <1>9, <1>12
  <2>3. k \in f(j).msgs
    BY <1>1, <1>5, <1>8, <1>12, <2>1, <2>2
  <2>. QED
    BY <1>8, <2>2, <2>3
<1>13. f(1).from <= r.to /\ r # NoResponse
  <2>1. f(1).from <= f(1).to /\ f(1).to <= r.to /\ r.from # 0
    BY <1>1, <1>5, <1>8, <1>10
  <2>2. f(1).from \in Nat /\ f(1).to \in Nat /\ r.to \in Nat
    BY <1>1, <1>5, <1>8
  <2>. QED
    BY <2>1, <2>2, NoResponseFacts
<1>. QED
  BY <1>1, <1>11, <1>12, <1>13 DEF r, f

(***************************************************************************)
(* No silent gap.                                                          *)
(***************************************************************************)
\* Nothing follows from lists that are empty.
LEMMA FollowsNothing ==
  ASSUME NEW f, NEW a, NEW b
  PROVE  Follows(f, a, b, NoMetaData)
<1>1. ToSet(<<>>) = {} /\ \A s : Behind(f, s, <<>>)
  BY DEF ToSet, Behind
<1>. QED
  BY <1>1, EmptyChain, NoMetaDataFacts DEF Follows

LEMMA GapInit == Init => Gapless
<1>. SUFFICES ASSUME Init
              PROVE  Gapless
  OBVIOUS
<1>1. Timelines
  <2>1. UpTo({}, 0) /\ UpTo({1} \cap MsgPos, 1)
    BY DEF UpTo
  <2>. QED
    BY <2>1 DEF Timelines, Init, Down
<1>2. FilesSound
  BY DEF FilesSound, Exists, Init
<1>3. InFile
  BY FollowsNothing DEF InFile, Init, Down
<1>4. ToRead /\ ToDelete /\ ToWrite
  BY DEF ToRead, ToDelete, ToWrite, Reading, Init, Down, Off
<1>. QED
  BY <1>1, <1>2, <1>3, <1>4 DEF Gapless

\* A step of the application that leaves the cache alone, and what it has read of it.
LEMMA GapOfHandling ==
  ASSUME Gapless, UNCHANGED <<cache, service>>, ~app'.truncated, Timelines', ToRead', ToDelete',
         app'.stage \in Removing => Behind(files, meta.ids, app'.ids),
         Reading' /\ bg.chunk \in ToSet(app'.ids) =>
           \/ Reading /\ app'.ids = app.ids
           \/ app'.ids = meta.ids
  PROVE  Gapless'
<1>1. files' = files /\ meta' = meta /\ bg' = bg
  BY DEF cache, service
<1>2. FilesSound'
  BY <1>1 DEF Gapless, FilesSound, Exists
<1>3. ToWrite'
  BY <1>1 DEF Gapless, ToWrite, Exists, InFile, Follows
<1>4. Follows(files, app', bg, meta)
  BY DEF Gapless, InFile, Follows
<1>5. InFile'
  BY <1>1, <1>4 DEF InFile
<1>. QED
  BY <1>2, <1>3, <1>5 DEF Gapless

LEMMA GapOfApp ==
  ASSUME Gapless, UNCHANGED <<cache, service>>, ~app'.truncated, Timelines',
         Reading' => Reading /\ app'.ids = app.ids /\ app'.token = app.token,
         app'.stage \in Removing => app'.stage = app.stage /\ app'.ids = app.ids
  PROVE  Gapless'
<1>1. files' = files /\ meta' = meta /\ bg' = bg
  BY DEF cache, service
<1>2. ToRead'
  BY <1>1 DEF Gapless, ToRead, Exists
<1>3. ToDelete'
  BY <1>1 DEF Gapless, ToDelete, Exists, Removing
<1>4. app'.stage \in Removing => Behind(files, meta.ids, app'.ids)
  BY DEF Gapless, InFile, Follows
<1>. QED
  BY <1>2, <1>3, <1>4, GapOfHandling

\* A step of the service that leaves the cache alone, and brings no response.
LEMMA GapOfService ==
  ASSUME Gapless, UNCHANGED <<cache, app, disk>>, bg'.stage \notin {"write", "register"},
         bg'.stage = "sync" => ~app.truncated /\ bg'.from # 0 /\ EndsAt(files, meta.ids, bg'.from)
  PROVE  Gapless'
<1>1. files' = files /\ meta' = meta /\ app' = app /\ disk' = disk
  BY DEF cache
<1>2. Timelines' /\ FilesSound'
  BY <1>1 DEF Gapless, Timelines, FilesSound, Exists
<1>3. ToRead'
  BY <1>1 DEF Gapless, ToRead, Reading, Exists
<1>4. ToDelete'
  BY <1>1 DEF Gapless, ToDelete, Exists
<1>5. ToWrite'
  BY <1>1 DEF ToWrite
<1>6. Follows(files, app, bg', meta) /\ (app.truncated => Follows(files, app, bg', app.meta))
  BY DEF Gapless, InFile, Follows
<1>7. InFile'
  BY <1>1, <1>6 DEF Gapless, InFile
<1>. QED
  BY <1>2, <1>3, <1>4, <1>5, <1>7 DEF Gapless

\* Metadata are written.
LEMMA GapOfMetaData ==
  ASSUME Gapless, UNCHANGED <<files, disk>>, app'.token = app.token, app'.msgs = app.msgs, ~Reading', ~Reading,
         InFile', ToDelete', ToWrite'
  PROVE  Gapless'
<1>1. Timelines' /\ FilesSound'
  BY DEF Gapless, Timelines, FilesSound, Exists
<1>2. ToRead'
  BY DEF ToRead
<1>. QED
  BY <1>1, <1>2 DEF Gapless

\* The next /sync goes on where the last response that can be read ends.
LEMMA GapOfLaunch ==
  ASSUME TypeInv, Gapless, LaunchBackgroundSync
  PROVE  /\ bg'.stage \in {"idle", "sync"}
         /\ bg'.stage = "sync" => bg'.from # 0 /\ EndsAt(files, meta.ids, bg'.from)
<1>1. CASE bg' = [Off EXCEPT !.stage = "idle", !.token = bg.token]
  BY <1>1, TypeOfDone DEF Done
<1>2. ASSUME NEW from \in 1..pos, from = NextSyncToken \/ (NextSyncToken = 0 /\ from = bg.token),
             bg' = [bg EXCEPT !.stage = "sync", !.from = from, !.response = NoResponse]
      PROVE  bg'.stage = "sync" /\ bg'.from # 0 /\ EndsAt(files, meta.ids, bg'.from)
  <2>1. bg'.stage = "sync" /\ bg'.from = from /\ from # 0
    BY <1>2, Fields DEF TypeInv, TypeOK, Service
  <2>2. ASSUME meta.ids # <<>>, Exists(Last(meta.ids))
        PROVE  files[Last(meta.ids)].to = from
    <3>1. Last(meta.ids) \in Chunks /\ NextSyncToken = files[Last(meta.ids)].to
      BY <2>2, TokenFacts, Fields DEF TypeInv, ListedIn
    <3>2. Sound(files[Last(meta.ids)]) /\ files[Last(meta.ids)] \in Response
      BY <2>2, <3>1, Fields DEF Gapless, FilesSound
    <3>3. files[Last(meta.ids)].to # 0
      BY <3>2, ResponseNumbers DEF Sound
    <3>. QED
      BY <1>2, <3>1, <3>3
  <2>. QED
    BY <2>1, <2>2 DEF EndsAt, Exists
<1>. QED
  BY <1>1, <1>2, LaunchFacts

LEMMA GapStep ==
  ASSUME TypeInv, TypeInv', Gapless, ~undone', [Next]_vars
  PROVE  Gapless'
<1>1. /\ Timelines /\ FilesSound /\ InFile /\ ToRead /\ ToDelete /\ ToWrite
      /\ files \in [Chunks -> Response] /\ UpTo({}, 0)
      /\ Follows(files, app, bg, meta) /\ Chained(files, meta.ids)
      /\ app.truncated => app.stage = "unlist"
  BY DEF Gapless, InFile, Follows, TypeInv, TypeOK, UpTo, Deleting
<1>2. UpTo(app.msgs, app.token) /\ UpTo(disk.msgs, disk.token)
  BY <1>1 DEF Timelines
<1>3. ASSUME UNCHANGED <<files, meta, app, bg>>, Timelines'
      PROVE  Gapless'
  BY <1>1, <1>3 DEF Gapless, FilesSound, InFile, ToRead, ToDelete, ToWrite, Reading, Exists
<1>4. CASE ServerEvent \/ UNCHANGED vars
  BY <1>1, <1>3, <1>4 DEF ServerEvent, vars, cache, service, Timelines
<1>5. CASE AppPause
  <2>1. app'.stage = "paused" /\ app'.token = app.token /\ app'.msgs = app.msgs /\ ~app'.truncated
    BY <1>1, <1>5 DEF AppPause, TypeInv, TypeOK, App
  <2>. QED
    BY <1>1, <1>2, <1>5, <2>1, GapOfApp DEF AppPause, Timelines, Reading, Removing
<1>6. ASSUME NEW token \in 0..pos, NEW msgs \in SUBSET MsgPos, UpTo(msgs, token), HandleCache(token, msgs),
             UNCHANGED <<server, cache, disk, appKeys, service, kills>>
      PROVE  Gapless'
  <2>1. /\ app'.token = token /\ app'.msgs = msgs
        /\ app'.stage = "outdated" \/ (app'.stage = "running" /\ app'.ids = <<>>)
        /\ ~app'.truncated
        /\ \/ app'.ids = <<>>
           \/ meta.ids # <<>> /\ token # 0 /\ files[Head(meta.ids)].from = token /\ app'.ids = meta.ids
    BY <1>6, HandleCacheFacts DEF TypeInv
  <2>2. files' = files /\ meta' = meta /\ bg' = bg /\ disk' = disk
    BY <1>6 DEF cache, service
  <2>3. Timelines'
    BY <1>2, <1>6, <2>1, <2>2 DEF Timelines
  <2>4. ToSet(<<>>) = {} /\ IsInjective(<<>>) /\ IsInjective(meta.ids)
    BY Fields DEF ToSet, IsInjective, ListsOnce
  <2>5. CASE app'.ids = <<>>
    <3>1. ToRead'
      BY <2>2, <2>4, <2>5, EmptyChain DEF ToRead
    <3>2. ToDelete' /\ app'.stage \notin Removing
      BY <2>1 DEF ToDelete, Removing
    <3>. QED
      BY <1>6, <2>1, <2>3, <2>4, <2>5, <3>1, <3>2, GapOfHandling
  <2>6. CASE meta.ids # <<>> /\ token # 0 /\ files[Head(meta.ids)].from = token /\ app'.ids = meta.ids
    <3>1. Exists(Head(meta.ids))
      BY <2>6, NoResponseFacts DEF Exists
    <3>2. ToRead'
      BY <1>1, <2>1, <2>2, <2>4, <2>6, <3>1 DEF ToRead, Exists
    <3>3. ToDelete' /\ app'.stage \notin Removing
      BY <2>1 DEF ToDelete, Removing
    <3>. QED
      BY <1>6, <2>1, <2>3, <2>6, <3>2, <3>3, GapOfHandling
  <2>. QED
    BY <2>1, <2>5, <2>6
<1>7. CASE AppStart \/ AppResume
  BY <1>2, <1>6, <1>7, Fields DEF AppStart, AppResume
<1>8. CASE HandleOutdated
  <2>1. /\ app.stage = "outdated" /\ app'.stage = "valid" /\ app'.token = app.token /\ app'.msgs = app.msgs
        /\ app'.ids = app.ids /\ UNCHANGED <<cache, disk, service>> /\ ~app'.truncated
    BY <1>1, <1>8 DEF HandleOutdated, TypeInv, TypeOK, App
  <2>. QED
    BY <1>2, <2>1, GapOfApp DEF Timelines, Reading, Removing
<1>9. CASE HandleValid
  <2>. DEFINE r == MergedAll(app.ids)
  <2>1. /\ app.stage = "valid" /\ app'.stage = "handled" /\ UNCHANGED <<cache, disk, service>> /\ ~app'.truncated
        /\ app'.token = IF r = NoResponse THEN app.token ELSE r.to
        /\ app'.msgs = IF r = NoResponse THEN app.msgs ELSE IF r.limited THEN r.msgs ELSE app.msgs \cup r.msgs
    BY <1>1, <1>9 DEF HandleValid, Handled, TypeInv, TypeOK, App
  <2>2. r \in Response /\ (app.ids = <<>> => r = NoResponse)
    <3>1. r \in Response /\ ({i \in DOMAIN app.ids : Exists(app.ids[i])} = {} => r = NoResponse)
      BY Fields, MergedAllFacts DEF TypeInv
    <3>. QED
      BY <3>1
  <2>3. app.ids # <<>> => /\ app.token <= r.to /\ UpTo(r.msgs, r.to)
                          /\ ~r.limited => (app.token + 1)..r.to \subseteq r.msgs
    BY <1>1, <2>1, Fields, ChainMerged DEF ToRead, Reading
  <2>. HIDE DEF r
  <2>4. app.token \in Nat /\ app.msgs \subseteq Nat /\ r.to \in Nat /\ r.msgs \subseteq Nat
    <3>1. app.token \in Nat /\ app.msgs \subseteq MsgPos /\ MsgPos \subseteq Nat
      <4>1. app.token \in Nat
        BY Numbers
      <4>2. app.msgs \subseteq MsgPos
        BY Fields
      <4>3. MsgPos \subseteq Nat
        BY Constants
      <4>. QED
        BY <4>1, <4>2, <4>3
    <3>. QED
      BY <2>2, <3>1, ResponseNumbers
  <2>5. UpTo(app'.msgs, app'.token)
    <3>1. CASE r = NoResponse
      BY <1>2, <2>1, <3>1
    <3>2. CASE r # NoResponse /\ r.limited
      BY <2>1, <2>2, <2>3, <3>2
    <3>3. CASE r # NoResponse /\ ~r.limited
      BY <1>2, <2>1, <2>2, <2>3, <2>4, <3>3, JoinUpTo
    <3>. QED
      BY <3>1, <3>2, <3>3
  <2>. QED
    BY <1>2, <2>1, <2>5, GapOfApp DEF Timelines, Reading, Removing
<1>10. CASE StartDelete
  <2>. DEFINE u == meta.outdated \o meta.ids
  <2>1. /\ app.stage = "handled" /\ app'.stage = "delete" /\ app'.token = app.token /\ app'.msgs = app.msgs
        /\ app'.ids = u /\ UNCHANGED <<cache, disk, service>> /\ ~app'.truncated
    BY <1>1, <1>10 DEF StartDelete, TypeInv, TypeOK, App
  <2>2. files' = files /\ meta' = meta /\ bg' = bg
    BY <2>1 DEF cache, service
  <2>3. Behind(files, meta.ids, u)
    <3>1. Behind(files, meta.ids, meta.ids) /\ ToSet(meta.outdated) \cap ToSet(meta.ids) = {}
      BY Fields, BehindItself DEF ListsOnce
    <3>. QED
      BY <3>1, Fields, BehindConcat
  <2>4. bg.stage = "register" => Behind(files, bg.meta.ids, u)
    BY <1>1, Fields, BehindConcat DEF Follows
  <2>. HIDE DEF u
  <2>5. ToDelete'
    BY <2>1, <2>2, <2>4 DEF ToDelete
  <2>6. ToRead' /\ ~Reading' /\ Timelines'
    BY <1>2, <2>1 DEF ToRead, Reading, Timelines
  <2>. QED
    BY <2>1, <2>3, <2>5, <2>6, GapOfHandling
<1>11. CASE AppSync
  <2>. DEFINE r == Answer(app.token)
  <2>1. r \in Response /\ r.to = pos /\ UpTo(r.msgs, pos) /\ (~r.limited => r.msgs = (app.token + 1)..pos)
    BY Fields, AnswerFacts DEF TypeInv
  <2>. HIDE DEF r
  <2>2. /\ app'.stage = "running" /\ app'.token = r.to /\ UNCHANGED <<cache, disk, service>> /\ ~app'.truncated
        /\ app'.msgs = IF r.limited THEN r.msgs ELSE app.msgs \cup r.msgs
    BY <1>1, <1>11 DEF AppSync, Handled, r, TypeInv, TypeOK, App
  <2>3. app.token \in Nat /\ pos \in Nat /\ app.token <= pos /\ app.msgs \subseteq Nat /\ r.msgs \subseteq Nat
    <3>1. app.token \in Nat /\ pos \in Nat /\ app.token <= pos /\ app.msgs \subseteq MsgPos /\ MsgPos \subseteq Nat
      <4>1. pos \in Nat /\ app.token \in 0..pos
        BY Numbers
      <4>2. app.msgs \subseteq MsgPos
        BY Fields
      <4>3. MsgPos \subseteq Nat
        BY Constants
      <4>. QED
        BY <4>1, <4>2, <4>3
    <3>. QED
      BY <2>1, <3>1, ResponseNumbers
  <2>4. UpTo(app'.msgs, app'.token)
    <3>1. CASE r.limited
      BY <2>1, <2>2, <3>1
    <3>2. CASE ~r.limited
      <4>1. UpTo(app.msgs \cup r.msgs, pos)
        BY <1>2, <2>1, <2>3, <3>2, JoinUpTo
      <4>. QED
        BY <2>1, <2>2, <3>2, <4>1
    <3>. QED
      BY <3>1, <3>2
  <2>. QED
    BY <1>2, <2>2, <2>4, GapOfApp DEF Timelines, Reading, Removing
<1>12. CASE AppLongPoll
  BY <1>1, <1>3, <1>12 DEF AppLongPoll, cache, service, Timelines
<1>13. CASE Commit
  <2>1. /\ disk'.token = app.token /\ disk'.msgs = app.msgs /\ UNCHANGED <<cache, app, service>>
    BY <1>13 DEF Commit
  <2>. QED
    BY <1>2, <1>3, <2>1 DEF Timelines, cache, service
<1>14. CASE AppKilled
  <2>1. /\ app'.stage = "down" /\ app'.token = 0 /\ app'.msgs = {} /\ UNCHANGED <<cache, disk, service>>
        /\ ~app'.truncated
    BY <1>14 DEF AppKilled, Down
  <2>. QED
    BY <1>1, <1>2, <2>1, GapOfApp DEF Timelines, Reading, Removing
<1>15. CASE ClearCache
  <2>1. disk'.token = 0 /\ disk'.msgs = {} /\ UNCHANGED <<cache, app, service>>
    BY <1>15 DEF ClearCache
  <2>. QED
    BY <1>1, <1>2, <1>3, <2>1 DEF Timelines, cache, service
<1>16. CASE ServiceStart \/ ServiceEnds \/ ServiceKilled
  <2>1. disk.token \in Pos
    BY DEF TypeInv, TypeOK, Timeline
  <2>2. bg'.stage \in {"off", "idle"} /\ UNCHANGED <<cache, app, disk>>
    BY <1>16, <2>1, ReplacedFacts DEF ServiceStart, ServiceEnds, ServiceKilled
  <2>. QED
    BY <2>2, GapOfService
<1>17. CASE \E e \in MsgPos : Event(e)
  <2>. PICK e \in MsgPos : Event(e)
    BY <1>17
  <2>1. bg'.stage \in {"mark", "look"} /\ UNCHANGED <<cache, app, disk>>
    BY DEF Event, TypeInv, TypeOK, Service
  <2>. QED
    BY <2>1, GapOfService
<1>18. CASE Fetched \/ SyncFails
  BY <1>18, TypeOfDone, GapOfService DEF Fetched, SyncFails
<1>19. CASE Look \/ HandleToDeviceEvents
  <2>1. UNCHANGED <<cache, app, disk>> /\ ~app.truncated
    BY <1>19 DEF Look, HandleToDeviceEvents, Undoes
  <2>2. CASE LaunchBackgroundSync
    BY <2>1, <2>2, GapOfLaunch, GapOfService
  <2>3. CASE ~LaunchBackgroundSync
    <3>1. Done \/ bg'.stage \in {"fetch", "look"}
      BY <1>19, <2>3 DEF Look, Decrypt, HandleToDeviceEvents, TypeInv, TypeOK, Service
    <3>. QED
      BY <2>1, <3>1, TypeOfDone, GapOfService
  <2>. QED
    BY <2>2, <2>3
<1>20. CASE ServiceTruncates
  <2>1. /\ meta' = NoMetaData /\ bg.stage \in {"mark", "register"} /\ UNCHANGED <<files, app, disk>>
        /\ bg'.stage = bg.stage /\ bg'.meta = bg.meta /\ bg'.chunk = bg.chunk
    BY <1>20 DEF ServiceTruncates, TypeInv, TypeOK, Service
  <2>2. Timelines' /\ FilesSound'
    BY <1>1, <2>1 DEF Timelines, FilesSound, Exists
  <2>3. ToRead' /\ ToDelete' /\ ToWrite'
    BY <1>1, <2>1, NoMetaDataFacts DEF ToRead, ToDelete, ToWrite, Reading, Exists
  <2>4. app.truncated => Follows(files, app, bg', app.meta)
    BY <1>1, <2>1 DEF InFile, Follows
  <2>5. InFile'
    BY <2>1, <2>4, FollowsNothing DEF InFile
  <2>. QED
    BY <2>2, <2>3, <2>5 DEF Gapless
<1>21. CASE MarkOutdated
  <2>1. /\ meta'.ids = <<>> /\ bg'.stage = "look" /\ UNCHANGED <<files, app, disk>> /\ ~app.truncated
    BY <1>21 DEF MarkOutdated, Undoes, TypeInv, TypeOK, Service
  <2>2. Timelines' /\ FilesSound'
    BY <1>1, <2>1 DEF Timelines, FilesSound, Exists
  <2>3. ToRead'
    BY <1>1, <2>1 DEF ToRead, Reading, Exists
  <2>4. ToDelete' /\ ToWrite'
    BY <1>1, <2>1 DEF ToDelete, ToWrite, Exists
  <2>5. InFile'
    BY <2>1, EmptyChain DEF InFile, Follows
  <2>. QED
    BY <2>2, <2>3, <2>4, <2>5 DEF Gapless
<1>22. CASE SyncSucceeds
  <2>. DEFINE r == Answer(bg.from)
              last == Last(meta.ids)
  <2>1. /\ bg.stage = "sync" /\ bg.from \in 1..pos /\ EndsAt(files, meta.ids, bg.from) /\ ~bg.fresh
        /\ app.truncated => EndsAt(files, app.meta.ids, bg.from)
    <3>1. bg.stage = "sync"
      BY <1>22 DEF SyncSucceeds
    <3>2. /\ bg.from # 0 /\ EndsAt(files, meta.ids, bg.from) /\ ~bg.fresh
          /\ app.truncated => EndsAt(files, app.meta.ids, bg.from)
      BY <1>1, <3>1 DEF ToWrite, InFile, Follows, TypeInv, Unlisted
    <3>3. bg.from \in 1..pos
      BY <3>2, Fields
    <3>. QED
      BY <3>1, <3>2, <3>3
  <2>2. r \in Response /\ Sound(r) /\ r.from = bg.from /\ r.to = pos
    <3>1. /\ r \in Response /\ r.from = bg.from /\ r.to = pos /\ UpTo(r.msgs, pos)
          /\ ~r.limited => r.msgs = (bg.from + 1)..pos
      BY Fields, AnswerFacts DEF TypeInv
    <3>. HIDE DEF r
    <3>2. 1 <= r.from /\ r.from <= r.to
      BY <2>1, <3>1, Fields
    <3>. QED
      BY <3>1, <3>2 DEF Sound
  <2>3. UNCHANGED <<cache, app, disk>>
    BY <1>22 DEF SyncSucceeds
  <2>4. files' = files /\ meta' = meta /\ app' = app /\ disk' = disk
    BY <2>3 DEF cache
  <2>. HIDE DEF r
  <2>5. ASSUME NEW c \in Free, bg' = [[bg EXCEPT !.stage = "write", !.from = 0, !.response = r]
                                        EXCEPT !.chunk = c, !.fresh = TRUE, !.content = r]
        PROVE  ToWrite' /\ ToDelete' /\ InFile'
    <3>1. bg'.stage = "write" /\ bg'.chunk = c /\ bg'.fresh /\ bg'.content = r /\ ~Exists(c)
      BY <2>5 DEF Free, TypeInv, TypeOK, Service
    <3>2. ToWrite'
      BY <2>1, <2>2, <2>4, <3>1 DEF ToWrite, Exists
    <3>3. Follows(files, app, bg', meta) /\ (app.truncated => Follows(files, app, bg', app.meta))
      BY <1>1, <2>1, <2>2, <3>1 DEF InFile, Follows
    <3>4. InFile'
      BY <1>1, <2>4, <3>3 DEF InFile
    <3>. QED
      BY <1>1, <2>4, <3>1, <3>2, <3>4 DEF ToDelete, Exists
  <2>6. ASSUME meta.ids # <<>>, Exists(last),
               bg' = [[bg EXCEPT !.stage = "write", !.from = 0, !.response = r]
                        EXCEPT !.chunk = last, !.content = Merged(files[last], r)]
        PROVE  ToWrite' /\ ToDelete' /\ InFile'
    <3>1. /\ bg'.stage = "write" /\ bg'.chunk = last /\ ~bg'.fresh /\ bg'.content = Merged(files[last], r)
      BY <2>1, <2>6 DEF TypeInv, TypeOK, Service
    <3>2. last \in Chunks /\ files[last] \in Response /\ Sound(files[last]) /\ files[last].to = r.from
      <4>1. last \in Chunks
        BY <2>6, Fields, ListFacts
      <4>. QED
        BY <1>1, <2>1, <2>2, <2>6, <4>1 DEF FilesSound, EndsAt, Exists
    <3>3. /\ Sound(bg'.content) /\ files[last].to <= bg'.content.to /\ bg'.content.from = files[last].from
      <4>1. Sound(Merged(files[last], r)) /\ files[last].to <= r.to
        BY <2>2, <3>2, SoundMerged
      <4>2. Merged(files[last], r).to = r.to /\ Merged(files[last], r).from = files[last].from
        BY <2>2, <3>2, MergedFacts
      <4>. QED
        BY <3>1, <4>1, <4>2
    <3>4. Reading /\ last \in ToSet(app.ids) => last = Last(app.ids)
      BY <1>1, <2>6 DEF ToRead
    <3>. HIDE DEF last
    <3>5. ToWrite'
      <4>1. Reading' = Reading
        BY <2>4 DEF Reading
      <4>. QED
        BY <2>4, <3>1, <3>3, <3>4, <4>1 DEF ToWrite, Exists, last
    <3>6. Follows(files, app, bg', meta) /\ ~app.truncated
      BY <1>1, <2>6, <3>1, NoMetaDataFacts DEF InFile, Follows, last
    <3>7. InFile'
      BY <2>4, <3>6 DEF InFile
    <3>. QED
      BY <1>1, <2>4, <3>1, <3>5, <3>7 DEF ToDelete, Exists
  <2>7. ToWrite' /\ ToDelete' /\ InFile'
    BY <1>22, <2>5, <2>6 DEF SyncSucceeds, r
  <2>8. Timelines' /\ FilesSound' /\ ToRead'
    BY <1>1, <2>4 DEF Timelines, FilesSound, ToRead, Reading, Exists
  <2>. QED
    BY <2>7, <2>8 DEF Gapless
<1>23. CASE WriteResponse
  <2>. DEFINE c == bg.chunk
              r == bg.content
  <2>1. /\ bg.stage = "write" /\ c \in Chunks /\ files' = [files EXCEPT ![c] = r]
        /\ meta' = meta /\ app' = app /\ disk' = disk
        /\ Sound(r) /\ r \in Response /\ (bg.fresh \/ Exists(c))
    BY <1>1, <1>23, Fields DEF WriteResponse, Undoes, TypeInv, Unlisted, ToWrite
  <2>2. \/ bg.fresh /\ bg'.stage = "register" /\ bg'.meta = meta /\ bg'.chunk = c
        \/ ~bg.fresh /\ bg'.stage = "feed"
    BY <1>23 DEF WriteResponse, TypeInv, TypeOK, Service
  <2>3. /\ bg.fresh => /\ c \notin ToSet(meta.ids) /\ c \notin ToSet(app.ids) /\ c \notin ToSet(app.meta.ids)
                       /\ EndsAt(files, meta.ids, r.from)
        /\ ~bg.fresh => /\ c \in ToSet(meta.ids) => c = Last(meta.ids)
                        /\ Reading /\ c \in ToSet(app.ids) => c = Last(app.ids)
                        /\ Exists(c) => r.from = files[c].from /\ files[c].to <= r.to
    BY <1>1, <2>1 DEF ToWrite, Follows, TypeInv, Unlisted, ListedIn
  <2>4. files' \in [Chunks -> Response] /\ r # NoResponse /\ r.from <= r.to
    BY <2>1, NoResponseFacts DEF TypeInv, TypeOK, Sound
  <2>5. files'[c] = r /\ \A d \in Chunks : d # c => files'[d] = files[d]
    BY <1>1, <2>1
  <2>. HIDE DEF c, r
  <2>6. FilesSound'
    BY <1>1, <2>1, <2>5 DEF FilesSound, Exists
  <2>7. ASSUME NEW ids \in Seq(Chunks), IsInjective(ids), Chained(files, ids), c \in ToSet(ids) => ~bg.fresh /\ c = Last(ids)
        PROVE  Chained(files', ids)
    <3>1. CASE c \notin ToSet(ids)
      <4>1. \A d \in ToSet(ids) : files'[d] = files[d]
        BY <2>5, <2>7, <3>1, ListFacts DEF ToSet
      <4>. QED
        BY <2>7, <4>1, ChainSame
    <3>2. CASE c \in ToSet(ids)
      <4>1. ids # <<>> /\ c = Last(ids) /\ ~bg.fresh
        BY <2>7, <3>2 DEF ToSet
      <4>2. files[Last(ids)] # NoResponse =>
              r.from = files[Last(ids)].from /\ files[Last(ids)].from <= files[Last(ids)].to
              /\ files[Last(ids)].to <= r.to
        BY <1>1, <2>1, <2>3, <4>1 DEF FilesSound, Sound, Exists
      <4>3. Chained([files EXCEPT ![Last(ids)] = r], ids)
        BY <1>1, <2>1, <2>4, <2>7, <4>1, <4>2, ChainExtend
      <4>. QED
        BY <2>1, <4>1, <4>3
    <3>. QED
      BY <3>1, <3>2
  <2>8. IsInjective(meta.ids) /\ Chained(files', meta.ids)
    BY <1>1, <2>3, <2>7, Fields DEF ListsOnce
  <2>9. ToRead'
    <3>1. ASSUME Reading
          PROVE  Chained(files', app.ids)
      BY <1>1, <2>3, <2>7, <3>1, Fields DEF ToRead
    <3>2. ASSUME Reading, app.ids # <<>>
          PROVE  files'[Head(app.ids)] # NoResponse /\ files'[Head(app.ids)].from = app.token
      <4>1. /\ Head(app.ids) \in ToSet(app.ids) /\ Head(app.ids) \in Chunks
            /\ Exists(Head(app.ids)) /\ files[Head(app.ids)].from = app.token
        BY <1>1, <3>2, Fields, ListFacts DEF ToRead, ToSet
      <4>. QED
        BY <2>3, <2>4, <2>5, <4>1 DEF Exists
    <3>. QED
      BY <1>1, <2>1, <3>1, <3>2 DEF ToRead, Reading, Exists
  <2>10. ASSUME NEW s \in Seq(Chunks), c \in ToSet(s) => ~bg.fresh, NEW t, Behind(files, s, t)
         PROVE  Behind(files', s, t)
    <3>1. ASSUME NEW j \in DOMAIN s, files'[s[j]] # NoResponse
          PROVE  files[s[j]] # NoResponse
      <4>1. s[j] \in Chunks /\ s[j] \in ToSet(s)
        BY ListFacts DEF ToSet
      <4>. QED
        BY <2>1, <2>5, <2>10, <3>1, <4>1 DEF Exists
    <3>. QED
      BY <2>10, <3>1, BehindGrows
  <2>11. ToDelete'
    <3>1. app.stage \in Removing => Behind(files', meta.ids, app.ids)
      BY <1>1, <2>3, <2>10, Lists DEF Follows
    <3>2. app.stage \in {"removed", "unlist"} => files'[Head(app.ids)] = NoResponse
      <4>1. app.stage \in {"removed", "unlist"} => Head(app.ids) \in ToSet(app.ids) /\ Head(app.ids) \in Chunks
        BY Lists, ListFacts DEF TypeInv, Deleting, ToSet
      <4>. QED
        BY <1>1, <2>1, <2>3, <2>5, <4>1 DEF ToDelete, Exists
    <3>. QED
      BY <2>1, <2>2, <3>1, <3>2 DEF ToDelete, Exists
  <2>14. ASSUME NEW m \in MetaData, m = meta \/ m = NoMetaData \/ (app.truncated /\ m = app.meta), ListsOnce(m),
                bg.fresh => c \notin ToSet(m.ids)
         PROVE  Follows(files', app, bg', m)
    <3>1. Follows(files, app, bg, m) /\ m.ids \in Seq(Chunks) /\ IsInjective(m.ids)
      BY <1>1, <2>14, FollowsNothing, MetaFacts DEF InFile, ListsOnce
    <3>2. Chained(files', m.ids)
      <4>1. c \in ToSet(m.ids) => ~bg.fresh /\ c = Last(m.ids)
        BY <2>1, <2>14, <3>1 DEF Follows, c
      <4>. QED
        BY <2>7, <3>1, <4>1 DEF Follows
    <3>3. app.stage \in Removing => Behind(files', m.ids, app.ids)
      BY <2>10, <2>14, <3>1 DEF Follows
    <3>4. bg.fresh => Behind(files', meta.ids, m.ids) /\ ToSet(m.outdated) \cap ToSet(meta.ids) = {}
      <4>1. CASE m = meta
        BY <4>1, Fields, BehindItself DEF ListsOnce
      <4>2. CASE m # meta
        <5>1. (m.ids = <<>> /\ m.outdated = <<>>) \/ meta.ids = <<>>
          BY <1>1, <2>14, <4>2, NoMetaDataFacts DEF InFile
        <5>2. ToSet(<<>>) = {} /\ \A f, s : Behind(f, s, <<>>) /\ Behind(f, <<>>, s)
          BY DEF ToSet, Behind
        <5>. QED
          BY <5>1, <5>2
      <4>. QED
        BY <4>1, <4>2
    <3>. QED
      BY <2>2, <3>2, <3>3, <3>4 DEF Follows
  <2>15. InFile'
    <3>1. Follows(files', app, bg', meta) /\ (app.truncated => Follows(files', app, bg', app.meta))
      BY <2>3, <2>14, Fields
    <3>. QED
      BY <1>1, <2>1, <3>1 DEF InFile
  <2>12. ToWrite'
    <3>1. CASE bg.fresh
      <4>1. c \notin ToSet(meta.ids) /\ files'[c] # NoResponse /\ files'[c] = r
        BY <2>3, <2>4, <2>5, <3>1
      <4>2. EndsAt(files', meta.ids, files'[c].from)
        <5>1. meta.ids # <<>> => Last(meta.ids) \in ToSet(meta.ids) /\ Last(meta.ids) \in Chunks
          BY Fields, ListFacts DEF ToSet
        <5>2. meta.ids # <<>> => files'[Last(meta.ids)] = files[Last(meta.ids)]
          BY <2>5, <4>1, <5>1
        <5>. QED
          BY <2>3, <3>1, <4>1, <5>2 DEF EndsAt
      <4>3. \A d \in Chunks : files'[d] # NoResponse => files'[d].from <= files'[d].to
        BY <2>6 DEF FilesSound, Sound, Exists
      <4>4. Chained(files', Append(meta.ids, c))
        BY <2>1, <2>4, <2>8, <4>1, <4>2, <4>3, Fields, ChainAppend
      <4>. QED
        BY <2>2, <3>1, <4>1, <4>4 DEF ToWrite, Exists
    <3>2. CASE ~bg.fresh
      BY <2>2, <3>2 DEF ToWrite
    <3>. QED
      BY <3>1, <3>2
  <2>13. Timelines'
    BY <1>2, <2>1 DEF Timelines
  <2>. QED
    BY <2>6, <2>9, <2>11, <2>12, <2>13, <2>15 DEF Gapless
<1>24. CASE RegisterResponse
  <2>1. /\ bg.stage = "register" /\ bg'.stage = "feed" /\ meta'.ids = Append(bg.meta.ids, bg.chunk)
        /\ files' = files /\ app' = app /\ disk' = disk /\ ~app.truncated
    BY <1>24, Fields DEF RegisterResponse, Undoes, TypeInv, TypeOK, Service, MetaData
  <2>2. /\ Chained(files, Append(bg.meta.ids, bg.chunk)) /\ bg.chunk \in Chunks /\ bg.chunk \notin ToSet(app.ids)
        /\ app.stage \in Removing => Behind(files, bg.meta.ids, app.ids)
    BY <1>1, <2>1 DEF ToWrite, ToDelete, TypeInv, Unlisted
  <2>3. Timelines' /\ FilesSound'
    BY <1>1, <2>1, <2>2 DEF Timelines, FilesSound, Exists
  <2>4. Last(meta'.ids) = bg.chunk
    <3>1. bg.meta.ids \in Seq(Chunks)
      BY Lists
    <3>. QED
      BY <2>1, <2>2, <3>1, AppendFacts
  <2>5. ToRead'
    BY <1>1, <2>1, <2>2, <2>4 DEF ToRead, Reading, Exists
  <2>6. app.stage \in Removing => Behind(files, Append(bg.meta.ids, bg.chunk), app.ids)
    BY <2>2, Fields, BehindAppend
  <2>7. ToDelete' /\ ToWrite'
    BY <1>1, <2>1 DEF ToDelete, ToWrite, Exists
  <2>8. InFile'
    BY <2>1, <2>2, <2>6 DEF InFile, Follows
  <2>. QED
    BY <2>3, <2>5, <2>7, <2>8 DEF Gapless
<1>25. CASE DeleteMetaData
  <2>1. /\ app.stage = "delete" /\ app.ids = <<>> /\ app'.stage = "running" /\ app'.token = app.token
        /\ app'.msgs = app.msgs /\ meta' = NoMetaData /\ UNCHANGED <<files, disk, service>> /\ ~app'.truncated
    BY <1>1, <1>25 DEF DeleteMetaData, TypeInv, TypeOK, App
  <2>2. bg' = bg /\ ~Reading' /\ ~Reading
    BY <2>1 DEF service, Reading
  <2>3. ToDelete' /\ ToWrite'
    BY <1>1, <2>1, <2>2 DEF ToDelete, ToWrite, Exists, Removing
  <2>4. InFile'
    BY <2>1, FollowsNothing DEF InFile
  <2>. QED
    BY <2>1, <2>2, <2>3, <2>4, GapOfMetaData
<1>26. CASE ReadMetaData
  <2>1. /\ app'.stage = "unlist" /\ app.stage = "removed" /\ app'.token = app.token /\ app'.msgs = app.msgs
        /\ app'.ids = app.ids /\ ~app'.truncated /\ UNCHANGED <<cache, disk, service>>
    BY <1>1, <1>26 DEF ReadMetaData, TypeInv, TypeOK, App
  <2>2. files' = files /\ bg' = bg /\ ~Reading'
    BY <2>1 DEF cache, service, Reading
  <2>3. ToDelete' /\ ToRead' /\ Timelines' /\ Behind(files, meta.ids, app'.ids)
    BY <1>1, <2>1, <2>2 DEF ToDelete, ToRead, Timelines, Exists, Follows, Removing
  <2>. QED
    BY <2>1, <2>2, <2>3, GapOfHandling
<1>27. CASE AppTruncates
  <2>1. /\ app.stage = "unlist" /\ app'.stage = "unlist" /\ app'.token = app.token /\ app'.msgs = app.msgs
        /\ app'.ids = app.ids /\ app'.truncated /\ app'.meta = app.meta /\ meta = app.meta
        /\ meta' = NoMetaData /\ UNCHANGED <<files, disk, service>>
    BY <1>27 DEF AppTruncates, Undoes, TypeInv, TypeOK, App
  <2>2. files' = files /\ bg' = bg /\ ~Reading' /\ ~Reading
    BY <2>1 DEF service, Reading
  <2>3. ToDelete' /\ ToWrite'
    BY <1>1, <2>1, <2>2 DEF ToDelete, ToWrite, Exists
  <2>4. Follows(files, app', bg, meta)
    BY <1>1, <2>1 DEF Follows
  <2>5. InFile'
    BY <2>1, <2>2, <2>4, FollowsNothing DEF InFile
  <2>. QED
    BY <2>1, <2>2, <2>3, <2>5, GapOfMetaData
<1>28. CASE DeleteSyncResponseId
  <2>. DEFINE h == Head(app.ids)
              m == app.meta
              left == [ids |-> RemoveFirst(m.ids, h), outdated |-> RemoveFirst(m.outdated, h)]
              rest == Tail(app.ids)
  <2>1. /\ app.truncated /\ app.stage = "unlist" /\ meta' = left /\ UNCHANGED <<files, disk, service>>
        /\ app'.stage = "delete" /\ app'.token = app.token /\ app'.msgs = app.msgs /\ app'.ids = rest
        /\ ~app'.truncated
    BY <1>1, <1>28 DEF DeleteSyncResponseId, TypeInv, TypeOK, App
  <2>2. files' = files /\ bg' = bg /\ ~Reading' /\ ~Reading
    BY <2>1 DEF service, Reading
  <2>3. /\ app.ids \in Seq(Chunks) /\ app.ids # <<>> /\ h \in Chunks /\ files[h] = NoResponse
        /\ Follows(files, app, bg, m)
    <3>1. app.ids # <<>> /\ ~Exists(Head(app.ids)) /\ app.ids \in Seq(Chunks)
      BY <1>1, <2>1, Lists DEF ToDelete, TypeInv, Deleting
    <3>. QED
      BY <1>1, <2>1, <3>1, ListFacts DEF InFile, Exists
  <2>4. /\ m \in MetaData /\ m.ids \in Seq(Chunks) /\ IsInjective(m.ids) /\ ListsOnce(m)
    BY Fields DEF ListsOnce
  <2>5. ToSet(left.ids) = ToSet(m.ids) \ {h} /\ ToSet(left.outdated) = ToSet(m.outdated) \ {h}
    BY <2>4, UnlistFacts
  <2>6. left.ids = RemoveFirst(m.ids, h)
    OBVIOUS
  <2>. HIDE DEF h, m, left, rest
  <2>7. ASSUME NEW s \in Seq(Chunks), Behind(files, s, app.ids)
        PROVE  /\ \A p \in DOMAIN s : s[p] = h => \A j \in 1..(p - 1) : files[s[j]] = NoResponse
               /\ Behind(files, s, rest)
    <3>1. \A p \in DOMAIN s : s[p] = h => \A j \in 1..(p - 1) : files[s[j]] = NoResponse
      BY <2>3, <2>7, BehindHead DEF h
    <3>2. /\ DOMAIN s \subseteq Nat /\ \A i \in DOMAIN s : 1..i \subseteq DOMAIN s
      BY ListFacts
    <3>3. \A j \in DOMAIN s : files[s[j]] # NoResponse => s[j] # Head(app.ids)
      BY <2>3 DEF h
    <3>4. Behind(files, s, rest)
      BY <2>3, <2>7, <3>2, <3>3, BehindTail DEF rest
    <3>. QED
      BY <3>1, <3>4
  <2>8. /\ \A p \in DOMAIN m.ids : m.ids[p] = h => \A j \in 1..(p - 1) : files[m.ids[j]] = NoResponse
        /\ Behind(files, m.ids, rest)
    BY <2>1, <2>3, <2>4, <2>7 DEF Follows, Removing
  <2>9. Chained(files, left.ids)
    BY <1>1, <2>3, <2>4, <2>6, <2>8, ChainRemove DEF Follows
  <2>10. Behind(files, left.ids, rest)
    BY <2>4, <2>6, <2>8, BehindRemoveLeft
  <2>11. \A token : EndsAt(files, m.ids, token) => EndsAt(files, left.ids, token)
    BY <2>3, <2>4, <2>6, <2>8, EndsAtRemove
  <2>12. bg.stage = "register" => /\ Behind(files, bg.meta.ids, left.ids)
                                  /\ ToSet(left.outdated) \cap ToSet(bg.meta.ids) = {}
    <3>1. bg.stage = "register" => /\ Behind(files, bg.meta.ids, m.ids)
                                   /\ ToSet(m.outdated) \cap ToSet(bg.meta.ids) = {}
      BY <2>3 DEF Follows
    <3>. QED
      BY <2>3, <2>4, <2>5, <2>6, <3>1, BehindRemoveRight
  <2>13. bg.stage = "write" /\ ~bg.fresh /\ bg.chunk \in ToSet(left.ids) => bg.chunk = Last(left.ids)
    <3>1. ASSUME bg.stage = "write", ~bg.fresh, bg.chunk \in ToSet(left.ids)
          PROVE  bg.chunk = Last(left.ids)
      <4>1. bg.chunk # h /\ bg.chunk \in ToSet(m.ids) /\ bg.chunk = Last(m.ids) /\ m.ids # <<>>
        <5>1. bg.chunk # h /\ bg.chunk \in ToSet(m.ids)
          BY <2>5, <3>1
        <5>2. bg.chunk = Last(m.ids)
          BY <2>3, <3>1, <5>1 DEF Follows
        <5>3. m.ids # <<>>
          BY <5>1 DEF ToSet
        <5>. QED
          BY <5>1, <5>2, <5>3
      <4>. QED
        BY <2>4, <2>6, <4>1, LastKept
    <3>. QED
      BY <3>1
  <2>14. Follows(files, app', bg, left)
    BY <2>1, <2>3, <2>9, <2>10, <2>11, <2>12, <2>13 DEF Follows
  <2>15. InFile'
    BY <2>1, <2>2, <2>14 DEF InFile
  <2>16. ToDelete' /\ ToWrite'
    <3>1. bg.stage = "register" => Behind(files, bg.meta.ids, rest)
      BY <1>1, <2>1, <2>7, Lists DEF ToDelete, Removing
    <3>. QED
      BY <1>1, <2>1, <2>2, <3>1 DEF ToDelete, ToWrite, Exists
  <2>. QED
    BY <2>1, <2>2, <2>15, <2>16, GapOfMetaData
<1>29. CASE RemoveSyncResponse
  <2>. DEFINE h == Head(app.ids)
  <2>1. /\ app.stage = "delete" /\ app.ids # <<>> /\ h \in Chunks /\ h \in ToSet(app.ids)
        /\ files' = [files EXCEPT ![h] = NoResponse] /\ UNCHANGED <<meta, disk, service>> /\ ~app.truncated
        /\ app'.stage = "removed" /\ app'.token = app.token /\ app'.msgs = app.msgs /\ app'.ids = app.ids
        /\ ~app'.truncated
    BY <1>1, <1>29, Fields, ListFacts DEF RemoveSyncResponse, ToSet, TypeInv, TypeOK, App
  <2>2. bg' = bg /\ disk' = disk /\ meta' = meta
    BY <2>1 DEF service
  <2>3. /\ files'[h] = NoResponse /\ \A d \in Chunks : d # h => files'[d] = files[d]
        /\ \A d \in Chunks : files'[d] # NoResponse => files[d] # NoResponse /\ d # h /\ files'[d] = files[d]
    BY <1>1, <2>1, NoResponseFacts
  <2>4. ASSUME NEW s \in Seq(Chunks), Behind(files, s, app.ids)
        PROVE  \A p \in DOMAIN s : s[p] = h => \A j \in 1..(p - 1) : files[s[j]] = NoResponse
    <3>1. app.ids \in Seq(Chunks) /\ app.ids # <<>>
      BY <2>1, Fields
    <3>. QED
      BY <2>4, <3>1, BehindHead
  <2>. HIDE DEF h
  <2>5. ASSUME NEW s \in Seq(Chunks), NEW t, Behind(files, s, t)
        PROVE  Behind(files', s, t)
    <3>1. \A j \in DOMAIN s : s[j] \in Chunks
      BY ListFacts
    <3>2. \A j \in DOMAIN s : files'[s[j]] # NoResponse => files[s[j]] # NoResponse
      BY <2>3, <3>1
    <3>. QED
      BY <2>5, <3>2, BehindGrows
  <2>6. /\ Behind(files, meta.ids, app.ids) /\ meta.ids \in Seq(Chunks) /\ bg.meta.ids \in Seq(Chunks)
        /\ bg.stage = "register" => /\ Behind(files, bg.meta.ids, meta.ids) /\ Behind(files, bg.meta.ids, app.ids)
                                    /\ ToSet(meta.outdated) \cap ToSet(bg.meta.ids) = {}
    BY <1>1, <2>1, Lists DEF Follows, ToDelete, Removing
  <2>7. Chained(files', meta.ids)
    BY <1>1, <2>1, <2>4, <2>6, ChainLose
  <2>8. ASSUME NEW token, EndsAt(files, meta.ids, token)
        PROVE  EndsAt(files', meta.ids, token)
    <3>1. meta.ids # <<>> => Last(meta.ids) \in Chunks
      BY <2>6, ListFacts
    <3>. QED
      BY <2>3, <2>8, <3>1 DEF EndsAt
  <2>9. Follows(files', app', bg, meta)
    BY <1>1, <2>1, <2>5, <2>6, <2>7, <2>8 DEF Follows
  <2>10. InFile'
    BY <2>1, <2>2, <2>9 DEF InFile
  <2>11. Timelines' /\ FilesSound' /\ ToRead'
    BY <1>1, <1>2, <2>1, <2>2, <2>3 DEF Timelines, FilesSound, Exists, ToRead, Reading
  <2>12. ToDelete'
    BY <2>1, <2>2, <2>3, <2>5, <2>6 DEF ToDelete, Exists, h
  <2>13. ASSUME bg.stage = "register"
         PROVE  files'[bg.chunk] # NoResponse /\ Chained(files', Append(bg.meta.ids, bg.chunk))
    <3>. DEFINE u == Append(bg.meta.ids, bg.chunk)
    <3>1. /\ bg.chunk \in Chunks /\ bg.chunk # h /\ files[bg.chunk] # NoResponse /\ Chained(files, u)
          /\ Behind(files, bg.meta.ids, app.ids) /\ bg.meta.ids \in Seq(Chunks)
      BY <1>1, <2>1, <2>6, <2>13 DEF ToWrite, TypeInv, Unlisted, Exists
    <3>2. /\ u \in Seq(Chunks) /\ DOMAIN u = 1..(Len(bg.meta.ids) + 1) /\ DOMAIN bg.meta.ids = 1..Len(bg.meta.ids)
          /\ Len(bg.meta.ids) \in Nat
          /\ u[Len(bg.meta.ids) + 1] = bg.chunk /\ \A i \in 1..Len(bg.meta.ids) : u[i] = bg.meta.ids[i]
      BY <3>1, AppendFacts, LenProperties
    <3>. HIDE DEF u
    <3>3. \A p \in DOMAIN bg.meta.ids : bg.meta.ids[p] = h =>
            \A j \in 1..(p - 1) : files[bg.meta.ids[j]] = NoResponse
      BY <2>4, <3>1
    <3>4. ASSUME NEW p \in DOMAIN u, u[p] = h, NEW j \in 1..(p - 1)
          PROVE  files[u[j]] = NoResponse
      <4>1. p \in DOMAIN bg.meta.ids /\ bg.meta.ids[p] = h
        <5>1. p # Len(bg.meta.ids) + 1
          BY <3>1, <3>2, <3>4
        <5>2. p \in 1..Len(bg.meta.ids)
          BY <3>2, <5>1
        <5>. QED
          BY <3>2, <3>4, <5>2
      <4>2. j \in 1..Len(bg.meta.ids)
        BY <3>2, <4>1
      <4>. QED
        BY <3>2, <3>3, <4>1, <4>2
    <3>5. Chained(files', u)
      BY <1>1, <2>1, <3>1, <3>2, <3>4, ChainLose
    <3>. QED
      BY <2>3, <3>1, <3>5 DEF u
  <2>14. ASSUME bg.stage = "write"
         PROVE  /\ bg.chunk \in Chunks
                /\ bg.fresh => files'[bg.chunk] = NoResponse
                /\ ~bg.fresh /\ files'[bg.chunk] # NoResponse =>
                     bg.content.from = files'[bg.chunk].from /\ files'[bg.chunk].to <= bg.content.to
    <3>1. bg.chunk \in Chunks
      BY <2>14 DEF TypeInv, Unlisted
    <3>. QED
      BY <1>1, <2>3, <2>14, <3>1 DEF ToWrite, Exists
  <2>15. ToWrite'
    BY <1>1, <2>1, <2>2, <2>13, <2>14 DEF ToWrite, Reading, Exists
  <2>. QED
    BY <2>10, <2>11, <2>12, <2>15 DEF Gapless
<1>. QED
  BY <1>4, <1>5, <1>7, <1>8, <1>9, <1>10, <1>11, <1>12, <1>13, <1>14, <1>15, <1>16, <1>17, <1>18,
     <1>19, <1>20, <1>21, <1>22, <1>23, <1>24, <1>25, <1>26, <1>27, <1>28, <1>29 DEF Next, AppStep, ServiceStep

\* A set of messages up to a token begins after one of them.
LEMMA GapExists ==
  ASSUME NEW token \in Nat, NEW msgs \in SUBSET MsgPos, UpTo(msgs, token)
  PROVE  \E gap \in 0..token : msgs = {m \in MsgPos : gap < m /\ m <= token}
<1>1. MsgPos \subseteq Nat \ {0} /\ msgs \subseteq Nat
  BY Constants
<1>2. CASE msgs = {}
  <2>1. \A m \in MsgPos : ~(token < m /\ m <= token)
    BY <1>1
  <2>2. token \in 0..token
    OBVIOUS
  <2>. QED
    BY <1>2, <2>1, <2>2
<1>3. CASE msgs # {}
  <2>1. Min(msgs) \in msgs /\ \A m \in msgs : Min(msgs) <= m
    BY <1>1, <1>3, LeastIn
  <2>2. PICK first \in msgs : \A m \in msgs : first <= m
    BY <2>1
  <2>3. first \in Nat \ {0} /\ first <= token /\ first - 1 \in 0..token
    <3>1. first \in Nat \ {0} /\ first <= token
      BY <1>1 DEF UpTo
    <3>. QED
      BY <3>1
  <2>4. ASSUME NEW m \in msgs
        PROVE  m \in MsgPos /\ first - 1 < m /\ m <= token
    BY <1>1, <2>2, <2>3 DEF UpTo
  <2>5. ASSUME NEW m \in MsgPos, first - 1 < m, m <= token
        PROVE  m \in msgs
    <3>1. m \in first..token
      BY <1>1, <2>3, <2>5
    <3>. QED
      BY <2>2, <3>1 DEF UpTo
  <2>6. msgs = {m \in MsgPos : first - 1 < m /\ m <= token}
    BY <2>4, <2>5
  <2>. QED
    BY <2>3, <2>6
<1>. QED
  BY <1>2, <1>3

LEMMA GapsAreKnown ==
  ASSUME TypeInv, GapInv
  PROVE  NoSilentGap
<1>. SUFFICES ASSUME Gapless
              PROVE  NoSilentGap
  BY DEF GapInv, NoSilentGap
<1>1. /\ disk.token \in Nat /\ disk.msgs \in SUBSET MsgPos /\ UpTo(disk.msgs, disk.token)
      /\ app.token \in Nat /\ app.msgs \in SUBSET MsgPos /\ UpTo(app.msgs, app.token)
  <2>1. disk.token \in Nat /\ app.token \in Nat
    BY Numbers
  <2>2. disk.msgs \in SUBSET MsgPos /\ app.msgs \in SUBSET MsgPos
    BY Fields
  <2>. QED
    BY <2>1, <2>2 DEF Gapless, Timelines
<1>. QED
  BY <1>1, GapExists DEF NoSilentGap

(***************************************************************************)
(* The theorems.                                                           *)
(***************************************************************************)
\* What both processes have in memory and in the files is what it should be, and a
\* response is never listed twice: not by markOutdated, nor by the service that writes
\* back metadata it had read before the session deleted some of it.
THEOREM TypeCorrect == Spec => []TypeOK
<1>1. TypeInv /\ [Next]_vars => TypeInv'
  BY TypeStep
<1>2. TypeInv => TypeOK
  BY DEF TypeInv
<1>. QED
  BY TypeInit, <1>1, <1>2, PTL DEF Spec

\* A key that the homeserver has forgotten is in the crypto store of the session, or in
\* a response that is listed in the metadata or in what is about to be written there:
\* through merging, marking, deleting, kills of either process and a cleared store.  Void
\* once the service wrote while the session was handling its cache, or was killed between
\* the truncation of the metadata and their writing.
THEOREM KeysAreKept == Spec => []NoKeyLost
<1>. DEFINE Inv == TypeInv /\ KeyInv
<1>1. Init => Inv
  BY TypeInit, KeyInit
<1>2. Inv /\ [Next]_vars => Inv'
  BY TypeStep, KeyStep
<1>3. Inv => NoKeyLost
  BY KeysAreSafe
<1>. QED
  BY <1>1, <1>2, <1>3, PTL DEF Spec

\* The session's store and its memory never lack a message between two they have:
\* handling the cache brings a response that starts at its token or one that says it is
\* limited, also after the service has been killed anywhere, or has listed again what the
\* session has deleted.  Void once one of them has undone what the other did to the cache.
THEOREM GapsAreRecorded == Spec => []NoSilentGap
<1>. DEFINE Inv == TypeInv /\ GapInv
<1>1. Init => Inv
  BY TypeInit, GapInit DEF GapInv
<1>2. Inv /\ [Next]_vars => Inv'
  BY TypeStep, HistoryStep, GapStep DEF GapInv
<1>3. Inv => NoSilentGap
  BY GapsAreKnown
<1>. QED
  BY <1>1, <1>2, <1>3, PTL DEF Spec

=============================================================================
