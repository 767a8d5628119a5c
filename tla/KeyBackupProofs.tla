---------------------------- MODULE KeyBackupProofs ----------------------------
(***************************************************************************)
(* Theorems about KeyBackup, for any keys, versions, bounds and calls, and *)
(* for an application that is orderly or not.                              *)
(*                                                                         *)
(* A method takes the record `backup` to another one, and an action is a   *)
(* method or two: that a record fits the homeserver is a predicate on      *)
(* records, that each method keeps.  What the homeserver, the store and    *)
(* the set of trusted versions do is to grow, and a record still fits.     *)
(***************************************************************************)
EXTENDS KeyBackup, TLAPS

WF == INSTANCE WellFoundedInduction
FS == INSTANCE FiniteSetTheorems

(***************************************************************************)
(* The inductive invariant.                                                *)
(***************************************************************************)
RequestBags == UNION {[S -> Nat \ {0}] : S \in SUBSET Request}
Backups == [state : States, keyBackupVersion : 0..MaxVersion, backupKey : 0..MaxVersion,
            backupVersion : 0..MaxVersion, marked : SUBSET Keys, timers : Nat,
            requests : RequestBags]

\* What is asked, and answered, is about a version that there is; keys are sent to the
\* version they are encrypted for; keys that have been sent, or found, are in the version:
\* those that encryptGroupSession refuses are not sent.
RequestFits(r) ==
  /\ r \in Request /\ r.version <= created
  /\ r.kind = "send" => r.version \in usable /\ r.for = r.version /\ r.keys \subseteq known
  /\ r.kind = "restore" => r.version # 0
  /\ r.kind = "send" /\ r.answer = "ok" => Body(r) \subseteq stored[r.version]
  /\ r.kind = "restore" /\ r.answer = "ok" => r.keys \subseteq stored[r.version]
  /\ r.kind \in {"create", "trust"} /\ r.answer = "ok" => r.version \in usable

\* keyBackupVersion may be unknown, and _backupKey too; but they do not differ.
KeyFits(b) ==
  /\ b.backupKey \in {0, b.backupVersion}
  /\ b.backupKey # 0 /\ b.keyBackupVersion # 0 =>
       b.backupKey = b.keyBackupVersion /\ b.backupKey \in usable

Fits(b) ==
  /\ b \in Backups
  /\ b.keyBackupVersion <= created /\ b.backupVersion <= created /\ b.marked \subseteq known
  /\ KeyFits(b)
  /\ \A r \in DOMAIN b.requests : RequestFits(r)

\* The keys that are marked are those of the version of the crypto store, and refused ones.
Marks(b) ==
  IF b.backupVersion = 0 THEN b.marked = {} ELSE b.marked \ Refused \subseteq stored[b.backupVersion]

ImportFits ==
  /\ importing \in [keys : SUBSET known, version : 0..created, backUp : BOOLEAN]
  /\ importing # NoImport =>
       importing.version # 0 /\ importing.keys \subseteq stored[importing.version]

ServerFits ==
  /\ created \in 0..MaxVersion /\ live \subseteq 1..created /\ usable \subseteq 1..created
  /\ stored \in [Versions -> SUBSET Keys]
  /\ FirstKeys \subseteq known /\ known \subseteq Keys

HistoryFits ==
  /\ late \subseteq known /\ overtaken \subseteq {"check", "send", "restore"}
  /\ calls \in 0..MaxCalls /\ backup.timers <= MaxTimers

MarksFit == overtaken \cap {"send", "restore"} = {} => Marks(backup)

Inv == ServerFits /\ Fits(backup) /\ MarksFit /\ ImportFits /\ HistoryFits

(***************************************************************************)
(* Bags of requests.                                                       *)
(***************************************************************************)
LEMMA BagsOfRequests ==
  ASSUME NEW B
  PROVE  B \in RequestBags <=> IsABag(B) /\ BagToSet(B) \subseteq Request
<1>1. ASSUME B \in RequestBags
      PROVE  IsABag(B) /\ BagToSet(B) \subseteq Request
  <2>1. PICK S \in SUBSET Request : B \in [S -> Nat \ {0}]
    BY <1>1 DEF RequestBags
  <2>. QED
    BY <2>1 DEF IsABag, BagToSet
<1>2. ASSUME IsABag(B), BagToSet(B) \subseteq Request
      PROVE  B \in RequestBags
  <2>1. B \in [DOMAIN B -> Nat \ {0}]
    BY <1>2 DEF IsABag
  <2>. QED
    BY <1>2, <2>1 DEF BagToSet, RequestBags
<1>. QED
  BY <1>1, <1>2

LEMMA BagAddFits ==
  ASSUME NEW B \in RequestBags, NEW r \in Request
  PROVE  BagAdd(B, r) \in RequestBags /\ DOMAIN BagAdd(B, r) = DOMAIN B \cup {r}
<1>1. PICK S \in SUBSET Request : B \in [S -> Nat \ {0}]
  BY DEF RequestBags
<1>2. BagAdd(B, r) \in [S \cup {r} -> Nat \ {0}]
  BY <1>1 DEF BagAdd
<1>. QED
  BY <1>1, <1>2 DEF RequestBags

LEMMA BagRemoveFits ==
  ASSUME NEW B \in RequestBags, NEW r
  PROVE  BagRemove(B, r) \in RequestBags /\ DOMAIN BagRemove(B, r) \subseteq DOMAIN B
<1>1. PICK S \in SUBSET Request : B \in [S -> Nat \ {0}]
  BY DEF RequestBags
<1>2. BagRemove(B, r) \in [S -> Nat \ {0}] \/ BagRemove(B, r) \in [S \ {r} -> Nat \ {0}]
  BY <1>1 DEF BagRemove
<1>. QED
  BY <1>1, <1>2 DEF RequestBags

(***************************************************************************)
(* The methods keep what fits.                                             *)
(***************************************************************************)
LEMMA InStateFits ==
  ASSUME NEW b, Fits(b), NEW s \in States
  PROVE  Fits(InState(b, s)) /\ (Marks(b) => Marks(InState(b, s)))
BY DEF Fits, Backups, KeyFits, Marks, InState

LEMMA SendFits ==
  ASSUME NEW b, Fits(b), NEW r, RequestFits(r)
  PROVE  Fits(Send(b, r)) /\ (Marks(b) => Marks(Send(b, r)))
<1>1. BagAdd(b.requests, r) \in RequestBags /\ DOMAIN BagAdd(b.requests, r) = DOMAIN b.requests \cup {r}
  BY BagAddFits DEF Fits, Backups, RequestFits
<1>. HIDE DEF RequestFits
<1>. QED
  BY <1>1 DEF Fits, Backups, KeyFits, Marks, Send

LEMMA GotFits ==
  ASSUME Fits(backup), NEW r
  PROVE  Fits(Got(r)) /\ (Marks(backup) => Marks(Got(r)))
<1>1. /\ BagRemove(backup.requests, r) \in RequestBags
      /\ DOMAIN BagRemove(backup.requests, r) \subseteq DOMAIN backup.requests
  BY BagRemoveFits DEF Fits, Backups
<1>. QED
  BY <1>1 DEF Fits, Backups, KeyFits, Marks, Got

LEMMA AskedFits ==
  ASSUME ServerFits, NEW kind \in Kinds, NEW v \in 0..created, kind # "send", kind = "restore" => v # 0
  PROVE  RequestFits(Asked(kind, v))
<1>1. v \in 0..MaxVersion /\ v <= created /\ 0 \in 0..MaxVersion
  BY KeyBackupAssumption DEF ServerFits
<1>. QED
  BY <1>1 DEF RequestFits, Asked, Request

LEMMA NoVersion == 0 \in 0..MaxVersion
BY KeyBackupAssumption

LEMMA ResetFields ==
  ASSUME NEW b \in Backups, NEW c, c = ResetKeyBackupData(b)
  PROVE  /\ c \in Backups /\ c.backupVersion = 0 /\ c.backupKey = 0 /\ c.marked = {}
         /\ c.keyBackupVersion = b.keyBackupVersion /\ c.requests = b.requests
BY NoVersion DEF Backups, ResetKeyBackupData

LEMMA ResetFits ==
  ASSUME NEW b, Fits(b), ServerFits
  PROVE  Fits(ResetKeyBackupData(b)) /\ Marks(ResetKeyBackupData(b))
<1>. DEFINE c == ResetKeyBackupData(b)
<1>1. /\ c \in Backups /\ c.backupVersion = 0 /\ c.backupKey = 0 /\ c.marked = {}
      /\ c.keyBackupVersion = b.keyBackupVersion /\ c.requests = b.requests
  BY ResetFields DEF Fits
<1>2. 0 <= created
  BY DEF ServerFits
<1>. HIDE DEF c
<1>3. Fits(c) /\ Marks(c)
  BY <1>1, <1>2 DEF Fits, KeyFits, Marks
<1>. QED
  BY <1>3 DEF c

\* The version on the homeserver is not known any more.
LEMMA ForgottenFits ==
  ASSUME NEW b, Fits(b), ServerFits, NEW s \in States
  PROVE  /\ Fits([b EXCEPT !.keyBackupVersion = 0, !.state = s])
         /\ Marks(b) => Marks([b EXCEPT !.keyBackupVersion = 0, !.state = s])
<1>. DEFINE c == [b EXCEPT !.keyBackupVersion = 0, !.state = s]
<1>1. /\ c \in Backups /\ c.backupVersion = b.backupVersion /\ c.backupKey = b.backupKey
      /\ c.marked = b.marked /\ c.keyBackupVersion = 0 /\ c.requests = b.requests
  BY NoVersion DEF Fits, Backups
<1>2. 0 <= created
  BY DEF ServerFits
<1>. HIDE DEF c
<1>3. Fits(c) /\ (Marks(b) => Marks(c))
  BY <1>1, <1>2 DEF Fits, KeyFits, Marks
<1>. QED
  BY <1>3 DEF c

LEMMA CheckFits ==
  ASSUME NEW b, Fits(b), ServerFits
  PROVE  Fits(CheckAndStartKeyBackup(b)) /\ (Marks(b) => Marks(CheckAndStartKeyBackup(b)))
<1>1. RequestFits(Asked("check", 0))
  BY AskedFits, KeyBackupAssumption DEF Kinds, ServerFits
<1>2. "CheckingBackUpOnHomeserver" \in States
  BY DEF States
<1>. QED
  BY <1>1, <1>2, ForgottenFits, SendFits DEF CheckAndStartKeyBackup

LEMMA MaybeSendFits ==
  ASSUME NEW b, Fits(b), ServerFits
  PROVE  Fits(MaybeSendKeyBackup(b)) /\ (Marks(b) => Marks(MaybeSendKeyBackup(b)))
<1>1. "WillBackUp" \in States
  BY DEF States
<1>2. ASSUME NEW c, Fits(c)
      PROVE  Fits([c EXCEPT !.timers = @ + 1]) /\ (Marks(c) => Marks([c EXCEPT !.timers = @ + 1]))
  BY <1>2 DEF Fits, Backups, KeyFits, Marks
<1>. QED
  BY <1>1, <1>2, InStateFits, CheckFits DEF MaybeSendKeyBackup

\* enableKeyBackup: a version that is trusted, and that the keys are marked for, or new.
LEMMA EnableFits ==
  ASSUME NEW b, Fits(b), ServerFits, NEW v \in usable
  PROVE  /\ Fits(EnableKeyBackup(b, v))
         /\ b.marked \ Refused \subseteq stored[v] => Marks(EnableKeyBackup(b, v))
<1>. DEFINE c == [b EXCEPT !.keyBackupVersion = v, !.backupVersion = v, !.backupKey = v,
                           !.state = "ReadyToBackUp"]
<1>0. v \in 0..MaxVersion /\ v <= created /\ v # 0 /\ "ReadyToBackUp" \in States
  BY KeyBackupAssumption DEF ServerFits, States
<1>3. /\ c \in Backups /\ c.backupVersion = v /\ c.backupKey = v
      /\ c.marked = b.marked /\ c.keyBackupVersion = v /\ c.requests = b.requests
  BY <1>0 DEF Fits, Backups
<1>. HIDE DEF c
<1>1. Fits(c) /\ (b.marked \ Refused \subseteq stored[v] => Marks(c))
  BY <1>0, <1>3 DEF Fits, KeyFits, Marks
<1>2. Fits(MaybeSendKeyBackup(c)) /\ (Marks(c) => Marks(MaybeSendKeyBackup(c)))
  BY <1>1, MaybeSendFits
<1>. QED
  BY <1>1, <1>2 DEF EnableKeyBackup, c

LEMMA CheckAndStartFits ==
  ASSUME NEW b, Fits(b), ServerFits, NEW v \in 0..created
  PROVE  /\ Fits(CheckAndStartWithKeyBackupVersion(b, v))
         /\ Marks(b) => Marks(CheckAndStartWithKeyBackupVersion(b, v))
<1>. DEFINE c == [b EXCEPT !.keyBackupVersion = v]
<1>0. v \in 0..MaxVersion /\ v <= created /\ {"Disabled", "NotTrusted"} \subseteq States
  BY KeyBackupAssumption DEF ServerFits, States
\* What is assigned to keyBackupVersion alone need not fit the key; what comes next does.
<1>1. /\ c \in Backups /\ c.keyBackupVersion = v /\ c.backupVersion = b.backupVersion
      /\ c.backupKey = b.backupKey /\ c.marked = b.marked /\ c.requests = b.requests
  BY <1>0 DEF Fits, Backups
<1>2. /\ b \in Backups /\ b.backupVersion <= created /\ b.marked \subseteq known
      /\ b.backupKey \in {0, b.backupVersion} /\ \A r \in DOMAIN b.requests : RequestFits(r)
  BY DEF Fits, KeyFits
<1>. HIDE DEF c
<1>3. Fits(ResetKeyBackupData(c)) /\ Marks(ResetKeyBackupData(c))
  <2>. DEFINE d == ResetKeyBackupData(c)
  <2>1. /\ d \in Backups /\ d.backupVersion = 0 /\ d.backupKey = 0 /\ d.marked = {}
        /\ d.keyBackupVersion = v /\ d.requests = b.requests
    BY <1>1, ResetFields
  <2>2. 0 <= created
    BY DEF ServerFits
  <2>. HIDE DEF d
  <2>3. Fits(d) /\ Marks(d)
    BY <1>0, <1>2, <2>1, <2>2 DEF Fits, KeyFits, Marks
  <2>. QED
    BY <2>3 DEF d
<1>4. CASE v = 0
  BY <1>0, <1>3, <1>4, InStateFits DEF CheckAndStartWithKeyBackupVersion, c
<1>5. CASE v # 0 /\ v \notin usable
  <2>1. c.backupVersion = 0 => Fits(c) /\ (Marks(b) => Marks(c))
    BY <1>0, <1>1, <1>2 DEF Fits, KeyFits, Marks
  <2>. QED
    BY <1>0, <1>1, <1>3, <1>5, <2>1, InStateFits DEF CheckAndStartWithKeyBackupVersion, c
<1>6. CASE v \in usable
  <2>0. v # 0 /\ stored \in [Versions -> SUBSET Keys] /\ v \in Versions
    BY <1>6, KeyBackupAssumption DEF ServerFits, Versions
  <2>1. CASE c.backupVersion \notin {0, v}
    <3>. DEFINE d == ResetKeyBackupData(c)
    <3>1. Fits(d) /\ d.marked = {}
      BY <1>1, <1>3 DEF ResetKeyBackupData, Backups
    <3>. HIDE DEF d
    <3>2. Fits(EnableKeyBackup(d, v)) /\ Marks(EnableKeyBackup(d, v))
      BY <1>6, <3>1, EnableFits
    <3>. QED
      BY <1>6, <2>0, <2>1, <3>2 DEF CheckAndStartWithKeyBackupVersion, c, d
  <2>2. CASE c.backupVersion \in {0, v}
    <3>1. Fits(c)
      BY <1>0, <1>1, <1>2, <1>6, <2>2 DEF Fits, KeyFits
    <3>2. Marks(b) => c.marked \ Refused \subseteq stored[v]
      BY <1>1, <2>0, <2>2 DEF Marks
    <3>3. Fits(EnableKeyBackup(c, v)) /\ (Marks(b) => Marks(EnableKeyBackup(c, v)))
      BY <1>6, <3>1, <3>2, EnableFits
    <3>. QED
      BY <1>6, <2>0, <2>2, <3>3 DEF CheckAndStartWithKeyBackupVersion, c
  <2>. QED
    BY <2>1, <2>2
<1>. QED
  BY <1>4, <1>5, <1>6

\* sendKeyBackup: the key is that of the version, and both are known.
LEMMA SendKeyBackupFits ==
  ASSUME NEW b, Fits(b), ServerFits, NEW chunk \in SUBSET known
  PROVE  Fits(SendKeyBackup(b, chunk)) /\ (Marks(b) => Marks(SendKeyBackup(b, chunk)))
<1>0. {"ReadyToBackUp", "BackingUp"} \subseteq States
  BY DEF States
<1>1. CASE b.backupKey # 0 /\ b.keyBackupVersion # 0
  <2>. DEFINE r == [Asked("send", b.keyBackupVersion) EXCEPT !.for = b.backupKey, !.keys = chunk]
  <2>0. chunk \in SUBSET Keys
    BY DEF ServerFits
  <2>1. /\ b.keyBackupVersion \in 0..MaxVersion /\ b.backupKey \in 0..MaxVersion
        /\ b.keyBackupVersion <= created
        /\ b.backupKey = b.keyBackupVersion /\ b.backupKey \in usable
    BY <1>1 DEF Fits, KeyFits, Backups
  <2>2. RequestFits(r)
    BY <2>0, <2>1 DEF RequestFits, Asked, Request, Kinds
  <2>. HIDE DEF r
  <2>3. Fits(Send(InState(b, "BackingUp"), r)) /\ (Marks(b) => Marks(Send(InState(b, "BackingUp"), r)))
    BY <1>0, <2>2, InStateFits, SendFits
  <2>. QED
    BY <1>0, <1>1, <2>3, InStateFits DEF SendKeyBackup, r
<1>2. CASE ~(b.backupKey # 0 /\ b.keyBackupVersion # 0)
  BY <1>0, <1>2, InStateFits DEF SendKeyBackup
<1>. QED
  BY <1>1, <1>2

LEMMA ChunksAreKnown ==
  ASSUME NEW b, NEW chunk \in Chunks(b)
  PROVE  chunk \in SUBSET known
BY DEF Chunks, kSubset, ToBackUp

(***************************************************************************)
(* Every step keeps the invariant.                                         *)
(***************************************************************************)
Grows ==
  /\ created <= created' /\ usable \subseteq usable' /\ known \subseteq known'
  /\ \A v \in Versions : stored[v] \subseteq stored'[v]

LEMMA ServerStays ==
  ASSUME ServerFits, UNCHANGED <<homeserver, usable, known>>
  PROVE  ServerFits' /\ Grows
BY DEF ServerFits, homeserver, Grows

LEMMA StillFits ==
  ASSUME ServerFits, ServerFits', Grows, NEW b, Fits(b), backup' = b
  PROVE  Fits(backup)' /\ (Marks(b) => Marks(backup)')
<1>1. created \in 0..MaxVersion /\ created' \in 0..MaxVersion /\ created <= created'
      /\ usable \subseteq 1..created
  BY DEF ServerFits, Grows
<1>2. ASSUME NEW r, RequestFits(r)
      PROVE  /\ r \in Request /\ r.version <= created'
             /\ r.kind = "send" => r.version \in usable' /\ r.for = r.version /\ r.keys \subseteq known'
             /\ r.kind = "restore" => r.version # 0
             /\ r.kind = "send" /\ r.answer = "ok" => Body(r) \subseteq stored'[r.version]
             /\ r.kind = "restore" /\ r.answer = "ok" => r.keys \subseteq stored'[r.version]
             /\ r.kind \in {"create", "trust"} /\ r.answer = "ok" => r.version \in usable'
  <2>1. r.version \in 0..MaxVersion
    BY <1>2 DEF RequestFits, Request
  <2>2. r.kind \in {"send", "restore"} => r.version \in Versions
    BY <1>1, <1>2, <2>1, KeyBackupAssumption DEF RequestFits, Versions
  <2>. QED
    BY <1>1, <1>2, <2>1, <2>2, KeyBackupAssumption DEF RequestFits, Grows
<1>3. b.keyBackupVersion \in 0..MaxVersion /\ b.backupVersion \in 0..MaxVersion
  BY DEF Fits, Backups
<1>4. Fits(backup)'
  BY <1>1, <1>2, <1>3, KeyBackupAssumption DEF Fits, KeyFits, RequestFits, Grows
<1>5. Marks(b) => Marks(backup)'
  BY <1>1, <1>3, KeyBackupAssumption DEF Marks, Grows, Versions
<1>. QED
  BY <1>4, <1>5

\* A step that takes backup to a record that fits, and what it does to the rest.
LEMMA StepKeeps ==
  ASSUME Inv, ServerFits', Grows, NEW b, Fits(b), backup' = b,
         overtaken' \cap {"send", "restore"} = {} => Marks(b),
         ImportFits', HistoryFits'
  PROVE  Inv'
<1>1. Fits(backup)' /\ (Marks(b) => Marks(backup)')
  BY StillFits DEF Inv
<1>. QED
  BY <1>1 DEF Inv, MarksFit

\* The variables that the methods do not change.
LEMMA MethodKeeps ==
  ASSUME Inv, NEW b, Fits(b), Marks(backup) => Marks(b), Becomes(b),
         UNCHANGED <<homeserver, usable, known, importing, late>>,
         overtaken \subseteq overtaken', overtaken' \subseteq {"check", "send", "restore"},
         calls' \in 0..MaxCalls
  PROVE  Inv'
<1>1. ServerFits' /\ Grows
  BY ServerStays DEF Inv
<1>2. backup' = b /\ b.timers <= MaxTimers
  BY DEF Becomes
<1>3. ImportFits'
  BY DEF Inv, ImportFits, homeserver
<1>4. HistoryFits'
  BY <1>2 DEF Inv, HistoryFits
<1>5. overtaken' \cap {"send", "restore"} = {} => Marks(b)
  BY DEF Inv, MarksFit
<1>. QED
  BY <1>1, <1>2, <1>3, <1>4, <1>5, StepKeeps

LEMMA NewKeyKeeps ==
  ASSUME Inv, NEW k \in Keys, NewKey(k)
  PROVE  Inv'
<1>. DEFINE b == MaybeSendKeyBackup(backup)
<1>1. Fits(b) /\ (Marks(backup) => Marks(b))
  BY MaybeSendFits DEF Inv
<1>. HIDE DEF b
<1>2. backup' = b /\ b.timers <= MaxTimers /\ known' = known \cup {k} /\ importing' = importing
      /\ UNCHANGED <<created, live, stored, usable, overtaken, calls>>
      /\ late' \subseteq late \cup {k}
  BY DEF NewKey, Becomes, Skipped, homeserver, b
<1>3. ServerFits' /\ Grows
  BY <1>2 DEF Inv, ServerFits, Grows
<1>4. ImportFits' /\ HistoryFits'
  BY <1>2 DEF Inv, ImportFits, HistoryFits
<1>. QED
  BY <1>1, <1>2, <1>3, <1>4, StepKeeps DEF Inv, MarksFit

LEMMA NoImportFits ==
  ASSUME created \in 0..MaxVersion
  PROVE  NoImport \in [keys : SUBSET known, version : 0..created, backUp : BOOLEAN]
BY KeyBackupAssumption DEF NoImport

\* Keys that come from the version of the crypto store are marked for it.
LEMMA ImportedKeeps ==
  ASSUME Inv, Imported
  PROVE  Inv'
<1>1. /\ importing' = NoImport /\ UNCHANGED <<homeserver, usable, known, calls>>
      /\ importing.keys \subseteq known
      /\ importing.version # 0 /\ importing.keys \subseteq stored[importing.version]
  BY DEF Imported, Inv, ImportFits
<1>2. ServerFits' /\ Grows
  BY <1>1, ServerStays DEF Inv
<1>3. ImportFits'
  BY <1>1, <1>2, NoImportFits DEF ImportFits, ServerFits, homeserver
<1>4. CASE importing.backUp
  <2>. DEFINE b == MaybeSendKeyBackup(backup)
  <2>1. Fits(b) /\ (Marks(backup) => Marks(b))
    BY MaybeSendFits DEF Inv
  <2>. HIDE DEF b
  <2>2. backup' = b /\ b.timers <= MaxTimers /\ overtaken' = overtaken
        /\ late' \subseteq late \cup importing.keys
    BY <1>4 DEF Imported, Becomes, Skipped, b
  <2>3. HistoryFits'
    BY <1>1, <2>2 DEF Inv, HistoryFits
  <2>. QED
    BY <1>2, <1>3, <2>1, <2>2, <2>3, StepKeeps DEF Inv, MarksFit
<1>5. CASE ~importing.backUp
  <2>. DEFINE b == [backup EXCEPT !.marked = @ \cup importing.keys]
  <2>1. /\ b \in Backups /\ b.marked = backup.marked \cup importing.keys /\ b.requests = backup.requests
        /\ b.backupVersion = backup.backupVersion /\ b.backupKey = backup.backupKey
        /\ b.keyBackupVersion = backup.keyBackupVersion /\ b.timers = backup.timers
    <3>1. importing.keys \subseteq Keys
      BY <1>1 DEF Inv, ServerFits
    <3>. QED
      BY <3>1 DEF Inv, Fits, Backups
  <2>2. /\ backup' = b /\ late' = late
        /\ Overtaken("restore", importing.version # backup.backupVersion)
    BY <1>5 DEF Imported, Becomes
  <2>. HIDE DEF b
  <2>3. Fits(b)
    BY <1>1, <2>1 DEF Inv, Fits, KeyFits
  <2>4. overtaken' \cap {"send", "restore"} = {} => Marks(b)
    BY <1>1, <2>1, <2>2 DEF Overtaken, Inv, MarksFit, Marks
  <2>5. HistoryFits'
    BY <1>1, <2>1, <2>2 DEF Inv, HistoryFits, Overtaken
  <2>. QED
    BY <1>2, <1>3, <2>2, <2>3, <2>4, <2>5, StepKeeps
<1>. QED
  BY <1>4, <1>5

LEMMA TimerKeeps ==
  ASSUME Inv, TimerFires
  PROVE  Inv'
<1>. DEFINE c == [backup EXCEPT !.timers = @ - 1]
<1>1. Fits(c) /\ (Marks(backup) => Marks(c))
  <2>1. /\ c \in Backups /\ c.marked = backup.marked /\ c.requests = backup.requests
        /\ c.backupVersion = backup.backupVersion /\ c.backupKey = backup.backupKey
        /\ c.keyBackupVersion = backup.keyBackupVersion
    BY DEF TimerFires, Inv, Fits, Backups
  <2>. HIDE DEF c
  <2>. QED
    BY <2>1 DEF Inv, Fits, KeyFits, Marks
<1>2. PICK chunk \in Chunks(backup) : Becomes(SendKeyBackup(c, chunk))
  BY DEF TimerFires
<1>. HIDE DEF c
<1>3. chunk \in SUBSET known
  BY ChunksAreKnown
<1>4. Fits(SendKeyBackup(c, chunk)) /\ (Marks(backup) => Marks(SendKeyBackup(c, chunk)))
  BY <1>1, <1>3, SendKeyBackupFits DEF Inv
<1>. QED
  BY <1>2, <1>4, MethodKeeps DEF TimerFires, Inv, HistoryFits

(***************************************************************************)
(* The calls of the application.                                           *)
(***************************************************************************)
LEMMA CallKeeps ==
  ASSUME Inv, NEW b, Fits(b), Marks(backup) => Marks(b), Call(b), usable' = usable
  PROVE  Inv'
BY MethodKeeps, KeyBackupAssumption DEF Call, Inv, HistoryFits

LEMMA AskKeeps ==
  ASSUME Inv, NEW b, Fits(b), Marks(backup) => Marks(b), NEW kind \in Kinds, NEW v \in 0..created,
         kind # "send", kind = "restore" => v # 0, Ask(b, kind, v), usable' = usable
  PROVE  Inv'
<1>1. RequestFits(Asked(kind, v))
  BY AskedFits DEF Inv
<1>2. Fits(Send(b, Asked(kind, v))) /\ (Marks(b) => Marks(Send(b, Asked(kind, v))))
  BY <1>1, SendFits
<1>. QED
  BY <1>2, CallKeeps DEF Ask

LEMMA ApplicationKeeps ==
  ASSUME Inv, Application
  PROVE  Inv'
<1>0. /\ ServerFits /\ Fits(backup) /\ created \in 0..MaxVersion /\ 0 \in 0..created
      /\ backup.keyBackupVersion \in 0..created
  BY KeyBackupAssumption DEF Inv, ServerFits, Fits, Backups
<1>1. CASE Start
  BY <1>0, <1>1, CheckFits, MethodKeeps DEF Start, Inv, HistoryFits
<1>2. CASE TrustKeyBackupVersion
  BY <1>0, <1>2, AskKeeps DEF TrustKeyBackupVersion, Kinds
<1>3. CASE CreateKeyBackupVersion
  BY <1>0, <1>3, AskKeeps, InStateFits DEF CreateKeyBackupVersion, Kinds, States
<1>4. ASSUME NEW v \in Versions, DeleteKeyBackupVersion(v)
      PROVE  Inv'
  <2>. DEFINE b == [ResetKeyBackupData(backup) EXCEPT !.keyBackupVersion = 0, !.state = "Unknown"]
  <2>1. Fits(ResetKeyBackupData(backup)) /\ Marks(ResetKeyBackupData(backup))
    BY <1>0, ResetFits
  <2>2. Fits(b) /\ Marks(b)
    BY <1>0, <2>1, ForgottenFits DEF States
  <2>. HIDE DEF b
  <2>3. Ask(IF v = backup.keyBackupVersion THEN b ELSE backup, "delete", v) /\ usable' = usable
    BY <1>4 DEF DeleteKeyBackupVersion, b
  <2>4. v \in 0..created
    BY <1>0, <1>4 DEF DeleteKeyBackupVersion
  <2>5. CASE v = backup.keyBackupVersion
    BY <1>0, <2>2, <2>3, <2>4, <2>5, AskKeeps DEF Kinds
  <2>6. CASE v # backup.keyBackupVersion
    BY <1>0, <2>3, <2>4, <2>6, AskKeeps DEF Kinds
  <2>. QED
    BY <2>5, <2>6
<1>5. CASE ForceRefresh
  BY <1>0, <1>5, AskKeeps DEF ForceRefresh, Kinds
<1>6. ASSUME NEW v \in Versions, RestoreKeyBackup(v)
      PROVE  Inv'
  <2>1. v \in 0..created /\ v # 0
    BY <1>0, <1>6, KeyBackupAssumption DEF RestoreKeyBackup, ServerFits
  <2>. QED
    BY <1>0, <1>6, <2>1, AskKeeps DEF RestoreKeyBackup, Kinds
<1>7. ASSUME NEW v \in Versions, VerifyDevice(v)
      PROVE  Inv'
  <2>. DEFINE b == CheckAndStartKeyBackup(backup)
  <2>1. Fits(b) /\ (Marks(backup) => Marks(b))
    BY <1>0, CheckFits
  <2>. HIDE DEF b
  <2>2. /\ v \in live /\ usable' = usable \cup {v} /\ backup' = b /\ b.timers <= MaxTimers
        /\ UNCHANGED <<created, live, stored, known, importing, late, overtaken>>
        /\ calls < MaxCalls /\ calls' = calls + 1
    BY <1>7 DEF VerifyDevice, Call, Becomes, homeserver, b
  <2>3. ServerFits' /\ Grows
    BY <2>2 DEF Inv, ServerFits, Grows
  <2>4. ImportFits' /\ HistoryFits'
    BY <2>2, KeyBackupAssumption DEF Inv, ImportFits, HistoryFits
  <2>. QED
    BY <2>1, <2>2, <2>3, <2>4, StepKeeps DEF Inv, MarksFit
<1>8. CASE BackupAllGroupSessions
  <2>1. PICK chunk \in Chunks(backup) : Call(SendKeyBackup(backup, chunk))
    BY <1>8 DEF BackupAllGroupSessions
  <2>2. chunk \in SUBSET known
    BY <1>0, ChunksAreKnown
  <2>. QED
    BY <1>0, <1>8, <2>1, <2>2, SendKeyBackupFits, CallKeeps DEF BackupAllGroupSessions
<1>. QED
  BY <1>1, <1>2, <1>3, <1>4, <1>5, <1>6, <1>7, <1>8 DEF Application

(***************************************************************************)
(* The homeserver.                                                         *)
(***************************************************************************)
\* Naturals that are bounded have a greatest one.
Below == {p \in Nat \X Nat : p[1] < p[2]}

LEMMA BelowIsWellFounded == WF!IsWellFoundedOn(Below, Nat)
<1>1. Below = WF!OpToRel(<, Nat)
  BY Zenon DEF Below, WF!OpToRel
<1>. QED
  BY <1>1, WF!NatLessThanWellFounded, Zenon

LEMMA GreatestIn ==
  ASSUME NEW n \in Nat, NEW S, S \subseteq 1..n, S # {}
  PROVE  Max(S) \in S
<1>. DEFINE T == {n - v : v \in S}
<1>1. \A v \in S : v \in Int /\ n - v \in Nat
  OBVIOUS
<1>2. T \subseteq Nat
  BY <1>1
<1>3. T # {}
  OBVIOUS
<1>4. PICK x \in T : \A y \in T : <<y, x>> \notin Below
  <2>. HIDE DEF T
  <2>. QED
    BY <1>2, <1>3, BelowIsWellFounded, WF!WFMin, Zenon
<1>5. PICK v \in S : x = n - v
  OBVIOUS
<1>6. ASSUME NEW w \in S
      PROVE  v >= w
  <2>1. n - w \in T
    OBVIOUS
  <2>2. <<n - w, n - v>> \notin Below
    BY <1>4, <1>5, <2>1
  <2>3. n - w \in Nat /\ n - v \in Nat /\ v \in Int /\ w \in Int
    BY <1>1
  <2>. HIDE DEF T
  <2>4. ~(n - w < n - v)
    BY <2>2, <2>3 DEF Below
  <2>. QED
    BY <2>3, <2>4
<1>. QED
  BY <1>6 DEF Max

\* The version in use is one that has been created.
LEMMA CurrentIsLive ==
  ASSUME ServerFits
  PROVE  Current \in live \cup {0} /\ Current \in 0..created
<1>1. created \in Nat /\ live \subseteq 1..created
  BY KeyBackupAssumption DEF ServerFits
<1>2. live # {} => Max(live) \in live
  BY <1>1, GreatestIn
<1>3. live # {} => Max(live) \in 1..created
  BY <1>1, <1>2
<1>4. 0 \in 0..created /\ 1..created \subseteq 0..created
  BY <1>1
<1>. QED
  BY <1>2, <1>3, <1>4 DEF Current

\* A request is answered: what is left fits, and so does the answer.
LEMMA AnsweredKeeps ==
  ASSUME Inv, NEW r \in Pending, NEW a, RequestFits(a)', ServerFits', Grows,
         Answered(r, a), UNCHANGED <<known, importing, late, overtaken, calls>>
  PROVE  Inv'
<1>. DEFINE B == BagRemove(backup.requests, r)
            c == [backup EXCEPT !.requests = BagAdd(B, a)]
<1>1. backup' = c
  BY DEF Answered
<1>2. B \in RequestBags /\ DOMAIN B \subseteq DOMAIN backup.requests
  BY BagRemoveFits DEF Inv, Fits, Backups
<1>3. a \in Request
  BY DEF RequestFits
<1>. HIDE DEF B
<1>4. BagAdd(B, a) \in RequestBags /\ DOMAIN BagAdd(B, a) = DOMAIN B \cup {a}
  BY <1>2, <1>3, BagAddFits
<1>5. /\ c \in Backups /\ c.marked = backup.marked /\ c.requests = BagAdd(B, a)
      /\ c.backupVersion = backup.backupVersion /\ c.backupKey = backup.backupKey
      /\ c.keyBackupVersion = backup.keyBackupVersion /\ c.timers = backup.timers
  BY <1>4 DEF Inv, Fits, Backups
<1>. HIDE DEF c
\* Without the answer, the record fits before the step, and so it does after it.
<1>. DEFINE d == [backup EXCEPT !.requests = B]
<1>6. Fits(d) /\ (Marks(backup) => Marks(d)) /\ d.requests = B
  <2>1. /\ d \in Backups /\ d.marked = backup.marked /\ d.requests = B
        /\ d.backupVersion = backup.backupVersion /\ d.backupKey = backup.backupKey
        /\ d.keyBackupVersion = backup.keyBackupVersion
    BY <1>2 DEF Inv, Fits, Backups
  <2>. HIDE DEF d
  <2>. QED
    BY <1>2, <2>1 DEF Inv, Fits, KeyFits, Marks
<1>. HIDE DEF d
<1>7. \A q \in DOMAIN B : RequestFits(q)'
  <2>. SUFFICES ASSUME NEW q \in DOMAIN B
                PROVE  RequestFits(q)'
    OBVIOUS
  <2>1. RequestFits(q) /\ created \in 0..MaxVersion /\ created' \in 0..MaxVersion /\ created <= created'
        /\ usable \subseteq 1..created
    BY <1>2 DEF Inv, Fits, ServerFits, Grows
  <2>2. q.version \in 0..MaxVersion
    BY <2>1 DEF RequestFits, Request
  <2>3. q.kind \in {"send", "restore"} => q.version \in Versions
    BY <2>1, <2>2, KeyBackupAssumption DEF RequestFits, Versions
  <2>. QED
    BY <2>1, <2>2, <2>3, KeyBackupAssumption DEF RequestFits, Grows
<1>8. Fits(backup)'
  <2>1. KeyFits(backup)' /\ (backup.marked \subseteq known)' /\ (backup \in Backups)'
    BY <1>1, <1>5 DEF Inv, Fits, KeyFits, Grows
  <2>2. (backup.keyBackupVersion <= created)' /\ (backup.backupVersion <= created)'
    BY <1>1, <1>5, KeyBackupAssumption DEF Inv, Fits, Backups, Grows, ServerFits
  <2>3. \A q \in DOMAIN c.requests : RequestFits(q)'
    BY <1>4, <1>5, <1>7
  <2>. QED
    BY <1>1, <2>1, <2>2, <2>3 DEF Fits
<1>9. MarksFit' /\ HistoryFits'
  <2>1. Marks(backup) => Marks(backup)'
    <3>1. backup.backupVersion # 0 => backup.backupVersion \in Versions
      BY KeyBackupAssumption DEF Inv, Fits, Backups, Versions
    <3>. QED
      BY <1>1, <1>5, <3>1 DEF Marks, Grows
  <2>. QED
    BY <1>1, <1>5, <2>1 DEF Inv, MarksFit, HistoryFits
<1>10. ImportFits'
  <2>1. created \in 0..MaxVersion /\ created' \in 0..MaxVersion /\ created <= created'
    BY DEF Inv, ServerFits, Grows
  <2>2. importing \in [keys : SUBSET known, version : 0..created', backUp : BOOLEAN]
    BY <2>1, KeyBackupAssumption DEF Inv, ImportFits
  <2>3. importing # NoImport => importing.version \in Versions
    BY <2>1, KeyBackupAssumption DEF Inv, ImportFits, Versions
  <2>. QED
    BY <2>2, <2>3 DEF Inv, ImportFits, Grows
<1>. QED
  BY <1>8, <1>9, <1>10 DEF Inv

\* What the fields of an answer are.
Answer(a, r, answer, version, keys) ==
  /\ a \in Request /\ a.kind = r.kind /\ a.for = r.for
  /\ a.answer = answer /\ a.version = version /\ a.keys = keys

LEMMA ProcessKeeps ==
  ASSUME Inv, NEW r \in Pending, Process(r)
  PROVE  Inv'
<1>1. /\ RequestFits(r) /\ r \in Request
      /\ UNCHANGED <<known, importing, late, overtaken, calls>>
  BY DEF Process, Inv, Fits, Pending, BagToSet, RequestFits
<1>2. /\ r.kind \in Kinds /\ r.version \in 0..created /\ r.version \in 0..MaxVersion
      /\ created \in 0..MaxVersion /\ live \subseteq 1..created /\ usable \subseteq 1..created
      /\ created \in Nat /\ MaxVersion \in Nat /\ stored \in [Versions -> SUBSET Keys]
  BY <1>1, KeyBackupAssumption DEF RequestFits, Request, Inv, ServerFits
<1>3. Inv /\ ServerFits /\ Versions = 1..MaxVersion
  BY DEF Inv, Versions
<1>4. CASE r.kind \in {"check", "refresh"}
  <2>0. PICK a : a = [r EXCEPT !.answer = "ok", !.version = Current]
    OBVIOUS
  <2>1. Answered(r, a) /\ UNCHANGED <<homeserver, usable>>
    BY <1>4, <2>0 DEF Process
  <2>2. Current \in 0..created /\ Current \in 0..MaxVersion
    BY <1>2, <1>3, CurrentIsLive
  <2>3. Answer(a, r, "ok", Current, r.keys)
    BY <1>1, <2>0, <2>2 DEF Answer, Request
  <2>4. ServerFits' /\ Grows
    BY <1>1, <1>3, <2>1, ServerStays
  <2>5. RequestFits(a)'
    BY <1>2, <1>4, <2>1, <2>2, <2>3 DEF RequestFits, Answer, homeserver
  <2>. QED
    BY <1>1, <2>1, <2>4, <2>5, AnsweredKeeps
<1>5. CASE r.kind = "create"
  <2>0. PICK a : a = [r EXCEPT !.answer = "ok", !.version = created']
    OBVIOUS
  <2>1. /\ created < MaxVersion /\ created' = created + 1 /\ live' = live \cup {created'}
        /\ usable' = usable \cup {created'} /\ stored' = stored /\ Answered(r, a)
    BY <1>5, <2>0 DEF Process
  <2>2. created' \in 0..MaxVersion /\ created' # 0
    BY <1>2, <2>1
  <2>3. Answer(a, r, "ok", created', r.keys)
    BY <1>1, <2>0, <2>2 DEF Answer, Request
  <2>4. ServerFits' /\ Grows
    BY <1>1, <1>2, <1>3, <2>1 DEF ServerFits, Grows
  <2>5. RequestFits(a)'
    BY <1>2, <1>5, <2>1, <2>2, <2>3 DEF RequestFits, Answer
  <2>. QED
    BY <1>1, <2>1, <2>4, <2>5, AnsweredKeeps
<1>6. CASE r.kind = "delete"
  <2>0. PICK a : a = [r EXCEPT !.answer = "ok"]
    OBVIOUS
  <2>1. live' = live \ {r.version} /\ Answered(r, a) /\ UNCHANGED <<created, usable, stored>>
    BY <1>6, <2>0 DEF Process
  <2>3. Answer(a, r, "ok", r.version, r.keys)
    BY <1>1, <2>0 DEF Answer, Request
  <2>2. live' \subseteq live /\ created <= created'
    BY <1>2, <2>1
  <2>4. ServerFits' /\ Grows
    BY <1>1, <1>3, <2>1, <2>2 DEF ServerFits, Grows
  <2>5. RequestFits(a)'
    BY <1>1, <1>2, <1>6, <2>1, <2>3 DEF RequestFits, Answer
  <2>. QED
    BY <1>1, <2>1, <2>4, <2>5, AnsweredKeeps
<1>7. CASE r.kind = "trust"
  <2>. DEFINE n == IF r.version \in live THEN "ok" ELSE "error"
  <2>0. PICK a : a = [r EXCEPT !.answer = n]
    OBVIOUS
  <2>1. /\ usable' = IF r.version \in live THEN usable \cup {r.version} ELSE usable
        /\ Answered(r, a) /\ UNCHANGED homeserver
    BY <1>7, <2>0 DEF Process
  <2>3. Answer(a, r, n, r.version, r.keys)
    BY <1>1, <2>0 DEF Answer, Request
  <2>2. usable \subseteq usable' /\ usable' \subseteq usable \cup live /\ created <= created'
    BY <1>2, <2>1 DEF homeserver
  <2>4. ServerFits' /\ Grows
    BY <1>1, <1>3, <2>1, <2>2 DEF ServerFits, Grows, homeserver
  <2>5. RequestFits(a)'
    BY <1>1, <1>2, <1>7, <2>1, <2>3 DEF RequestFits, Answer, homeserver
  <2>. QED
    BY <1>1, <2>1, <2>4, <2>5, AnsweredKeeps
<1>8. CASE r.kind = "restore"
  <2>. DEFINE n == IF r.version \in live THEN "ok" ELSE "error"
  <2>0. PICK a : a = [r EXCEPT !.answer = n, !.keys = stored[r.version]]
    OBVIOUS
  <2>1. Answered(r, a) /\ UNCHANGED <<homeserver, usable>>
    BY <1>8, <2>0 DEF Process
  <2>2. r.version # 0 /\ r.version \in Versions /\ stored[r.version] \in SUBSET Keys
    BY <1>1, <1>2, <1>3, <1>8 DEF RequestFits
  <2>3. Answer(a, r, n, r.version, stored[r.version])
    BY <1>1, <2>0, <2>2 DEF Answer, Request
  <2>4. ServerFits' /\ Grows
    BY <1>1, <1>3, <2>1, ServerStays
  <2>5. RequestFits(a)'
    BY <1>1, <1>2, <1>8, <2>1, <2>2, <2>3 DEF RequestFits, Answer, homeserver
  <2>. QED
    BY <1>1, <2>1, <2>4, <2>5, AnsweredKeeps
<1>9. CASE r.kind = "send"
  <2>. DEFINE n == IF r.version = Current THEN "ok" ELSE IF Current = 0 THEN "error" ELSE "wrong"
  <2>0. PICK a : a = [r EXCEPT !.answer = n]
    OBVIOUS
  <2>1. /\ stored' = IF r.version = Current THEN [stored EXCEPT ![r.version] = @ \cup Body(r)] ELSE stored
        /\ Answered(r, a) /\ UNCHANGED <<created, live, usable>>
    BY <1>9, <2>0 DEF Process
  <2>2. r.version \in usable /\ r.version \in Versions /\ Body(r) \in SUBSET Keys
    BY <1>1, <1>2, <1>3, <1>9 DEF RequestFits, Request, Body
  <2>3. Answer(a, r, n, r.version, r.keys)
    BY <1>1, <2>0 DEF Answer, Request
  <2>4. /\ stored' \in [Versions -> SUBSET Keys] /\ \A v \in Versions : stored[v] \subseteq stored'[v]
        /\ n = "ok" => Body(r) \subseteq stored'[r.version]
    <3>. HIDE DEF Current, Versions
    <3>. QED
      BY <1>2, <2>1, <2>2
  <2>5. ServerFits' /\ Grows
    BY <1>1, <1>2, <1>3, <2>1, <2>4 DEF ServerFits, Grows
  <2>6. RequestFits(a)'
    BY <1>1, <1>2, <1>9, <2>1, <2>2, <2>3, <2>4 DEF RequestFits, Answer, Body
  <2>. QED
    BY <1>1, <2>1, <2>5, <2>6, AnsweredKeeps
<1>. QED
  BY <1>2, <1>4, <1>5, <1>6, <1>7, <1>8, <1>9 DEF Kinds

LEMMA LostKeeps ==
  ASSUME Inv, NEW r \in Pending, Lost(r)
  PROVE  Inv'
<1>0. PICK a : a = [r EXCEPT !.answer = "error"]
  OBVIOUS
<1>1. /\ RequestFits(r) /\ Answered(r, a)
      /\ UNCHANGED <<homeserver, usable, known, importing, late, overtaken, calls>>
  BY <1>0 DEF Lost, Inv, Fits, Pending, BagToSet
<1>2. Answer(a, r, "error", r.version, r.keys)
  BY <1>0, <1>1 DEF Answer, Request, RequestFits
<1>3. ServerFits' /\ Grows
  BY <1>1, ServerStays DEF Inv
<1>4. RequestFits(a)'
  BY <1>1, <1>2 DEF RequestFits, Answer, homeserver, Body
<1>. QED
  BY <1>1, <1>3, <1>4, AnsweredKeeps

\* Other devices: nothing here changes but what the homeserver has.
LEMMA OthersKeep ==
  ASSUME Inv, ServerFits', Grows, UNCHANGED <<known, backup, importing, late, overtaken, calls>>
  PROVE  Inv'
<1>1. created \in 0..MaxVersion /\ created' \in 0..MaxVersion /\ created <= created'
      /\ stored \in [Versions -> SUBSET Keys]
  BY DEF Inv, ServerFits, Grows
<1>2. importing # NoImport => importing.version \in Versions
  BY <1>1, KeyBackupAssumption DEF Inv, ImportFits, Versions
<1>3. importing \in [keys : SUBSET known, version : 0..created', backUp : BOOLEAN]
  BY <1>1, KeyBackupAssumption DEF Inv, ImportFits
<1>4. ImportFits'
  BY <1>2, <1>3 DEF Inv, ImportFits, Grows
<1>5. HistoryFits'
  BY DEF Inv, HistoryFits
<1>6. overtaken' \cap {"send", "restore"} = {} => Marks(backup)
  BY DEF Inv, MarksFit
<1>. QED
  BY <1>4, <1>5, <1>6, StepKeeps DEF Inv

LEMMA OtherDeviceKeeps ==
  ASSUME Inv, OtherDeviceCreates \/ OtherDeviceDeletes \/ OtherDeviceBacksUp
  PROVE  Inv'
<1>1. /\ ServerFits /\ created \in Nat /\ MaxVersion \in Nat
      /\ UNCHANGED <<known, backup, importing, late, overtaken, calls>>
  BY KeyBackupAssumption DEF Inv, ServerFits, OtherDeviceCreates, OtherDeviceDeletes, OtherDeviceBacksUp
<1>2. CASE OtherDeviceCreates
  <2>1. ServerFits' /\ Grows
    BY <1>1, <1>2 DEF OtherDeviceCreates, ServerFits, Grows
  <2>. QED
    BY <1>1, <2>1, OthersKeep
<1>3. CASE OtherDeviceBacksUp
  <2>1. PICK k \in Keys : stored' = [stored EXCEPT ![Current] = @ \cup {k}]
    BY <1>3 DEF OtherDeviceBacksUp
  <2>2. UNCHANGED <<created, live, usable>>
    BY <1>3 DEF OtherDeviceBacksUp
  <2>3. /\ stored' \in [Versions -> SUBSET Keys]
        /\ \A v \in Versions : stored[v] \subseteq stored'[v]
    BY <1>1, <2>1 DEF ServerFits
  <2>4. ServerFits' /\ Grows
    BY <1>1, <2>2, <2>3 DEF ServerFits, Grows
  <2>. QED
    BY <1>1, <2>4, OthersKeep
<1>4. CASE OtherDeviceDeletes
  <2>1. ServerFits' /\ Grows
    BY <1>1, <1>4 DEF OtherDeviceDeletes, ServerFits, Grows
  <2>. QED
    BY <1>1, <2>1, OthersKeep
<1>. QED
  BY <1>2, <1>3, <1>4

(***************************************************************************)
(* The answers.                                                            *)
(***************************************************************************)
\* What an answer takes the record to, and the history of what came too late.
LEMMA SettledKeeps ==
  ASSUME Inv, NEW b, Fits(b), Becomes(b), Settled,
         overtaken \subseteq overtaken', overtaken' \subseteq {"check", "send", "restore"},
         overtaken' \cap {"send", "restore"} = {} => Marks(b)
  PROVE  Inv'
<1>1. ServerFits' /\ Grows
  BY ServerStays DEF Inv, Settled
<1>2. backup' = b /\ b.timers <= MaxTimers
  BY DEF Becomes
<1>3. ImportFits' /\ HistoryFits'
  BY <1>2 DEF Inv, ImportFits, HistoryFits, Settled, homeserver
<1>. QED
  BY <1>1, <1>2, <1>3, StepKeeps

\* One that leaves the marks alone, or makes them fit.
LEMMA AnswerKeeps ==
  ASSUME Inv, NEW b, Fits(b), Becomes(b), Settled, Marks(backup) => Marks(b),
         overtaken \subseteq overtaken', overtaken' \subseteq {"check", "send", "restore"}
  PROVE  Inv'
<1>1. overtaken' \cap {"send", "restore"} = {} => Marks(b)
  BY DEF Inv, MarksFit
<1>. QED
  BY <1>1, SettledKeeps

LEMMA OvertakenGrows ==
  ASSUME HistoryFits, NEW kind \in {"check", "send", "restore"}, NEW changed \in BOOLEAN,
         Overtaken(kind, changed)
  PROVE  overtaken \subseteq overtaken' /\ overtaken' \subseteq {"check", "send", "restore"}
BY DEF HistoryFits, Overtaken

LEMMA AnswerFits ==
  ASSUME Inv, NEW r \in Pending
  PROVE  /\ RequestFits(r) /\ r.version \in 0..created
         /\ ServerFits /\ Fits(backup) /\ Fits(Got(r)) /\ (Marks(backup) => Marks(Got(r)))
<1>1. RequestFits(r)
  BY DEF Inv, Fits, Pending, BagToSet
<1>2. r.version \in 0..created
  BY <1>1, KeyBackupAssumption DEF RequestFits, Request, Inv, ServerFits
<1>. QED
  BY <1>1, <1>2, GotFits DEF Inv

LEMMA CheckAnsweredKeeps ==
  ASSUME Inv, NEW r \in Pending, CheckAnswered(r)
  PROVE  Inv'
<1>. DEFINE b == IF r.answer = "ok" THEN CheckAndStartWithKeyBackupVersion(Got(r), r.version)
                 ELSE InState(Got(r), "Unknown")
<1>1. Fits(b) /\ (Marks(backup) => Marks(b))
  BY AnswerFits, CheckAndStartFits, InStateFits DEF States
<1>2. /\ Becomes(b) /\ Settled
      /\ Overtaken("check", backup.state # "CheckingBackUpOnHomeserver")
  BY DEF CheckAnswered
<1>. HIDE DEF b
<1>3. overtaken \subseteq overtaken' /\ overtaken' \subseteq {"check", "send", "restore"}
  BY <1>2, OvertakenGrows DEF Inv
<1>. QED
  BY <1>1, <1>2, <1>3, AnswerKeeps

LEMMA SameHistory ==
  ASSUME Inv, UNCHANGED overtaken
  PROVE  overtaken \subseteq overtaken' /\ overtaken' \subseteq {"check", "send", "restore"}
BY DEF Inv, HistoryFits

LEMMA RefreshAnsweredKeeps ==
  ASSUME Inv, NEW r \in Pending, RefreshAnswered(r)
  PROVE  Inv'
<1>. DEFINE c == [ResetKeyBackupData(Got(r)) EXCEPT !.keyBackupVersion = 0, !.state = "Unknown"]
            b == IF r.answer # "ok" \/ r.version = backup.keyBackupVersion THEN Got(r)
                 ELSE CheckAndStartWithKeyBackupVersion(c, r.version)
<1>1. Fits(ResetKeyBackupData(Got(r))) /\ Marks(ResetKeyBackupData(Got(r)))
  BY AnswerFits, ResetFits
<1>2. Fits(c) /\ Marks(c)
  BY <1>1, AnswerFits, ForgottenFits DEF States
<1>3. Becomes(b) /\ Settled /\ UNCHANGED overtaken
  BY DEF RefreshAnswered
<1>. HIDE DEF c
<1>4. Fits(b) /\ (Marks(backup) => Marks(b))
  BY <1>2, AnswerFits, CheckAndStartFits
<1>. HIDE DEF b
<1>. QED
  BY <1>3, <1>4, AnswerKeeps, SameHistory

\* The new version starts with no keys, and no marks.
LEMMA CreateAnsweredKeeps ==
  ASSUME Inv, NEW r \in Pending, CreateAnswered(r)
  PROVE  Inv'
<1>. DEFINE c == [Got(r) EXCEPT !.marked = {}]
            b == IF r.answer = "ok" THEN EnableKeyBackup(c, r.version) ELSE Got(r)
<1>1. Fits(c) /\ c.marked = {}
  <2>. DEFINE g == Got(r)
  <2>1. Fits(g)
    BY AnswerFits
  <2>. HIDE DEF g
  <2>2. /\ c \in Backups /\ c.marked = {} /\ c.requests = g.requests
        /\ c.backupVersion = g.backupVersion /\ c.backupKey = g.backupKey
        /\ c.keyBackupVersion = g.keyBackupVersion
    BY <2>1 DEF Fits, Backups, g
  <2>. HIDE DEF c
  <2>. QED
    BY <2>1, <2>2 DEF Fits, KeyFits
<1>2. Becomes(b) /\ Settled /\ UNCHANGED overtaken /\ r.kind = "create"
  BY DEF CreateAnswered, Comes
<1>. HIDE DEF c
<1>3. r.answer = "ok" => r.version \in usable
  BY <1>2, AnswerFits DEF RequestFits
<1>4. Fits(b) /\ (Marks(backup) => Marks(b))
  BY <1>1, <1>3, AnswerFits, EnableFits
<1>. HIDE DEF b
<1>. QED
  BY <1>2, <1>4, AnswerKeeps, SameHistory

LEMMA DeleteAnsweredKeeps ==
  ASSUME Inv, NEW r \in Pending, DeleteAnswered(r)
  PROVE  Inv'
<1>. DEFINE b == IF backup.state = "Unknown" THEN CheckAndStartKeyBackup(Got(r)) ELSE Got(r)
<1>1. Fits(b) /\ (Marks(backup) => Marks(b))
  BY AnswerFits, CheckFits
<1>2. Becomes(b) /\ Settled /\ UNCHANGED overtaken
  BY DEF DeleteAnswered
<1>. HIDE DEF b
<1>. QED
  BY <1>1, <1>2, AnswerKeeps, SameHistory

LEMMA TrustAnsweredKeeps ==
  ASSUME Inv, NEW r \in Pending, TrustAnswered(r)
  PROVE  Inv'
<1>. DEFINE b == IF r.answer = "ok" THEN CheckAndStartWithKeyBackupVersion(Got(r), r.version) ELSE Got(r)
<1>1. Fits(b) /\ (Marks(backup) => Marks(b))
  BY AnswerFits, CheckAndStartFits
<1>2. Becomes(b) /\ Settled /\ UNCHANGED overtaken
  BY DEF TrustAnswered
<1>. HIDE DEF b
<1>. QED
  BY <1>1, <1>2, AnswerKeeps, SameHistory

\* The keys that go to the store are in the version that they come from.
LEMMA RestoreAnsweredKeeps ==
  ASSUME Inv, NEW r \in Pending, RestoreAnswered(r)
  PROVE  Inv'
<1>. DEFINE b == Got(r)
<1>1. RequestFits(r) /\ r.kind = "restore" /\ r.version \in 0..created /\ Fits(b) /\ (Marks(backup) => Marks(b))
  BY AnswerFits DEF RestoreAnswered, Comes
<1>2. /\ backup' = b /\ b.timers <= MaxTimers
      /\ UNCHANGED <<created, live, stored, usable, late, overtaken, calls>>
  BY DEF RestoreAnswered, Becomes, homeserver
<1>. HIDE DEF b
<1>3. r.keys \subseteq Keys
  BY <1>1 DEF RequestFits, Request
<1>4. CASE UNCHANGED <<known, importing>>
  <2>1. ServerFits' /\ Grows
    BY <1>2, <1>4, ServerStays DEF Inv, homeserver
  <2>2. ImportFits' /\ HistoryFits'
    BY <1>2, <1>4 DEF Inv, ImportFits, HistoryFits
  <2>. QED
    BY <1>1, <1>2, <2>1, <2>2, StepKeeps DEF Inv, MarksFit
<1>5. CASE /\ r.answer = "ok" /\ known' = known \cup r.keys
           /\ importing' = [keys |-> r.keys \ known, version |-> r.version,
                            backUp |-> r.version # backup.keyBackupVersion]
  <2>1. ServerFits' /\ Grows
    BY <1>2, <1>3, <1>5 DEF Inv, ServerFits, Grows
  <2>2. HistoryFits'
    BY <1>2, <1>5 DEF Inv, HistoryFits
  <2>3. /\ importing' \in [keys : SUBSET known', version : 0..created', backUp : BOOLEAN]
        /\ importing'.version = r.version /\ importing'.keys \subseteq r.keys
    BY <1>1, <1>2, <1>5
  <2>4. r.version # 0 /\ r.keys \subseteq stored[r.version]
    BY <1>1, <1>5 DEF RequestFits
  <2>5. ImportFits'
    BY <1>2, <2>3, <2>4 DEF ImportFits
  <2>. QED
    BY <1>1, <1>2, <2>1, <2>2, <2>5, StepKeeps DEF Inv, MarksFit
<1>. QED
  BY <1>4, <1>5 DEF RestoreAnswered

\* The keys that were chosen are marked: those that were sent are in the version, if it is
\* still in use.
LEMMA SendAnsweredKeeps ==
  ASSUME Inv, NEW r \in Pending, SendAnswered(r)
  PROVE  Inv'
<1>. DEFINE g == Got(r)
<1>0. RequestFits(r) /\ ServerFits /\ Fits(g) /\ (Marks(backup) => Marks(g))
  BY AnswerFits
<1>1. /\ r.kind = "send" /\ Settled
      /\ Overtaken("send", r.version # backup.backupVersion \/ r.version # backup.keyBackupVersion)
  BY DEF SendAnswered, Comes
<1>2. overtaken \subseteq overtaken' /\ overtaken' \subseteq {"check", "send", "restore"}
  BY <1>1, OvertakenGrows DEF Inv
<1>3. {"ReadyToBackUp", "WillBackUp", "WrongBackUpVersion"} \subseteq States
  BY DEF States
<1>4. CASE r.answer = "ok"
  <2>. DEFINE b == [g EXCEPT !.marked = @ \cup r.keys]
  <2>1. r.keys \ Refused \subseteq stored[r.version] /\ r.keys \in SUBSET Keys
    BY <1>0, <1>1, <1>4 DEF RequestFits, Request, Body
  <2>2. /\ b \in Backups /\ b.marked = g.marked \cup r.keys /\ b.requests = g.requests
        /\ b.backupVersion = g.backupVersion /\ b.backupKey = g.backupKey
        /\ b.keyBackupVersion = g.keyBackupVersion
    BY <1>0, <2>1 DEF Fits, Backups
  <2>. HIDE DEF b, g
  <2>3. Fits(b)
    BY <1>0, <1>1, <2>2 DEF Fits, KeyFits, RequestFits
  \* Unless the version has changed, it is the one that the keys were sent to.
  <2>4. overtaken' \cap {"send", "restore"} = {} => Marks(b)
    <3>1. g.backupVersion = backup.backupVersion
      BY DEF g, Got, Inv, Fits, Backups
    <3>2. ASSUME overtaken' \cap {"send", "restore"} = {}
          PROVE  r.version = backup.backupVersion /\ Marks(g)
      BY <1>0, <1>1, <1>2, <3>2 DEF Overtaken, Inv, MarksFit
    <3>3. r.version # 0
      BY <1>0, <1>1 DEF RequestFits, ServerFits
    <3>. QED
      BY <2>1, <2>2, <3>1, <3>2, <3>3 DEF Marks
  <2>5. CASE Becomes(InState(b, "ReadyToBackUp"))
    <3>1. Fits(InState(b, "ReadyToBackUp")) /\ (Marks(b) => Marks(InState(b, "ReadyToBackUp")))
      BY <1>3, <2>3, InStateFits
    <3>. QED
      BY <1>1, <1>2, <2>4, <2>5, <3>1, SettledKeeps
  <2>6. CASE \E chunk \in Chunks(b) : Becomes(SendKeyBackup(InState(b, "WillBackUp"), chunk))
    <3>. DEFINE c == InState(b, "WillBackUp")
    <3>1. Fits(c) /\ (Marks(b) => Marks(c))
      BY <1>3, <2>3, InStateFits
    <3>2. PICK chunk \in Chunks(b) : Becomes(SendKeyBackup(c, chunk))
      BY <2>6
    <3>. HIDE DEF c
    <3>3. chunk \in SUBSET known
      BY ChunksAreKnown
    <3>4. Fits(SendKeyBackup(c, chunk)) /\ (Marks(c) => Marks(SendKeyBackup(c, chunk)))
      BY <1>0, <3>1, <3>3, SendKeyBackupFits
    <3>. QED
      BY <1>1, <1>2, <2>4, <3>1, <3>2, <3>4, SettledKeeps
  <2>. QED
    BY <1>4, <2>5, <2>6 DEF SendAnswered, b, g
<1>5. CASE r.answer # "ok"
  <2>. DEFINE b == IF r.answer = "wrong" THEN InState(ResetKeyBackupData(g), "WrongBackUpVersion")
                   ELSE MaybeSendKeyBackup(InState(g, "ReadyToBackUp"))
  <2>1. Becomes(b)
    BY <1>5 DEF SendAnswered
  <2>. HIDE DEF g
  <2>2. Fits(b) /\ (Marks(backup) => Marks(b))
    BY <1>0, <1>3, ResetFits, InStateFits, MaybeSendFits
  <2>. HIDE DEF b
  <2>. QED
    BY <1>1, <1>2, <2>1, <2>2, AnswerKeeps
<1>. QED
  BY <1>4, <1>5

(***************************************************************************)
(* The whole system.                                                       *)
(***************************************************************************)
LEMMA RestartKeeps ==
  ASSUME Inv, Restart
  PROVE  Inv'
<1>. DEFINE b == [backup EXCEPT !.state = "Unknown", !.keyBackupVersion = 0, !.backupKey = 0,
                                !.timers = 0, !.requests = EmptyBag]
<1>1. EmptyBag \in RequestBags /\ DOMAIN EmptyBag = {}
  <2>1. EmptyBag \in [{} -> Nat \ {0}]
    BY DEF EmptyBag, SetToBag
  <2>. QED
    BY <2>1 DEF RequestBags
<1>2. /\ b \in Backups /\ b.keyBackupVersion = 0 /\ b.backupKey = 0 /\ b.timers = 0
      /\ DOMAIN b.requests = {} /\ b.backupVersion = backup.backupVersion /\ b.marked = backup.marked
  BY <1>1, NoVersion DEF Inv, Fits, Backups, States
<1>3. /\ backup' = b /\ importing' = NoImport /\ calls < MaxCalls /\ calls' = calls + 1
      /\ UNCHANGED <<homeserver, usable, known, late, overtaken>>
  BY DEF Restart
<1>. HIDE DEF b
<1>4. ServerFits' /\ Grows
  BY <1>3, ServerStays DEF Inv
<1>5. Fits(b) /\ (Marks(backup) => Marks(b))
  BY <1>2, KeyBackupAssumption DEF Inv, ServerFits, Fits, KeyFits, Marks
<1>6. ImportFits'
  BY <1>3, <1>4, NoImportFits DEF ImportFits, ServerFits, homeserver
<1>7. HistoryFits'
  BY <1>2, <1>3, KeyBackupAssumption DEF Inv, HistoryFits
<1>. QED
  BY <1>3, <1>4, <1>5, <1>6, <1>7, StepKeeps DEF Inv, MarksFit

LEMMA InitIsInv ==
  ASSUME Init
  PROVE  Inv
<1>0. 0 \in 0..MaxVersion /\ 0 \in 0..MaxCalls /\ 0 <= MaxTimers
  BY KeyBackupAssumption
<1>1. EmptyBag \in RequestBags /\ DOMAIN EmptyBag = {}
  <2>1. EmptyBag \in [{} -> Nat \ {0}]
    BY DEF EmptyBag, SetToBag
  <2>. QED
    BY <2>1 DEF RequestBags
<1>2. /\ backup \in Backups /\ backup.keyBackupVersion = 0 /\ backup.backupKey = 0 /\ backup.timers = 0
      /\ DOMAIN backup.requests = {} /\ backup.backupVersion = 0 /\ backup.marked = {}
  BY <1>0, <1>1 DEF Init, Backups, States
<1>3. ServerFits /\ HistoryFits
  BY <1>0, <1>2, KeyBackupAssumption DEF Init, ServerFits, HistoryFits
<1>4. Fits(backup) /\ MarksFit
  BY <1>2 DEF Init, Fits, KeyFits, MarksFit, Marks
<1>5. ImportFits
  BY <1>0, NoImportFits DEF Init, ImportFits
<1>. QED
  BY <1>3, <1>4, <1>5 DEF Inv

LEMMA InvKept ==
  ASSUME Inv, [Next]_vars
  PROVE  Inv'
<1>1. ASSUME NEW k \in Keys, NewKey(k)
      PROVE  Inv'
  BY <1>1, NewKeyKeeps
<1>2. CASE Application
  BY <1>2, ApplicationKeeps
<1>3. CASE TimerFires \/ Imported
  BY <1>3, TimerKeeps, ImportedKeeps
<1>4. ASSUME NEW r \in Pending, Process(r) \/ Lost(r)
      PROVE  Inv'
  BY <1>4, ProcessKeeps, LostKeeps
<1>5. ASSUME NEW r \in Pending,
             \/ CheckAnswered(r) \/ RefreshAnswered(r) \/ CreateAnswered(r) \/ DeleteAnswered(r)
             \/ TrustAnswered(r) \/ RestoreAnswered(r) \/ SendAnswered(r)
      PROVE  Inv'
  BY <1>5, CheckAnsweredKeeps, RefreshAnsweredKeeps, CreateAnsweredKeeps, DeleteAnsweredKeeps,
     TrustAnsweredKeeps, RestoreAnsweredKeeps, SendAnsweredKeeps
<1>6. CASE OtherDeviceCreates \/ OtherDeviceDeletes \/ OtherDeviceBacksUp \/ Restart
  BY <1>6, OtherDeviceKeeps, RestartKeeps
<1>7. CASE UNCHANGED vars
  BY <1>7 DEF vars, homeserver, Inv, ServerFits, Fits, KeyFits, RequestFits, MarksFit, Marks,
              ImportFits, HistoryFits
<1>. QED
  BY <1>1, <1>2, <1>3, <1>4, <1>5, <1>6, <1>7, Zenon DEF Next, System

LEMMA InvHolds == Spec => []Inv
BY InitIsInv, InvKept, PTL DEF Spec

(***************************************************************************)
(* What the invariant gives.                                               *)
(***************************************************************************)
\* The state keeps its types: versions are ones that exist, the key in memory is that of
\* the version of the crypto store, the store marks no key it does not have, and the
\* requests under way are a bag of requests (the state of MXKeyBackup.m).
THEOREM KeyBackupTypeCorrect == Spec => []TypeOK
<1>1. ASSUME Inv
      PROVE  TypeOK
  <2>1. backup \in Backups /\ created \in 0..MaxVersion /\ created \in Nat /\ backup.timers <= MaxTimers
    BY <1>1, KeyBackupAssumption DEF Inv, Fits, ServerFits, HistoryFits
  <2>2. Pending \subseteq Request /\ IsABag(backup.requests)
    <3>1. backup.requests \in RequestBags
      BY <2>1 DEF Backups
    <3>. QED
      BY <3>1, BagsOfRequests DEF Pending
  <2>3. backup.keyBackupVersion \in 0..created /\ backup.backupVersion \in 0..created
    BY <1>1, <2>1, KeyBackupAssumption DEF Inv, Fits, Backups
  <2>4. backup.timers \in 0..MaxTimers
    BY <2>1, KeyBackupAssumption DEF Backups
  <2>5. importing.keys \subseteq known /\ importing.version \in 0..created /\ importing.backUp \in BOOLEAN
    BY <1>1 DEF Inv, ImportFits
  <2>. QED
    BY <1>1, <2>1, <2>2, <2>3, <2>4, <2>5 DEF TypeOK, Inv, ServerFits, Fits, KeyFits, HistoryFits, Backups
<1>. QED
  BY <1>1, InvHolds, PTL

\* Keys are sent to no version but the one they are encrypted for, one that is trusted, in
\* whatever order checks, refreshes, deletions and timers come (sendKeyBackup).
THEOREM KeysSentToTheirVersion == Spec => []SentToItsVersion
<1>1. Inv => SentToItsVersion
  BY DEF Inv, Fits, RequestFits, SentToItsVersion, Pending, BagToSet
<1>. QED
  BY <1>1, InvHolds, PTL

\* A key marked as backed up is in the version in use, unless encryptGroupSession refuses
\* it (such keys are marked with the others, and are in no version), through versions that
\* come and go, errors, retries and restarts; for as long as no key has been marked by an
\* answer that came after the version changed, or by a restore from a version not in use
\* (the marks of markBackupDoneForInboundGroupSessions).
THEOREM NoMarkedKeyForgotten == Spec => []NoKeyForgotten
<1>1. Inv => NoKeyForgotten
  BY DEF Inv, MarksFit, Marks, NoKeyForgotten
<1>. QED
  BY <1>1, InvHolds, PTL

(***************************************************************************)
(* A backup at rest is complete.  What the state promises is under way:    *)
(* somebody waits for it, and the keys that are not in the backup are in a *)
(* request, or a timer is running.  That holds as long as no answer has    *)
(* come after what it is about has changed.                                *)
(***************************************************************************)
\* An enabled backup has its version and the version's key.  Otherwise the version of the
\* crypto store is one that has not been looked for since the process started.
Keyed(b) ==
  IF Enabled(b) THEN b.backupKey # 0 /\ b.keyBackupVersion # 0
  ELSE b.backupVersion # 0 => b.keyBackupVersion = 0 /\ b.timers = 0

Going(b) ==
  /\ b.state = "CheckingBackUpOnHomeserver" => \E r \in DOMAIN b.requests : r.kind = "check"
  /\ b.state = "BackingUp" => \E r \in DOMAIN b.requests : r.kind = "send"
  /\ b.state = "WillBackUp" => b.timers > 0

\* A request that has the key, or one that will be followed by another.
Sends(r, k) == r.kind = "send" /\ (k \in r.keys \/ Cardinality(r.keys) = MaxCount)
Sending(b, k) == \E r \in DOMAIN b.requests : Sends(r, k)

Covers(b, K) ==
  b.state \in {"ReadyToBackUp", "BackingUp"} =>
    \A k \in K \ b.marked : Sending(b, k) \/ (b.state = "ReadyToBackUp" /\ b.timers > 0)

Rests(b, K) == Keyed(b) /\ Going(b) /\ Covers(b, K)

\* The keys that came while others were sent wait for the next key; those of a
\* restore are still to be looked at.
Looked == known \ (late \cup importing.keys)

RestFits == overtaken = {} => Rests(backup, Looked)

LEMMA RestsNext ==
  ASSUME overtaken' = {} => Rests(backup', Looked')
  PROVE  RestFits'
BY DEF RestFits, Rests, Keyed, Going, Covers, Sending, Sends, Enabled, Looked

\* Other requests of the bag stay.
LEMMA BagRemoveLeaves ==
  ASSUME NEW B \in RequestBags, NEW r
  PROVE  DOMAIN B \ {r} \subseteq DOMAIN BagRemove(B, r)
<1>1. PICK S \in SUBSET Request : B \in [S -> Nat \ {0}]
  BY DEF RequestBags
<1>. QED
  BY <1>1 DEF BagRemove

\* One more request.
LEMMA SendRests ==
  ASSUME NEW b \in Backups, NEW K, Rests(b, K), NEW r \in Request
  PROVE  Rests(Send(b, r), K)
<1>. DEFINE c == Send(b, r)
<1>1. DOMAIN BagAdd(b.requests, r) = DOMAIN b.requests \cup {r}
  BY BagAddFits DEF Backups
<1>2. /\ c.state = b.state /\ c.timers = b.timers /\ c.marked = b.marked
      /\ c.backupVersion = b.backupVersion /\ c.backupKey = b.backupKey
      /\ c.keyBackupVersion = b.keyBackupVersion
      /\ DOMAIN b.requests \subseteq DOMAIN c.requests
  BY <1>1 DEF Send, Backups
<1>. HIDE DEF c
<1>3. Rests(c, K)
  BY <1>2 DEF Rests, Keyed, Going, Covers, Sending, Enabled
<1>. QED
  BY <1>3 DEF c

LEMMA CheckRequest == Asked("check", 0) \in Request
BY KeyBackupAssumption DEF Asked, Request, Kinds

\* A check that starts is waited for.
LEMMA CheckRests ==
  ASSUME NEW b \in Backups, NEW K, Rests(b, K)
  PROVE  Rests(CheckAndStartKeyBackup(b), K)
<1>1. CASE b.state \in {"Unknown", "Disabled", "WrongBackUpVersion", "NotTrusted"}
  <2>. DEFINE c == [b EXCEPT !.keyBackupVersion = 0, !.state = "CheckingBackUpOnHomeserver"]
              d == Send(c, Asked("check", 0))
  <2>1. ~Enabled(b)
    BY <1>1 DEF Enabled
  <2>2. /\ c \in Backups /\ c.state = "CheckingBackUpOnHomeserver" /\ c.keyBackupVersion = 0
        /\ c.timers = b.timers /\ c.backupVersion = b.backupVersion
    BY NoVersion DEF Backups, States
  <2>. HIDE DEF c
  <2>3. DOMAIN BagAdd(c.requests, Asked("check", 0)) = DOMAIN c.requests \cup {Asked("check", 0)}
    BY <2>2, CheckRequest, BagAddFits DEF Backups
  <2>4. /\ d.state = "CheckingBackUpOnHomeserver" /\ d.keyBackupVersion = 0
        /\ d.timers = b.timers /\ d.backupVersion = b.backupVersion
        /\ Asked("check", 0) \in DOMAIN d.requests
    BY <2>2, <2>3 DEF Send, Backups
  <2>. HIDE DEF d
  <2>5. Asked("check", 0).kind = "check"
    BY DEF Asked
  <2>6. Rests(d, K)
    BY <2>1, <2>4, <2>5 DEF Rests, Keyed, Going, Covers, Enabled
  <2>. QED
    BY <1>1, <2>6 DEF CheckAndStartKeyBackup, c, d
<1>2. CASE b.state \notin {"Unknown", "Disabled", "WrongBackUpVersion", "NotTrusted"}
  BY <1>2 DEF CheckAndStartKeyBackup
<1>. QED
  BY <1>1, <1>2

\* A backup that is ready starts a timer, whatever there is to back up.
LEMMA ReadyMaybeRests ==
  ASSUME NEW b \in Backups, NEW K, Keyed(b), b.state = "ReadyToBackUp"
  PROVE  Rests(MaybeSendKeyBackup(b), K)
<1>. DEFINE c == [InState(b, "WillBackUp") EXCEPT !.timers = @ + 1]
<1>1. /\ c.state = "WillBackUp" /\ c.timers = b.timers + 1 /\ b.timers \in Nat
      /\ c.backupKey = b.backupKey /\ c.keyBackupVersion = b.keyBackupVersion
  BY DEF InState, Backups
<1>. HIDE DEF c
<1>2. Rests(c, K)
  BY <1>1 DEF Rests, Keyed, Going, Covers, Enabled
<1>. QED
  BY <1>2 DEF MaybeSendKeyBackup, c

\* maybeSendKeyBackup is called for keys; in vain if others are being sent.
LEMMA MaybeRests ==
  ASSUME NEW b \in Backups, NEW K, Rests(b, K), NEW L, b.state = "BackingUp" => L \subseteq K
  PROVE  Rests(MaybeSendKeyBackup(b), L)
<1>1. CASE b.state = "ReadyToBackUp"
  BY <1>1, ReadyMaybeRests DEF Rests
<1>2. CASE b.state # "ReadyToBackUp"
  <2>1. Rests(b, L)
    BY <1>2 DEF Rests, Covers
  <2>. QED
    BY <1>2, <2>1, CheckRests DEF MaybeSendKeyBackup
<1>. QED
  BY <1>1, <1>2

LEMMA EnableRests ==
  ASSUME NEW b \in Backups, NEW K, NEW v \in Versions
  PROVE  Rests(EnableKeyBackup(b, v), K)
<1>. DEFINE c == [b EXCEPT !.keyBackupVersion = v, !.backupVersion = v, !.backupKey = v,
                           !.state = "ReadyToBackUp"]
<1>1. v # 0 /\ v \in 0..MaxVersion
  BY KeyBackupAssumption DEF Versions
<1>2. c \in Backups /\ c.state = "ReadyToBackUp" /\ c.keyBackupVersion = v /\ c.backupKey = v
  BY <1>1 DEF Backups, States
<1>. HIDE DEF c
<1>3. Keyed(c)
  BY <1>1, <1>2 DEF Keyed, Enabled
<1>4. Rests(MaybeSendKeyBackup(c), K)
  BY <1>2, <1>3, ReadyMaybeRests
<1>. QED
  BY <1>4 DEF EnableKeyBackup, c

\* Whatever was under way, the version that is found decides.
LEMMA CheckAndStartRests ==
  ASSUME ServerFits, NEW b \in Backups, NEW K, NEW v \in 0..created
  PROVE  Rests(CheckAndStartWithKeyBackupVersion(b, v), K)
<1>. DEFINE c == [b EXCEPT !.keyBackupVersion = v]
<1>0. v \in 0..MaxVersion
  BY KeyBackupAssumption DEF ServerFits
<1>1. c \in Backups
  BY <1>0 DEF Backups
<1>. HIDE DEF c
<1>2. ResetKeyBackupData(c) \in Backups /\ ResetKeyBackupData(c).backupVersion = 0
  BY <1>1, ResetFields
<1>3. ASSUME NEW d \in Backups, d.backupVersion = 0, NEW s \in {"Disabled", "NotTrusted"}
      PROVE  Rests(InState(d, s), K)
  <2>. DEFINE e == InState(d, s)
  <2>1. e.state = s /\ e.backupVersion = 0
    BY <1>3 DEF InState, Backups
  <2>. HIDE DEF e
  <2>2. Rests(e, K)
    BY <2>1, <1>3 DEF Rests, Keyed, Going, Covers, Enabled
  <2>. QED
    BY <2>2 DEF e
<1>4. CASE v = 0
  BY <1>2, <1>3, <1>4 DEF CheckAndStartWithKeyBackupVersion, c
<1>5. CASE v # 0 /\ v \in usable
  <2>1. v \in Versions
    BY <1>0, <1>5, KeyBackupAssumption DEF Versions
  <2>2. \A d \in Backups : Rests(EnableKeyBackup(d, v), K)
    BY <2>1, EnableRests
  <2>. QED
    BY <1>1, <1>2, <1>5, <2>2 DEF CheckAndStartWithKeyBackupVersion, c
<1>6. CASE v # 0 /\ v \notin usable
  BY <1>1, <1>2, <1>3, <1>6 DEF CheckAndStartWithKeyBackupVersion, c
<1>. QED
  BY <1>4, <1>5, <1>6

\* The operators on finite sets of the library's theorems are those of the model.
LEMMA SameFiniteSets ==
  ASSUME NEW S
  PROVE  (IsFiniteSet(S) <=> FS!IsFiniteSet(S)) /\ Cardinality(S) = FS!Cardinality(S)
<1>1. IsFiniteSet(S) <=> FS!IsFiniteSet(S)
  BY DEF IsFiniteSet, FS!IsFiniteSet
<1>2. Cardinality(S) = FS!Cardinality(S)
  BY Zenon DEF Cardinality, FS!Cardinality
<1>. QED
  BY <1>1, <1>2

\* inboundGroupSessionsToBackup finds all the keys, or as many as a request may have.
LEMMA ChunkFacts ==
  ASSUME ServerFits, NEW b, NEW chunk \in Chunks(b)
  PROVE  /\ chunk \subseteq ToBackUp(b)
         /\ chunk = {} => ToBackUp(b) = {}
         /\ chunk = ToBackUp(b) \/ Cardinality(chunk) = MaxCount
<1>. DEFINE S == ToBackUp(b)
            n == Cardinality(S)
<1>1. IsFiniteSet(S) /\ n \in Nat
  <2>1. S \in SUBSET Keys
    BY DEF ServerFits, ToBackUp
  <2>2. IsFiniteSet(S)
    BY <2>1, FS!FS_Subset, SameFiniteSets, KeyBackupAssumption
  <2>. HIDE DEF S
  <2>. QED
    BY <2>2, FS!FS_CardinalityType, SameFiniteSets
<1>2. chunk \in SUBSET S /\ Cardinality(chunk) = IF n < MaxCount THEN n ELSE MaxCount
  <2>. DEFINE m == IF n < MaxCount THEN n ELSE MaxCount
  <2>1. chunk \in kSubset(m, S)
    BY DEF Chunks
  <2>. HIDE DEF m, S
  <2>2. chunk \in SUBSET S /\ Cardinality(chunk) = m
    BY <2>1, Zenon DEF kSubset
  <2>. QED
    BY <2>2 DEF m
<1>. HIDE DEF S
<1>3. Cardinality(S) = Cardinality(chunk) => S = chunk
  <2>1. FS!IsFiniteSet(S) /\ Cardinality(S) = FS!Cardinality(S) /\ Cardinality(chunk) = FS!Cardinality(chunk)
    BY <1>1, SameFiniteSets
  <2>2. FS!Cardinality(S) = FS!Cardinality(chunk) => S = chunk
    BY <1>2, <2>1, FS!FS_Subset
  <2>. QED
    BY <2>1, <2>2
<1>4. chunk = {} => Cardinality(chunk) = 0
  BY FS!FS_EmptySet, SameFiniteSets
<1>5. n = 0 => S = {}
  BY <1>1, FS!FS_EmptySet, SameFiniteSets
<1>6. MaxCount \in Nat /\ MaxCount # 0
  BY KeyBackupAssumption
<1>7. n < MaxCount => S = chunk
  BY <1>2, <1>3
<1>8. ~(n < MaxCount) => Cardinality(chunk) = MaxCount
  BY <1>2
<1>9. chunk = {} => S = {}
  BY <1>4, <1>6, <1>7, <1>8
<1>. QED
  BY <1>2, <1>7, <1>8, <1>9 DEF S

\* sendKeyBackup of a backup that is enabled has keys sent, or there are none to send; of
\* another one it must find keys, or it would call it ready.
LEMMA SendKeyBackupRests ==
  ASSUME NEW b \in Backups, Keyed(b), NEW K, NEW chunk \in SUBSET Keys,
         b.state = "BackingUp" \/ ~Enabled(b) => Rests(b, K),
         ~Enabled(b) => chunk # {},
         chunk = {} => K \subseteq b.marked,
         (K \ b.marked) \subseteq chunk \/ Cardinality(chunk) = MaxCount
  PROVE  Rests(SendKeyBackup(b, chunk), K)
<1>1. CASE chunk = {}
  <2>. DEFINE c == InState(b, "ReadyToBackUp")
  <2>1. /\ c.state = "ReadyToBackUp" /\ c.marked = b.marked
        /\ c.backupKey = b.backupKey /\ c.keyBackupVersion = b.keyBackupVersion
    BY DEF InState, Backups
  <2>. HIDE DEF c
  <2>2. Enabled(b)
    BY <1>1
  <2>3. Rests(c, K)
    BY <1>1, <2>1, <2>2 DEF Rests, Keyed, Going, Covers, Enabled
  <2>. QED
    BY <1>1, <2>3 DEF SendKeyBackup, c
<1>2. CASE chunk # {} /\ (b.state = "BackingUp" \/ ~Enabled(b))
  BY <1>2 DEF SendKeyBackup
<1>3. CASE chunk # {} /\ b.state # "BackingUp" /\ Enabled(b)
  <2>. DEFINE r == [Asked("send", b.keyBackupVersion) EXCEPT !.for = b.backupKey, !.keys = chunk]
              c == InState(b, "BackingUp")
              d == Send(c, r)
  <2>1. b.keyBackupVersion \in 0..MaxVersion /\ b.backupKey \in 0..MaxVersion
    BY DEF Backups
  <2>2. r \in Request /\ r.kind = "send" /\ r.keys = chunk
    BY <2>1 DEF Asked, Request, Kinds
  <2>. HIDE DEF r
  <2>3. /\ c.state = "BackingUp" /\ c.marked = b.marked /\ c.requests \in RequestBags
        /\ c.backupKey = b.backupKey /\ c.keyBackupVersion = b.keyBackupVersion /\ c \in Backups
    BY DEF InState, Backups, States
  <2>. HIDE DEF c
  <2>4. DOMAIN BagAdd(c.requests, r) = DOMAIN c.requests \cup {r}
    BY <2>2, <2>3, BagAddFits
  <2>5. /\ d.state = "BackingUp" /\ d.marked = b.marked /\ r \in DOMAIN d.requests
        /\ d.backupKey = b.backupKey /\ d.keyBackupVersion = b.keyBackupVersion
    BY <2>3, <2>4 DEF Send, Backups
  <2>. HIDE DEF d
  <2>6. \A k \in K \ b.marked : Sends(r, k)
    BY <2>2 DEF Sends
  <2>7. b.backupKey # 0 /\ b.keyBackupVersion # 0
    BY <1>3 DEF Keyed
  <2>8. Rests(d, K)
    BY <2>2, <2>5, <2>6, <2>7 DEF Rests, Keyed, Going, Covers, Sending, Enabled
  <2>9. SendKeyBackup(b, chunk) = d
    BY <1>3, <2>7 DEF SendKeyBackup, r, c, d
  <2>. QED
    BY <2>8, <2>9
<1>. QED
  BY <1>1, <1>2, <1>3

(***************************************************************************)
(* The steps.                                                              *)
(***************************************************************************)
LEMMA NewKeyRests ==
  ASSUME Inv, RestFits, NEW k \in Keys, NewKey(k)
  PROVE  RestFits'
<1>1. /\ backup' = MaybeSendKeyBackup(backup) /\ known' = known \cup {k} /\ importing' = importing
      /\ late \subseteq late' /\ overtaken' = overtaken
      /\ backup.state = "BackingUp" => k \in late'
  BY DEF NewKey, Becomes, Skipped
<1>2. backup.state = "BackingUp" => Looked' \subseteq Looked
  BY <1>1 DEF Looked
<1>3. backup \in Backups
  BY DEF Inv, Fits
<1>4. overtaken' = {} => Rests(MaybeSendKeyBackup(backup), Looked')
  BY <1>1, <1>2, <1>3, MaybeRests DEF RestFits
<1>. QED
  BY <1>1, <1>4, RestsNext

\* The keys of a restore are marked, or they wait as a new key does.
LEMMA ImportedRests ==
  ASSUME Inv, RestFits, Imported
  PROVE  RestFits'
<1>1. importing' = NoImport /\ known' = known /\ backup \in Backups
  BY DEF Imported, Inv, Fits
<1>3. CASE importing.backUp
  <2>1. /\ backup' = MaybeSendKeyBackup(backup) /\ late \subseteq late' /\ overtaken' = overtaken
        /\ backup.state = "BackingUp" => importing.keys \subseteq late'
    BY <1>3 DEF Imported, Becomes, Skipped
  <2>2. backup.state = "BackingUp" => Looked' \subseteq Looked
    BY <1>1, <2>1 DEF Looked
  <2>3. overtaken' = {} => Rests(MaybeSendKeyBackup(backup), Looked')
    BY <1>1, <2>1, <2>2, MaybeRests DEF RestFits
  <2>. QED
    BY <2>1, <2>3, RestsNext
<1>4. CASE ~importing.backUp
  <2>. DEFINE b == [backup EXCEPT !.marked = @ \cup importing.keys]
  <2>1. backup' = b /\ late' = late /\ overtaken \subseteq overtaken'
    BY <1>4 DEF Imported, Becomes, Overtaken
  <2>2. /\ b.state = backup.state /\ b.timers = backup.timers
        /\ b.marked = backup.marked \cup importing.keys /\ b.requests = backup.requests
        /\ b.backupVersion = backup.backupVersion /\ b.backupKey = backup.backupKey
        /\ b.keyBackupVersion = backup.keyBackupVersion
    BY <1>1 DEF Backups
  <2>. HIDE DEF b
  <2>3. Looked' \ b.marked \subseteq Looked \ backup.marked
    BY <1>1, <2>1, <2>2 DEF Looked
  <2>4. Rests(backup, Looked) => Rests(b, Looked')
    BY <2>2, <2>3 DEF Rests, Keyed, Going, Covers, Sending, Enabled
  <2>5. overtaken' = {} => Rests(b, Looked')
    BY <2>1, <2>4 DEF RestFits
  <2>. QED
    BY <2>1, <2>5, RestsNext
<1>. QED
  BY <1>3, <1>4

\* A backup that has lost its version has no key marked, so that a timer finds some: this
\* is where a store without keys would be called ready.
LEMMA TimerRests ==
  ASSUME FirstKeys # {}, Inv, RestFits, TimerFires
  PROVE  RestFits'
<1>. DEFINE c == [backup EXCEPT !.timers = @ - 1]
<1>1. /\ backup.timers > 0 /\ UNCHANGED <<known, importing, late, overtaken>> /\ backup \in Backups
      /\ ServerFits
  BY DEF TimerFires, Inv, Fits
<1>2. PICK chunk \in Chunks(backup) : Becomes(SendKeyBackup(c, chunk))
  BY DEF TimerFires
<1>3. /\ chunk \subseteq ToBackUp(backup)
      /\ chunk = {} => ToBackUp(backup) = {}
      /\ chunk = ToBackUp(backup) \/ Cardinality(chunk) = MaxCount
  BY <1>1, <1>2, ChunkFacts
<1>4. /\ c \in Backups /\ c.state = backup.state /\ c.timers = backup.timers - 1
      /\ c.marked = backup.marked /\ c.requests = backup.requests
      /\ c.backupVersion = backup.backupVersion /\ c.backupKey = backup.backupKey
      /\ c.keyBackupVersion = backup.keyBackupVersion
  BY <1>1 DEF Backups
<1>. HIDE DEF c
<1>5. ASSUME overtaken = {}
      PROVE  Rests(SendKeyBackup(c, chunk), Looked)
  <2>1. Rests(backup, Looked)
    BY <1>5 DEF RestFits
  <2>2. Enabled(c) = Enabled(backup)
    BY <1>4 DEF Enabled
  <2>3. ~Enabled(backup) => backup.backupVersion = 0
    BY <1>1, <2>1 DEF Rests, Keyed
  <2>4. Keyed(c)
    BY <1>4, <2>1, <2>2, <2>3 DEF Rests, Keyed
  <2>5. backup.state = "BackingUp" \/ ~Enabled(backup) => Rests(c, Looked)
    BY <1>4, <2>1, <2>4 DEF Rests, Going, Covers, Sending, Enabled
  <2>6. ~Enabled(backup) => chunk # {}
    <3>1. MarksFit /\ FirstKeys \subseteq known
      BY DEF Inv, ServerFits
    <3>2. ~Enabled(backup) => backup.marked = {}
      BY <1>5, <2>3, <3>1 DEF MarksFit, Marks
    <3>. QED
      BY <1>3, <3>1, <3>2 DEF ToBackUp
  <2>7. Looked \ c.marked \subseteq ToBackUp(backup)
    BY <1>4 DEF Looked, ToBackUp
  <2>8. chunk \in SUBSET Keys
    BY <1>1, <1>3 DEF ToBackUp, ServerFits
  <2>9. chunk = {} => Looked \subseteq c.marked
    BY <1>3, <2>7
  <2>10. (Looked \ c.marked) \subseteq chunk \/ Cardinality(chunk) = MaxCount
    BY <1>3, <2>7
  <2>. QED
    BY <1>4, <2>2, <2>4, <2>5, <2>6, <2>8, <2>9, <2>10, SendKeyBackupRests
<1>6. Looked' = Looked /\ backup' = SendKeyBackup(c, chunk)
  BY <1>1, <1>2 DEF Looked, Becomes
<1>. QED
  BY <1>1, <1>5, <1>6, RestsNext

\* A call of the application takes the record to another one.
LEMMA CallRests ==
  ASSUME RestFits, NEW b, Call(b), overtaken = {} => Rests(b, Looked)
  PROVE  RestFits'
<1>1. backup' = b /\ Looked' = Looked /\ overtaken' = overtaken
  BY DEF Call, Becomes, Looked
<1>. QED
  BY <1>1, RestsNext

LEMMA AskRests ==
  ASSUME RestFits, NEW b \in Backups, NEW kind \in Kinds, NEW v \in 0..MaxVersion, Ask(b, kind, v),
         overtaken = {} => Rests(b, Looked)
  PROVE  RestFits'
<1>1. Asked(kind, v) \in Request
  BY KeyBackupAssumption DEF Asked, Request
<1>2. overtaken = {} => Rests(Send(b, Asked(kind, v)), Looked)
  BY <1>1, SendRests
<1>. QED
  BY <1>2, CallRests DEF Ask

LEMMA ApplicationRests ==
  ASSUME Orderly, Inv, RestFits, Application
  PROVE  RestFits'
<1>0. /\ ServerFits /\ backup \in Backups /\ 0 \in 0..MaxVersion /\ backup.keyBackupVersion \in 0..MaxVersion
      /\ overtaken = {} => Rests(backup, Looked)
  BY NoVersion DEF Inv, Fits, Backups, RestFits
<1>1. CASE Start
  <2>1. /\ backup' = CheckAndStartKeyBackup(backup) /\ UNCHANGED <<known, importing, late, overtaken>>
    BY <1>1 DEF Start, Becomes
  <2>2. Looked' = Looked
    BY <2>1 DEF Looked
  <2>. QED
    BY <1>0, <2>1, <2>2, CheckRests, RestsNext
<1>2. CASE TrustKeyBackupVersion
  BY <1>0, <1>2, AskRests DEF TrustKeyBackupVersion, Kinds
<1>3. CASE CreateKeyBackupVersion
  <2>. DEFINE b == InState(backup, "Enabling")
  <2>1. backup.keyBackupVersion = 0 /\ Ask(b, "create", 0)
    BY <1>3 DEF CreateKeyBackupVersion
  <2>2. /\ b \in Backups /\ b.state = "Enabling" /\ b.keyBackupVersion = 0 /\ b.timers = backup.timers
        /\ b.backupVersion = backup.backupVersion
    BY <1>0, <2>1 DEF InState, Backups, States
  <2>. HIDE DEF b
  <2>3. overtaken = {} => Rests(b, Looked)
    BY <1>0, <2>1, <2>2 DEF Rests, Keyed, Going, Covers, Enabled
  <2>. QED
    BY <1>0, <2>1, <2>2, <2>3, AskRests DEF Kinds
<1>4. ASSUME NEW v \in Versions, DeleteKeyBackupVersion(v)
      PROVE  RestFits'
  <2>. DEFINE c == ResetKeyBackupData(backup)
              b == [c EXCEPT !.keyBackupVersion = 0, !.state = "Unknown"]
  <2>1. c \in Backups /\ c.backupVersion = 0
    BY <1>0, ResetFields
  <2>2. Ask(IF v = backup.keyBackupVersion THEN b ELSE backup, "delete", v) /\ v \in 0..MaxVersion
    BY <1>4, KeyBackupAssumption DEF DeleteKeyBackupVersion, Versions
  <2>. HIDE DEF c
  <2>3. b \in Backups /\ b.state = "Unknown" /\ b.backupVersion = 0
    BY <1>0, <2>1 DEF Backups, States
  <2>. HIDE DEF b
  <2>4. Rests(b, Looked)
    BY <2>3 DEF Rests, Keyed, Going, Covers, Enabled
  <2>5. CASE v = backup.keyBackupVersion
    BY <1>0, <2>2, <2>3, <2>4, <2>5, AskRests DEF Kinds
  <2>6. CASE v # backup.keyBackupVersion
    BY <1>0, <2>2, <2>6, AskRests DEF Kinds
  <2>. QED
    BY <2>5, <2>6
<1>5. CASE ForceRefresh
  BY <1>0, <1>5, AskRests DEF ForceRefresh, Kinds
<1>6. ASSUME NEW v \in Versions, RestoreKeyBackup(v)
      PROVE  RestFits'
  <2>1. v \in 0..MaxVersion
    BY KeyBackupAssumption DEF Versions
  <2>. QED
    BY <1>0, <1>6, <2>1, AskRests DEF RestoreKeyBackup, Kinds
<1>7. ASSUME NEW v \in Versions, VerifyDevice(v)
      PROVE  RestFits'
  <2>1. Call(CheckAndStartKeyBackup(backup))
    BY <1>7 DEF VerifyDevice
  <2>. QED
    BY <1>0, <2>1, CheckRests, CallRests
<1>8. CASE BackupAllGroupSessions
  <2>1. PICK chunk \in Chunks(backup) : Call(SendKeyBackup(backup, chunk))
    BY <1>8 DEF BackupAllGroupSessions
  <2>2. /\ chunk \subseteq ToBackUp(backup) /\ chunk # {}
        /\ chunk = ToBackUp(backup) \/ Cardinality(chunk) = MaxCount
    BY <1>0, <1>8, <2>1, ChunkFacts DEF BackupAllGroupSessions
  <2>3. Looked \ backup.marked \subseteq ToBackUp(backup) /\ chunk \in SUBSET Keys
    BY <1>0, <2>2 DEF Looked, ToBackUp, ServerFits
  <2>4. (Looked \ backup.marked) \subseteq chunk \/ Cardinality(chunk) = MaxCount
    BY <2>2, <2>3
  <2>5. overtaken = {} => Rests(SendKeyBackup(backup, chunk), Looked)
    BY <1>0, <2>2, <2>3, <2>4, SendKeyBackupRests DEF Rests
  <2>. QED
    BY <2>1, <2>5, CallRests
<1>. QED
  BY <1>1, <1>2, <1>3, <1>4, <1>5, <1>6, <1>7, <1>8 DEF Application

\* An answer to a request, or its loss: what is asked is still waited for.
LEMMA ProcessRests ==
  ASSUME Inv, RestFits, NEW r \in Pending, Process(r) \/ Lost(r)
  PROVE  RestFits'
<1>0. r \in Request /\ r \in DOMAIN backup.requests /\ backup \in Backups
  BY DEF Inv, Fits, RequestFits, Pending, BagToSet
<1>1. PICK a : Answered(r, a) /\ a.kind = r.kind /\ (r.kind = "send" => a.keys = r.keys)
  <2>1. r.kind \in Kinds
    BY <1>0 DEF Request
  <2>2. CASE Lost(r)
    BY <1>0, <2>2 DEF Lost, Request
  <2>3. CASE Process(r) /\ r.kind \in {"check", "refresh"}
    BY <1>0, <2>3 DEF Process, Request
  <2>4. CASE Process(r) /\ r.kind = "create"
    BY <1>0, <2>4 DEF Process, Request
  <2>5. CASE Process(r) /\ r.kind = "delete"
    BY <1>0, <2>5 DEF Process, Request
  <2>6. CASE Process(r) /\ r.kind = "trust"
    BY <1>0, <2>6 DEF Process, Request
  <2>7. CASE Process(r) /\ r.kind = "restore"
    BY <1>0, <2>7 DEF Process, Request
  <2>8. CASE Process(r) /\ r.kind = "send"
    BY <1>0, <2>8 DEF Process, Request
  <2>. QED
    BY <2>1, <2>2, <2>3, <2>4, <2>5, <2>6, <2>7, <2>8 DEF Kinds
<1>2. UNCHANGED <<known, importing, late, overtaken>>
  BY DEF Process, Lost
<1>. DEFINE B == BagRemove(backup.requests, r)
            b == [backup EXCEPT !.requests = BagAdd(B, a)]
<1>3. DOMAIN backup.requests \ {r} \subseteq DOMAIN B
  BY <1>0, BagRemoveLeaves DEF Backups
<1>. HIDE DEF B
<1>4. DOMAIN BagAdd(B, a) = DOMAIN B \cup {a}
  BY DEF BagAdd
<1>5. /\ b.state = backup.state /\ b.timers = backup.timers /\ b.marked = backup.marked
      /\ b.backupVersion = backup.backupVersion /\ b.backupKey = backup.backupKey
      /\ b.keyBackupVersion = backup.keyBackupVersion
      /\ (DOMAIN backup.requests \ {r}) \cup {a} \subseteq DOMAIN b.requests
  BY <1>0, <1>3, <1>4 DEF Backups
<1>. HIDE DEF b
<1>6. ASSUME Rests(backup, Looked)
      PROVE  Rests(b, Looked)
  <2>1. Keyed(b)
    BY <1>5, <1>6 DEF Rests, Keyed, Enabled
  <2>2. Going(b)
    BY <1>1, <1>5, <1>6 DEF Rests, Going
  <2>3. \A k : Sending(backup, k) => Sending(b, k)
    BY <1>1, <1>5 DEF Sending, Sends
  <2>4. Covers(b, Looked)
    BY <1>5, <1>6, <2>3 DEF Rests, Covers
  <2>. QED
    BY <2>1, <2>2, <2>4 DEF Rests
<1>7. backup' = b /\ Looked' = Looked
  BY <1>1, <1>2 DEF Answered, Looked, b, B
<1>. QED
  BY <1>2, <1>6, <1>7, RestsNext DEF RestFits

\* Nobody waits for a check or for keys to be sent in vain because another answer comes.
LEMMA GotRests ==
  ASSUME Inv, NEW r, NEW K
  PROVE  /\ Got(r) \in Backups /\ Got(r).state = backup.state /\ Got(r).timers = backup.timers
         /\ Got(r).marked = backup.marked
         /\ Got(r).backupVersion = backup.backupVersion /\ Got(r).backupKey = backup.backupKey
         /\ Got(r).keyBackupVersion = backup.keyBackupVersion
         /\ DOMAIN backup.requests \ {r} \subseteq DOMAIN Got(r).requests
         /\ r.kind \notin {"check", "send"} /\ Rests(backup, K) => Rests(Got(r), K)
<1>. DEFINE g == Got(r)
<1>0. backup \in Backups /\ backup.requests \in RequestBags
  BY DEF Inv, Fits, Backups
<1>1. /\ BagRemove(backup.requests, r) \in RequestBags
      /\ DOMAIN backup.requests \ {r} \subseteq DOMAIN BagRemove(backup.requests, r)
  BY <1>0, BagRemoveFits, BagRemoveLeaves
<1>2. /\ g \in Backups /\ g.state = backup.state /\ g.timers = backup.timers /\ g.marked = backup.marked
      /\ g.backupVersion = backup.backupVersion /\ g.backupKey = backup.backupKey
      /\ g.keyBackupVersion = backup.keyBackupVersion
      /\ DOMAIN backup.requests \ {r} \subseteq DOMAIN g.requests
  BY <1>0, <1>1 DEF Got, Backups
<1>. HIDE DEF g
<1>3. ASSUME r.kind \notin {"check", "send"}, Rests(backup, K)
      PROVE  Rests(g, K)
  <2>1. \A k : Sending(backup, k) => Sending(g, k)
    BY <1>2, <1>3 DEF Sending, Sends
  <2>2. Keyed(g) /\ Going(g)
    BY <1>2, <1>3 DEF Rests, Keyed, Going, Enabled
  <2>3. Covers(g, K)
    BY <1>2, <1>3, <2>1 DEF Rests, Covers
  <2>. QED
    BY <2>2, <2>3 DEF Rests
<1>. QED
  BY <1>2, <1>3 DEF g

\* Most answers leave the keys of the store alone.
LEMMA AnswerRests ==
  ASSUME RestFits, NEW b, Becomes(b), Settled, overtaken' = {} => Rests(b, Looked)
  PROVE  RestFits'
<1>1. backup' = b /\ Looked' = Looked
  BY DEF Becomes, Settled, Looked
<1>. QED
  BY <1>1, RestsNext

\* The answers but those of a send.
LEMMA OtherAnswersRest ==
  ASSUME Inv, RestFits, NEW r \in Pending,
         \/ CheckAnswered(r) \/ RefreshAnswered(r) \/ CreateAnswered(r) \/ DeleteAnswered(r)
         \/ TrustAnswered(r) \/ RestoreAnswered(r)
  PROVE  RestFits'
<1>. DEFINE g == Got(r)
<1>0. /\ ServerFits /\ r.version \in 0..created
      /\ g \in Backups /\ g.backupVersion = backup.backupVersion
      /\ g.keyBackupVersion = backup.keyBackupVersion /\ g.timers = backup.timers
      /\ r.kind \notin {"check", "send"} /\ Rests(backup, Looked) => Rests(g, Looked)
  BY AnswerFits, GotRests
<1>. HIDE DEF g
<1>1. CASE CheckAnswered(r)
  <2>. DEFINE b == IF r.answer = "ok" THEN CheckAndStartWithKeyBackupVersion(g, r.version)
                   ELSE InState(g, "Unknown")
  <2>1. /\ Becomes(b) /\ Settled
        /\ overtaken' = {} => overtaken = {} /\ backup.state = "CheckingBackUpOnHomeserver"
    BY <1>1 DEF CheckAnswered, Overtaken, g
  <2>2. Rests(CheckAndStartWithKeyBackupVersion(g, r.version), Looked)
    BY <1>0, CheckAndStartRests
  <2>3. ASSUME overtaken' = {}
        PROVE  Rests(InState(g, "Unknown"), Looked)
    <3>. DEFINE d == InState(g, "Unknown")
    <3>1. /\ d.state = "Unknown" /\ d.backupVersion = backup.backupVersion
          /\ d.keyBackupVersion = backup.keyBackupVersion /\ d.timers = backup.timers
      BY <1>0 DEF InState, Backups
    <3>. HIDE DEF d
    <3>2. Keyed(backup) /\ ~Enabled(backup)
      BY <2>1, <2>3 DEF RestFits, Rests, Enabled
    <3>3. Rests(d, Looked)
      BY <3>1, <3>2 DEF Rests, Keyed, Going, Covers, Enabled
    <3>. QED
      BY <3>3 DEF d
  <2>4. overtaken' = {} => Rests(b, Looked)
    BY <2>2, <2>3
  <2>. HIDE DEF b
  <2>. QED
    BY <2>1, <2>4, AnswerRests
<1>2. CASE RefreshAnswered(r)
  <2>. DEFINE c == ResetKeyBackupData(g)
              d == [c EXCEPT !.keyBackupVersion = 0, !.state = "Unknown"]
              b == IF r.answer # "ok" \/ r.version = backup.keyBackupVersion THEN g
                   ELSE CheckAndStartWithKeyBackupVersion(d, r.version)
  <2>1. Becomes(b) /\ Settled /\ overtaken' = overtaken /\ r.kind = "refresh"
    BY <1>2 DEF RefreshAnswered, Comes, g
  <2>2. c \in Backups
    BY <1>0, ResetFields
  <2>. HIDE DEF c
  <2>3. d \in Backups
    BY <2>2, NoVersion DEF Backups, States
  <2>. HIDE DEF d
  <2>4. Rests(CheckAndStartWithKeyBackupVersion(d, r.version), Looked)
    BY <1>0, <2>3, CheckAndStartRests
  <2>5. overtaken' = {} => Rests(b, Looked)
    BY <1>0, <2>1, <2>4 DEF RestFits
  <2>. HIDE DEF b
  <2>. QED
    BY <2>1, <2>5, AnswerRests
<1>3. CASE CreateAnswered(r)
  <2>. DEFINE c == [g EXCEPT !.marked = {}]
              b == IF r.answer = "ok" THEN EnableKeyBackup(c, r.version) ELSE g
  <2>1. Becomes(b) /\ Settled /\ overtaken' = overtaken /\ r.kind = "create"
    BY <1>3 DEF CreateAnswered, Comes, g
  <2>2. c \in Backups
    BY <1>0 DEF Backups
  <2>. HIDE DEF c
  <2>3. r.answer = "ok" => r.version \in Versions
    <3>1. r.answer = "ok" => r.version \in usable
      BY <2>1, AnswerFits DEF RequestFits
    <3>. QED
      BY <1>0, <3>1, KeyBackupAssumption DEF ServerFits, Versions
  <2>4. r.answer = "ok" => Rests(EnableKeyBackup(c, r.version), Looked)
    BY <2>2, <2>3, EnableRests
  <2>5. overtaken' = {} => Rests(b, Looked)
    BY <1>0, <2>1, <2>4 DEF RestFits
  <2>. HIDE DEF b
  <2>. QED
    BY <2>1, <2>5, AnswerRests
<1>4. CASE DeleteAnswered(r)
  <2>. DEFINE b == IF backup.state = "Unknown" THEN CheckAndStartKeyBackup(g) ELSE g
  <2>1. Becomes(b) /\ Settled /\ overtaken' = overtaken /\ r.kind = "delete"
    BY <1>4 DEF DeleteAnswered, Comes, g
  <2>2. overtaken = {} => Rests(g, Looked)
    BY <1>0, <2>1 DEF RestFits
  <2>3. overtaken' = {} => Rests(b, Looked)
    BY <1>0, <2>1, <2>2, CheckRests
  <2>. HIDE DEF b
  <2>. QED
    BY <2>1, <2>3, AnswerRests
<1>5. CASE TrustAnswered(r)
  <2>. DEFINE b == IF r.answer = "ok" THEN CheckAndStartWithKeyBackupVersion(g, r.version) ELSE g
  <2>1. Becomes(b) /\ Settled /\ overtaken' = overtaken /\ r.kind = "trust"
    BY <1>5 DEF TrustAnswered, Comes, g
  <2>2. Rests(CheckAndStartWithKeyBackupVersion(g, r.version), Looked)
    BY <1>0, CheckAndStartRests
  <2>3. overtaken' = {} => Rests(b, Looked)
    BY <1>0, <2>1, <2>2 DEF RestFits
  <2>. HIDE DEF b
  <2>. QED
    BY <2>1, <2>3, AnswerRests
<1>6. CASE RestoreAnswered(r)
  <2>1. backup' = g /\ UNCHANGED <<late, overtaken>> /\ r.kind = "restore" /\ importing = NoImport
    BY <1>6 DEF RestoreAnswered, Comes, Becomes, g
  <2>2. \/ UNCHANGED <<known, importing>>
        \/ known' = known \cup r.keys /\ importing'.keys = r.keys \ known
    BY <1>6 DEF RestoreAnswered
  <2>3. Looked' \subseteq Looked
    BY <2>1, <2>2 DEF Looked, NoImport
  <2>4. Rests(g, Looked) => Rests(g, Looked')
    BY <2>3 DEF Rests, Covers
  <2>5. overtaken' = {} => Rests(g, Looked')
    BY <1>0, <2>1, <2>4 DEF RestFits
  <2>. QED
    BY <2>1, <2>5, RestsNext
<1>. QED
  BY <1>1, <1>2, <1>3, <1>4, <1>5, <1>6

\* Keys sent to the version in use are marked, and if there are more a request follows.
LEMMA SendAnsweredRests ==
  ASSUME Inv, RestFits, NEW r \in Pending, SendAnswered(r)
  PROVE  RestFits'
<1>. DEFINE g == Got(r)
<1>1. /\ r.kind = "send" /\ Settled
      /\ Overtaken("send", r.version # backup.backupVersion \/ r.version # backup.keyBackupVersion)
  BY DEF SendAnswered, Comes
<1>2. /\ RequestFits(r) /\ ServerFits /\ r \in DOMAIN backup.requests
      /\ g \in Backups /\ g.state = backup.state /\ g.timers = backup.timers
      /\ g.marked = backup.marked
      /\ g.backupVersion = backup.backupVersion /\ g.backupKey = backup.backupKey
      /\ g.keyBackupVersion = backup.keyBackupVersion
      /\ DOMAIN backup.requests \ {r} \subseteq DOMAIN g.requests
  BY AnswerFits, GotRests DEF Pending, BagToSet
<1>. HIDE DEF g
\* An answer for the version in use finds the backup enabled.
<1>3. ASSUME overtaken' = {}
      PROVE  /\ Rests(backup, Looked) /\ Enabled(backup)
             /\ backup.backupKey # 0 /\ backup.keyBackupVersion # 0
  <2>1. overtaken = {} /\ r.version = backup.backupVersion /\ r.version = backup.keyBackupVersion
    BY <1>1, <1>3 DEF Overtaken
  <2>2. r.version # 0
    BY <1>1, <1>2 DEF RequestFits, ServerFits
  <2>3. Rests(backup, Looked)
    BY <2>1 DEF RestFits
  <2>. QED
    BY <2>1, <2>2, <2>3 DEF Rests, Keyed
<1>4. CASE r.answer = "ok"
  <2>. DEFINE b == [g EXCEPT !.marked = @ \cup r.keys]
  <2>1. r.keys \in SUBSET Keys
    BY <1>2 DEF RequestFits, Request
  <2>2. /\ b \in Backups /\ b.marked = backup.marked \cup r.keys /\ b.timers = backup.timers
        /\ b.backupKey = backup.backupKey /\ b.keyBackupVersion = backup.keyBackupVersion
        /\ DOMAIN backup.requests \ {r} \subseteq DOMAIN b.requests
    BY <1>2, <2>1 DEF Backups
  <2>3. IF Cardinality(r.keys) < MaxCount THEN Becomes(InState(b, "ReadyToBackUp"))
        ELSE \E chunk \in Chunks(b) : Becomes(SendKeyBackup(InState(b, "WillBackUp"), chunk))
    BY <1>4 DEF SendAnswered, g
  <2>. HIDE DEF b
  <2>4. CASE Cardinality(r.keys) < MaxCount
    <3>. DEFINE c == InState(b, "ReadyToBackUp")
    <3>1. /\ c.state = "ReadyToBackUp" /\ c.marked = b.marked /\ c.timers = b.timers
          /\ c.backupKey = b.backupKey /\ c.keyBackupVersion = b.keyBackupVersion
          /\ c.requests = b.requests
      BY <2>2 DEF InState, Backups
    <3>2. Becomes(c)
      BY <2>3, <2>4
    <3>. HIDE DEF c
    <3>3. ASSUME overtaken' = {}
          PROVE  Rests(c, Looked)
      <4>1. Keyed(c) /\ Going(c)
        BY <1>3, <2>2, <3>1, <3>3 DEF Keyed, Going, Enabled
      <4>2. ASSUME NEW k \in Looked \ c.marked
            PROVE  Sending(c, k) \/ c.timers > 0
        <5>1. k \in Looked \ backup.marked /\ k \notin r.keys
          BY <2>2, <3>1, <4>2
        <5>2. Cardinality(r.keys) # MaxCount
          BY <2>4, KeyBackupAssumption
        <5>3. Sending(backup, k) \/ backup.timers > 0
          BY <1>3, <3>3, <5>1 DEF Rests, Covers, Going, Enabled
        <5>4. ~Sends(r, k)
          BY <5>1, <5>2 DEF Sends
        <5>. QED
          BY <2>2, <3>1, <5>3, <5>4 DEF Sending
      <4>3. Covers(c, Looked)
        BY <3>1, <4>2 DEF Covers
      <4>. QED
        BY <4>1, <4>3 DEF Rests
    <3>. QED
      BY <1>1, <3>2, <3>3, AnswerRests
  <2>5. CASE ~(Cardinality(r.keys) < MaxCount)
    <3>. DEFINE c == InState(b, "WillBackUp")
    <3>1. PICK chunk \in Chunks(b) : Becomes(SendKeyBackup(c, chunk))
      BY <2>3, <2>5
    <3>2. /\ c \in Backups /\ c.state = "WillBackUp" /\ c.marked = b.marked
          /\ c.backupKey = b.backupKey /\ c.keyBackupVersion = b.keyBackupVersion
      BY <2>2 DEF InState, Backups, States
    <3>. HIDE DEF c
    <3>3. /\ chunk \subseteq ToBackUp(b)
          /\ chunk = {} => ToBackUp(b) = {}
          /\ chunk = ToBackUp(b) \/ Cardinality(chunk) = MaxCount
      BY <1>2, <3>1, ChunkFacts
    <3>4. Looked \ c.marked \subseteq ToBackUp(b) /\ chunk \in SUBSET Keys
      BY <1>2, <3>2, <3>3 DEF Looked, ToBackUp, ServerFits
    <3>5. ASSUME overtaken' = {}
          PROVE  Rests(SendKeyBackup(c, chunk), Looked)
      <4>1. Keyed(c) /\ Enabled(c) /\ c.state # "BackingUp"
        BY <1>3, <2>2, <3>2, <3>5 DEF Keyed, Enabled
      <4>2. chunk = {} => Looked \subseteq c.marked
        BY <3>3, <3>4
      <4>3. (Looked \ c.marked) \subseteq chunk \/ Cardinality(chunk) = MaxCount
        BY <3>3, <3>4
      <4>. QED
        BY <3>2, <3>4, <4>1, <4>2, <4>3, SendKeyBackupRests
    <3>. QED
      BY <1>1, <3>1, <3>5, AnswerRests
  <2>. QED
    BY <2>4, <2>5
<1>5. CASE r.answer = "wrong"
  <2>. DEFINE c == ResetKeyBackupData(g)
              b == InState(c, "WrongBackUpVersion")
  <2>1. Becomes(b)
    BY <1>5 DEF SendAnswered, g
  <2>2. c \in Backups /\ c.backupVersion = 0
    BY <1>2, ResetFields
  <2>. HIDE DEF c
  <2>3. b.state = "WrongBackUpVersion" /\ b.backupVersion = 0
    BY <2>2 DEF InState, Backups
  <2>. HIDE DEF b
  <2>4. Rests(b, Looked)
    BY <2>3 DEF Rests, Keyed, Going, Covers, Enabled
  <2>. QED
    BY <1>1, <2>1, <2>4, AnswerRests
<1>6. CASE r.answer \notin {"ok", "wrong"}
  <2>. DEFINE b == InState(g, "ReadyToBackUp")
  <2>1. Becomes(MaybeSendKeyBackup(b))
    BY <1>6 DEF SendAnswered, g
  <2>2. /\ b \in Backups /\ b.state = "ReadyToBackUp"
        /\ b.backupKey = backup.backupKey /\ b.keyBackupVersion = backup.keyBackupVersion
    BY <1>2 DEF InState, Backups, States
  <2>. HIDE DEF b
  <2>3. overtaken' = {} => Keyed(b)
    BY <1>3, <2>2 DEF Keyed, Enabled
  <2>4. overtaken' = {} => Rests(MaybeSendKeyBackup(b), Looked)
    BY <2>2, <2>3, ReadyMaybeRests
  <2>. QED
    BY <1>1, <2>1, <2>4, AnswerRests
<1>. QED
  BY <1>4, <1>5, <1>6

LEMMA RestartRests ==
  ASSUME Inv, RestFits, Restart
  PROVE  RestFits'
<1>1. /\ backup'.state = "Unknown" /\ backup'.keyBackupVersion = 0 /\ backup'.timers = 0
  BY DEF Restart, Inv, Fits, Backups
<1>2. Rests(backup', Looked')
  BY <1>1 DEF Rests, Keyed, Going, Covers, Enabled
<1>. QED
  BY <1>2, RestsNext

LEMMA RestKept ==
  ASSUME Orderly, FirstKeys # {}, Inv, RestFits, [Next]_vars
  PROVE  RestFits'
<1>1. ASSUME NEW k \in Keys, NewKey(k)
      PROVE  RestFits'
  BY <1>1, NewKeyRests
<1>2. CASE Application
  BY <1>2, ApplicationRests
<1>3. CASE TimerFires \/ Imported
  BY <1>3, TimerRests, ImportedRests
<1>4. ASSUME NEW r \in Pending, Process(r) \/ Lost(r)
      PROVE  RestFits'
  BY <1>4, ProcessRests
<1>5. ASSUME NEW r \in Pending,
             \/ CheckAnswered(r) \/ RefreshAnswered(r) \/ CreateAnswered(r) \/ DeleteAnswered(r)
             \/ TrustAnswered(r) \/ RestoreAnswered(r) \/ SendAnswered(r)
      PROVE  RestFits'
  BY <1>5, OtherAnswersRest, SendAnsweredRests
<1>6. CASE Restart
  BY <1>6, RestartRests
<1>7. CASE OtherDeviceCreates \/ OtherDeviceDeletes \/ OtherDeviceBacksUp \/ UNCHANGED vars
  <2>1. UNCHANGED <<known, backup, importing, late, overtaken>>
    BY <1>7 DEF OtherDeviceCreates, OtherDeviceDeletes, OtherDeviceBacksUp, vars
  <2>. QED
    BY <2>1, RestsNext DEF RestFits, Looked
<1>. QED
  BY <1>1, <1>2, <1>3, <1>4, <1>5, <1>6, <1>7, Zenon DEF Next, System

\* As long as no answer has been handled after what it is about has changed (`overtaken`):
\* when no timer, request or restore is under way, the backup waits for nothing, and one
\* that is ready has a version and has marked every key but those that came while others
\* were being sent; for an application that creates versions as MXRecoveryService does, and
\* a store that has a key.  After an overtaken answer nothing is said: the run
\* key_backup_stuck shows a backup at rest in WILL BACK UP.  A store without a key is called
\* ready by a timer that finds the version gone (sendKeyBackup).
THEOREM RestingIsUpToDate ==
  ASSUME Orderly, FirstKeys # {}
  PROVE  Spec => []ReadyIsUpToDate
<1>1. Init => RestFits
  BY DEF Init, RestFits, Rests, Keyed, Going, Covers, Enabled
<1>2. Inv /\ RestFits /\ [Next]_vars => RestFits'
  BY RestKept
<1>3. Inv /\ RestFits => ReadyIsUpToDate
  <2>. SUFFICES ASSUME Inv, RestFits, overtaken = {}, AtRest
                PROVE  /\ backup.state \notin {"CheckingBackUpOnHomeserver", "WillBackUp", "BackingUp"}
                       /\ backup.state = "ReadyToBackUp" =>
                            backup.backupVersion # 0 /\ ToBackUp(backup) \subseteq late
    BY DEF ReadyIsUpToDate
  <2>1. Rests(backup, Looked)
    BY DEF RestFits
  <2>2. DOMAIN backup.requests = {} /\ backup.timers = 0 /\ importing.keys = {}
    BY DEF AtRest, Pending, BagToSet, NoImport
  <2>3. backup.state \notin {"CheckingBackUpOnHomeserver", "WillBackUp", "BackingUp"}
    BY <2>1, <2>2 DEF Rests, Going
  <2>4. ASSUME backup.state = "ReadyToBackUp"
        PROVE  backup.backupVersion # 0 /\ ToBackUp(backup) \subseteq late
    <3>1. backup.backupKey # 0
      BY <2>1, <2>4 DEF Rests, Keyed, Enabled
    <3>2. backup.backupKey \in {0, backup.backupVersion}
      BY DEF Inv, Fits, KeyFits
    <3>3. Looked \ backup.marked = {}
      BY <2>1, <2>2, <2>4 DEF Rests, Covers, Sending
    <3>. QED
      BY <2>2, <3>1, <3>2, <3>3 DEF Looked, ToBackUp
  <2>. QED
    BY <2>3, <2>4
<1>. QED
  BY <1>1, <1>2, <1>3, InvHolds, PTL DEF Spec
=============================================================================
