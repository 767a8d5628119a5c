------------------------------ MODULE KeyBackup ------------------------------
(***************************************************************************)
(* MXKeyBackup: the room keys (inbound megolm sessions) that a device      *)
(* stores are copied to the homeserver, in the current backup version,     *)
(* encrypted for that version.  Another device, or the application, may    *)
(* replace or delete the version at any time, and answers may come in any  *)
(* order.                                                                  *)
(*                                                                         *)
(* The methods call each other, and run one at a time on cryptoQueue: each *)
(* is an operator on the record `backup`, and the actions are what the     *)
(* queue is given: calls of the application, timers and answers.           *)
(***************************************************************************)
EXTENDS Naturals, FiniteSets, Bags, BagsExt, FiniteSetsExt

CONSTANTS
  Keys,
  FirstKeys,    \* those of the store at the start
  Refused,      \* those encryptGroupSession returns nothing for: they cannot be exported
  MaxCount,     \* kMXKeyBackupSendKeysMaxCount
  MaxVersion,   \* BOUND: versions 1..MaxVersion are created in that order; 0 is none
  MaxTimers,    \* BOUND: timers running at a time
  MaxRequests,  \* BOUND: requests under way at a time
  MaxCalls,     \* BOUND: calls of the application, and restarts
  MayFail,      \* the kinds of requests that may fail for no reason
  Orderly       \* does the application create versions as MXRecoveryService does?

Versions == 1..MaxVersion
Kinds == {"check", "refresh", "create", "delete", "trust", "restore", "send"}

ASSUME KeyBackupAssumption ==
  /\ IsFiniteSet(Keys) /\ FirstKeys \subseteq Keys /\ Refused \subseteq Keys /\ MayFail \subseteq Kinds
  /\ MaxCount \in Nat \ {0} /\ MaxVersion \in Nat /\ MaxTimers \in Nat /\ MaxRequests \in Nat /\ MaxCalls \in Nat
  /\ Orderly \in BOOLEAN

VARIABLES
  created,    \* the versions created so far are 1..created
  live,       \* those that have not been deleted
  usable,     \* those signed by a device that is verified here, or by its user
  stored,     \* the keys of each version, on the homeserver
  known,      \* the keys of the crypto store
  backup,     \* MXKeyBackup, and what the crypto store keeps for it
  importing,  \* keys of a restore, put in the store but not yet marked
  late,       \* history: keys that came while others were being sent
  overtaken,  \* history: answers handled that come too late, of "check", "send" or "restore"
  calls

homeserver == <<created, live, stored>>
vars == <<created, live, usable, stored, known, backup, importing, late, overtaken, calls>>

States == {"Unknown", "CheckingBackUpOnHomeserver", "WrongBackUpVersion", "Disabled", "NotTrusted",
           "Enabling", "ReadyToBackUp", "WillBackUp", "BackingUp"}
Request == [kind : Kinds, version : 0..MaxVersion,
            for : 0..MaxVersion,    \* the version whose public key encrypts the keys
            keys : SUBSET Keys,     \* chosen to be sent, or found
            answer : {"none", "ok", "wrong", "error"}]
Asked(kind, v) == [kind |-> kind, version |-> v, for |-> 0, keys |-> {}, answer |-> "none"]

\* What a request has of the keys that are chosen: sendKeyBackup leaves those out that
\* encryptGroupSession refuses, and its success block marks all that were chosen.
Body(r) == r.keys \ Refused

Pending == BagToSet(backup.requests)

TypeOK ==
  /\ created \in 0..MaxVersion /\ live \subseteq 1..created /\ usable \subseteq 1..created
  /\ stored \in [Versions -> SUBSET Keys]
  /\ FirstKeys \subseteq known /\ known \subseteq Keys
  /\ backup.state \in States
  /\ backup.keyBackupVersion \in 0..created
  /\ backup.backupKey \in {0, backup.backupVersion}   \* set and reset together
  /\ backup.backupVersion \in 0..created
  /\ backup.marked \subseteq known
  /\ backup.timers \in 0..MaxTimers
  /\ Pending \subseteq Request /\ IsABag(backup.requests)
  /\ importing.keys \subseteq known /\ importing.version \in 0..created /\ importing.backUp \in BOOLEAN
  /\ late \subseteq known /\ overtaken \subseteq {"check", "send", "restore"}
  /\ calls \in 0..MaxCalls

NoImport == [keys |-> {}, version |-> 0, backUp |-> FALSE]

Init ==
  /\ created = 0 /\ live = {} /\ usable = {} /\ stored = [v \in Versions |-> {}]
  /\ known = FirstKeys /\ importing = NoImport
  /\ backup = [state |-> "Unknown",
               keyBackupVersion |-> 0,
               backupKey |-> 0,       \* _backupKey: the version it is the key of
               backupVersion |-> 0,   \* in the crypto store
               marked |-> {},         \* backedUp in the crypto store
               timers |-> 0,          \* calls of sendKeyBackup that are waiting
               requests |-> EmptyBag]
  /\ late = {} /\ overtaken = {} /\ calls = 0

\* A kind of answers that are handled after what they are about has changed.
Overtaken(kind, changed) == overtaken' = IF changed THEN overtaken \cup {kind} ELSE overtaken

Current == IF live = {} THEN 0 ELSE Max(live)

\* A method ends: the bounds on what it has started.
Becomes(b) ==
  /\ backup' = b
  /\ b.timers <= MaxTimers /\ BagCardinality(b.requests) <= MaxRequests

(***************************************************************************)
(* The methods.                                                            *)
(***************************************************************************)
InState(b, s) == [b EXCEPT !.state = s]
Send(b, r) == [b EXCEPT !.requests = BagAdd(@, r)]
Enabled(b) == b.state \in {"ReadyToBackUp", "WillBackUp", "BackingUp"}
ToBackUp(b) == known \ b.marked

\* Mutation of ResetKeyBackupData: the key of the version stays.
ResetKeepingKey(b) == [b EXCEPT !.backupVersion = 0, !.marked = {}]

ResetKeyBackupData(b) == [b EXCEPT !.backupVersion = 0, !.backupKey = 0, !.marked = {}]

CheckAndStartKeyBackup(b) ==
  IF b.state \in {"Unknown", "Disabled", "WrongBackUpVersion", "NotTrusted"}
  THEN Send([b EXCEPT !.keyBackupVersion = 0, !.state = "CheckingBackUpOnHomeserver"],
            Asked("check", 0))
  ELSE b

MaybeSendKeyBackup(b) ==
  IF b.state = "ReadyToBackUp" THEN [InState(b, "WillBackUp") EXCEPT !.timers = @ + 1]
  ELSE CheckAndStartKeyBackup(b)

\* Mutation of EnableKeyBackup: it waits for the next key.
EnableQuietly(b, v) ==
  [b EXCEPT !.keyBackupVersion = v, !.backupVersion = v, !.backupKey = v, !.state = "ReadyToBackUp"]

EnableKeyBackup(b, v) ==
  MaybeSendKeyBackup([b EXCEPT !.keyBackupVersion = v, !.backupVersion = v, !.backupKey = v,
                               !.state = "ReadyToBackUp"])

\* Mutation of CheckAndStartWithKeyBackupVersion: the version of the previous run of
\* the application is not looked at.
CheckAndStartWithAnyVersion(b, v) ==
  LET c == [b EXCEPT !.keyBackupVersion = v]
  IN  IF v = 0 THEN InState(ResetKeyBackupData(c), "Disabled")
      ELSE IF v \in usable THEN EnableKeyBackup(c, v)
      ELSE InState(IF c.backupVersion # 0 THEN ResetKeyBackupData(c) ELSE c, "NotTrusted")

CheckAndStartWithKeyBackupVersion(b, v) ==
  LET c == [b EXCEPT !.keyBackupVersion = v]
  IN  IF v = 0 THEN InState(ResetKeyBackupData(c), "Disabled")
      ELSE IF v \in usable
      THEN EnableKeyBackup(IF c.backupVersion \notin {0, v} THEN ResetKeyBackupData(c) ELSE c, v)
      ELSE InState(IF c.backupVersion # 0 THEN ResetKeyBackupData(c) ELSE c, "NotTrusted")

\* inboundGroupSessionsToBackup: some of the keys, as many as one request may have.
Chunks(b) == LET n == Cardinality(ToBackUp(b)) IN kSubset(IF n < MaxCount THEN n ELSE MaxCount, ToBackUp(b))

\* Mutation of SendKeyBackup: without the sanity check.
SendUnchecked(b, chunk) ==
  IF chunk = {} THEN InState(b, "ReadyToBackUp")
  ELSE IF b.state = "BackingUp" THEN b
  ELSE Send(InState(b, "BackingUp"),
            [Asked("send", b.keyBackupVersion) EXCEPT !.for = b.backupKey, !.keys = chunk])

SendKeyBackup(b, chunk) ==
  IF chunk = {} THEN InState(b, "ReadyToBackUp")
  ELSE IF b.state = "BackingUp" \/ ~Enabled(b) \/ b.backupKey = 0 \/ b.keyBackupVersion = 0 THEN b
  ELSE Send(InState(b, "BackingUp"),
            [Asked("send", b.keyBackupVersion) EXCEPT !.for = b.backupKey, !.keys = chunk])

(***************************************************************************)
(* Keys.                                                                   *)
(***************************************************************************)
\* Is maybeSendKeyBackup called in vain?
Skipped(keys) == late' = IF backup.state = "BackingUp" THEN late \cup keys ELSE late

\* A key comes from another device, or is the first of a new outbound session.
NewKey(k) ==
  /\ k \notin known
  /\ known' = known \cup {k}
  /\ Becomes(MaybeSendKeyBackup(backup))
  /\ Skipped({k})
  /\ UNCHANGED <<homeserver, usable, importing, overtaken, calls>>

\* importMegolmSessionDatas, after the store has the keys.
Imported ==
  /\ importing # NoImport
  /\ importing' = NoImport
  /\ IF importing.backUp
     THEN Becomes(MaybeSendKeyBackup(backup)) /\ Skipped(importing.keys) /\ UNCHANGED overtaken
     ELSE /\ Becomes([backup EXCEPT !.marked = @ \cup importing.keys])
          /\ Overtaken("restore", importing.version # backup.backupVersion)
          /\ UNCHANGED late
  /\ UNCHANGED <<homeserver, usable, known, calls>>

\* The random delay is over.
TimerFires ==
  /\ backup.timers > 0
  /\ \E chunk \in Chunks(backup) : Becomes(SendKeyBackup([backup EXCEPT !.timers = @ - 1], chunk))
  /\ UNCHANGED <<homeserver, usable, known, importing, late, overtaken, calls>>

(***************************************************************************)
(* Calls of the application.                                               *)
(***************************************************************************)
Call(b) ==
  /\ calls < MaxCalls /\ calls' = calls + 1
  /\ Becomes(b) /\ UNCHANGED <<homeserver, known, importing, late, overtaken>>

BackupAllGroupSessions ==
  /\ ToBackUp(backup) # {}
  /\ \E chunk \in Chunks(backup) : Call(SendKeyBackup(backup, chunk))
  /\ UNCHANGED usable

\* The application waits for the end of a call before it makes the same call again.
Ask(b, kind, v) ==
  /\ \A r \in Pending : r.kind # kind
  /\ Call(Send(b, Asked(kind, v)))

\* At the start of MXCrypto.
Start ==
  /\ backup.state = "Unknown"
  /\ Becomes(CheckAndStartKeyBackup(backup))
  /\ UNCHANGED <<homeserver, usable, known, importing, late, overtaken, calls>>

\* The device that signed a version gets verified.
VerifyDevice(v) ==
  /\ v \in live \ usable
  /\ usable' = usable \cup {v}
  /\ Call(CheckAndStartKeyBackup(backup))

TrustKeyBackupVersion ==
  /\ backup.keyBackupVersion # 0
  /\ Ask(backup, "trust", backup.keyBackupVersion) /\ UNCHANGED usable

\* createKeyBackupWithSuccess of MXRecoveryService makes a version after a
\* forceRefresh that found none.
CreateKeyBackupVersion ==
  /\ Orderly => backup.keyBackupVersion = 0 /\ backup.state \notin {"Unknown", "CheckingBackUpOnHomeserver"}
  /\ Ask(InState(backup, "Enabling"), "create", 0) /\ UNCHANGED usable

\* A version that is not in use is only deleted on the homeserver.
DeleteKeyBackupVersion(v) ==
  /\ v \in 1..created
  /\ Ask(IF v = backup.keyBackupVersion
         THEN [ResetKeyBackupData(backup) EXCEPT !.keyBackupVersion = 0, !.state = "Unknown"]
         ELSE backup, "delete", v)
  /\ UNCHANGED usable

ForceRefresh ==
  /\ backup.state \notin {"Unknown", "CheckingBackUpOnHomeserver"}
  /\ Ask(backup, "refresh", 0) /\ UNCHANGED usable

RestoreKeyBackup(v) ==
  /\ v \in live /\ importing = NoImport
  /\ Ask(backup, "restore", v) /\ UNCHANGED usable

(***************************************************************************)
(* The homeserver and the user's other devices.                            *)
(***************************************************************************)
Answered(r, a) ==
  backup' = [backup EXCEPT !.requests = BagAdd(BagRemove(@, r), a)]

\* Another device makes a new version, that can be used here or not.
OtherDeviceCreates ==
  /\ created < MaxVersion
  /\ created' = created + 1 /\ live' = live \cup {created'}
  /\ usable' \in {usable, usable \cup {created'}}
  /\ UNCHANGED <<stored, known, backup, importing, late, overtaken, calls>>

OtherDeviceDeletes ==
  /\ \E v \in live : live' = live \ {v}
  /\ UNCHANGED <<created, usable, stored, known, backup, importing, late, overtaken, calls>>

OtherDeviceBacksUp ==
  /\ Current # 0
  /\ \E k \in Keys \ known : stored' = [stored EXCEPT ![Current] = @ \cup {k}]
  /\ UNCHANGED <<created, live, usable, known, backup, importing, late, overtaken, calls>>

Process(r) ==
  /\ r \in Pending /\ r.answer = "none"
  /\ CASE r.kind \in {"check", "refresh"} ->
            Answered(r, [r EXCEPT !.answer = "ok", !.version = Current]) /\ UNCHANGED <<homeserver, usable>>
       [] r.kind = "create" ->
            /\ created < MaxVersion
            /\ created' = created + 1 /\ live' = live \cup {created'} /\ usable' = usable \cup {created'}
            /\ Answered(r, [r EXCEPT !.answer = "ok", !.version = created'])
            /\ UNCHANGED stored
       [] r.kind = "delete" ->
            live' = live \ {r.version} /\ Answered(r, [r EXCEPT !.answer = "ok"])
            /\ UNCHANGED <<created, usable, stored>>
       [] r.kind = "trust" ->
            /\ IF r.version \in live THEN usable' = usable \cup {r.version} ELSE UNCHANGED usable
            /\ Answered(r, [r EXCEPT !.answer = IF r.version \in live THEN "ok" ELSE "error"])
            /\ UNCHANGED homeserver
       [] r.kind = "restore" ->
            /\ Answered(r, [r EXCEPT !.answer = IF r.version \in live THEN "ok" ELSE "error",
                                     !.keys = stored[r.version]])
            /\ UNCHANGED <<homeserver, usable>>
       [] r.kind = "send" ->
            \* M_WRONG_ROOM_KEYS_VERSION if there is another version, M_NOT_FOUND if there is none
            /\ stored' = IF r.version = Current THEN [stored EXCEPT ![r.version] = @ \cup Body(r)] ELSE stored
            /\ Answered(r, [r EXCEPT !.answer = IF r.version = Current THEN "ok"
                                                ELSE IF Current = 0 THEN "error" ELSE "wrong"])
            /\ UNCHANGED <<created, live, usable>>
  /\ UNCHANGED <<known, importing, late, overtaken, calls>>

\* The request, or its answer, does not arrive.
Lost(r) ==
  /\ r \in Pending /\ r.kind \in MayFail /\ r.answer \in {"none", "ok"}
  /\ Answered(r, [r EXCEPT !.answer = "error"])
  /\ UNCHANGED <<homeserver, usable, known, importing, late, overtaken, calls>>

(***************************************************************************)
(* The answers.                                                            *)
(***************************************************************************)
Comes(kind, r) == r \in Pending /\ r.kind = kind /\ r.answer # "none"
Got(r) == [backup EXCEPT !.requests = BagRemove(@, r)]
Settled == UNCHANGED <<homeserver, usable, known, importing, late, calls>>

CheckAnswered(r) ==
  /\ Comes("check", r)
  /\ Becomes(IF r.answer = "ok" THEN CheckAndStartWithKeyBackupVersion(Got(r), r.version)
             ELSE InState(Got(r), "Unknown"))
  /\ Overtaken("check", backup.state # "CheckingBackUpOnHomeserver")
  /\ Settled

RefreshAnswered(r) ==
  /\ Comes("refresh", r)
  /\ Becomes(IF r.answer # "ok" \/ r.version = backup.keyBackupVersion THEN Got(r)
             ELSE CheckAndStartWithKeyBackupVersion(
                    [ResetKeyBackupData(Got(r)) EXCEPT !.keyBackupVersion = 0, !.state = "Unknown"],
                    r.version))
  /\ UNCHANGED overtaken /\ Settled

\* A failure changes nothing.
CreateAnswered(r) ==
  /\ Comes("create", r)
  /\ Becomes(IF r.answer = "ok" THEN EnableKeyBackup([Got(r) EXCEPT !.marked = {}], r.version)
             ELSE Got(r))
  /\ UNCHANGED overtaken /\ Settled

DeleteAnswered(r) ==
  /\ Comes("delete", r)
  /\ Becomes(IF backup.state = "Unknown" THEN CheckAndStartKeyBackup(Got(r)) ELSE Got(r))
  /\ UNCHANGED overtaken /\ Settled

TrustAnswered(r) ==
  /\ Comes("trust", r)
  /\ Becomes(IF r.answer = "ok" THEN CheckAndStartWithKeyBackupVersion(Got(r), r.version) ELSE Got(r))
  /\ UNCHANGED overtaken /\ Settled

\* The keys that are new here go to the store, on cargoQueue.
RestoreAnswered(r) ==
  /\ Comes("restore", r) /\ importing = NoImport
  /\ Becomes(Got(r))
  /\ IF r.answer # "ok" \/ r.keys \subseteq known THEN UNCHANGED <<known, importing>>
     ELSE /\ known' = known \cup r.keys
          /\ importing' = [keys |-> r.keys \ known, version |-> r.version,
                           backUp |-> r.version # backup.keyBackupVersion]
  /\ UNCHANGED <<homeserver, usable, late, overtaken, calls>>

\* The success and failure blocks of sendKeyBackup.
SendAnswered(r) ==
  /\ Comes("send", r)
  /\ IF r.answer = "ok"
     THEN LET b == [Got(r) EXCEPT !.marked = @ \cup r.keys]
          IN  IF Cardinality(r.keys) < MaxCount THEN Becomes(InState(b, "ReadyToBackUp"))
              ELSE \E chunk \in Chunks(b) : Becomes(SendKeyBackup(InState(b, "WillBackUp"), chunk))
     ELSE Becomes(IF r.answer = "wrong"
                  THEN InState(ResetKeyBackupData(Got(r)), "WrongBackUpVersion")
                  ELSE MaybeSendKeyBackup(InState(Got(r), "ReadyToBackUp")))
  /\ Overtaken("send", r.version # backup.backupVersion \/ r.version # backup.keyBackupVersion)
  /\ Settled

\* The process ends; the crypto store stays.
Restart ==
  /\ calls < MaxCalls /\ calls' = calls + 1
  /\ backup' = [backup EXCEPT !.state = "Unknown", !.keyBackupVersion = 0, !.backupKey = 0,
                              !.timers = 0, !.requests = EmptyBag]
  /\ backup' # backup
  /\ importing' = NoImport
  /\ UNCHANGED <<homeserver, usable, known, late, overtaken>>

Application ==
  \/ Start \/ TrustKeyBackupVersion \/ CreateKeyBackupVersion \/ ForceRefresh
  \/ \E v \in Versions : VerifyDevice(v) \/ RestoreKeyBackup(v) \/ DeleteKeyBackupVersion(v)
  \/ BackupAllGroupSessions
System ==
  \/ TimerFires \/ Imported
  \/ \E r \in Pending :
       \/ Process(r) \/ Lost(r)
       \/ CheckAnswered(r) \/ RefreshAnswered(r) \/ CreateAnswered(r) \/ DeleteAnswered(r)
       \/ TrustAnswered(r) \/ RestoreAnswered(r) \/ SendAnswered(r)

Next ==
  \/ \E k \in Keys : NewKey(k)
  \/ Application \/ System
  \/ OtherDeviceCreates \/ OtherDeviceDeletes \/ OtherDeviceBacksUp \/ Restart

Spec == Init /\ [][Next]_vars

(***************************************************************************)
(* Properties.                                                             *)
(***************************************************************************)
\* Safety: a key marked as backed up is in the version in use, through versions that
\* are replaced or deleted, errors, retries and restarts.  It says nothing of the keys
\* that encryptGroupSession refuses, which are marked with the others and are in no
\* version; and it is void once keys have been marked that the version may not have: by
\* an answer that comes after the version has changed, or a restore from a version that is
\* not (yet) in use.
NoKeyForgotten ==
  overtaken \cap {"send", "restore"} # {} \/
    (backup.backupVersion # 0 => backup.marked \ Refused \subseteq stored[backup.backupVersion])

\* Safety, for what must eventually happen, as long as no answer has been handled too late
\* (the history `overtaken`; after one, the backup may rest in WILL BACK UP, see
\* WillBackUpWaits): when nothing is under way the backup is not waiting for anything, and
\* if it is ready then it has a version, and all the keys are marked but those that came
\* while others were being sent.
AtRest == backup.timers = 0 /\ Pending = {} /\ importing = NoImport
ReadyIsUpToDate ==
  overtaken # {} \/ ~AtRest \/
    /\ backup.state \notin {"CheckingBackUpOnHomeserver", "WillBackUp", "BackingUp"}
    /\ backup.state = "ReadyToBackUp" => backup.backupVersion # 0 /\ ToBackUp(backup) \subseteq late

\* Safety: keys are sent to no version but the one they are encrypted for, and that one
\* is trusted, in whatever order checks, refreshes, deletions and timers come.
SentToItsVersion ==
  \A r \in Pending : r.kind = "send" => r.for = r.version /\ r.version \in usable

\* What MXKeyBackup.h says of WILL BACK UP, "waiting a random duration"; and
\* deleteKeyBackupVersion: "If we're currently backing up to this backup... stop".
WillBackUpWaits == backup.state = "WillBackUp" => backup.timers > 0
=============================================================================
