--------------------------- MODULE BackgroundSync ---------------------------
(***************************************************************************)
(* Two processes on one account and one device: the application, with its  *)
(* MXSession, and the application extension that a push wakes up, with its *)
(* MXBackgroundSyncService.  The extension caches the sync responses it    *)
(* gets in the files of MXSyncResponseFileStore, which the session handles *)
(* and deletes when it starts or resumes.  Nothing locks these files.  The *)
(* responses are written atomically; the metadata, which lists them, are   *)
(* not: the file is truncated first, and read as empty lists until it is   *)
(* written.                                                                *)
(*                                                                         *)
(* The homeserver keeps a to-device message, here the key of a room, until *)
(* the device syncs with a token that covers it.  One room; the session's  *)
(* /sync, answered and handled, is one step (SessionSync has its details,  *)
(* FileStore those of the commit).                                         *)
(***************************************************************************)
EXTENDS Naturals, Sequences, FiniteSets, FiniteSetsExt, SequencesExt

CONSTANTS
  Feed,      \* at each position of the stream there is a message and maybe a key
  Limit,     \* most messages of a room in the timeline of a response
  Chunks,    \* BOUND: ids of cached sync responses
  None,
  MaxKills   \* BOUND: how many times a process is killed

MaxPos == Len(Feed)
Pos == 0..MaxPos   \* a token is the position it covers; 0 is no token
MsgPos == 1..MaxPos
KeyPos == {p \in 1..MaxPos : Feed[p].key}

ASSUME BackgroundAssumption ==
  /\ Feed \in Seq([key : BOOLEAN, needs : Nat])   \* needs: where the message's key is, if it is encrypted
  /\ \A p \in MsgPos : Feed[p].needs \in KeyPos \cup {0}
  /\ Feed # <<>> /\ Limit \in Nat \ {0} /\ MaxKills \in Nat /\ IsFiniteSet(Chunks) /\ None \notin Chunks

\* A sync response, cached with the token that generated it.
Response == [from : Pos, to : Pos, keys : SUBSET KeyPos, msgs : SUBSET MsgPos, limited : BOOLEAN]
NoResponse == [from |-> 0, to |-> 0, keys |-> {}, msgs |-> {}, limited |-> FALSE]

MetaData == [ids : Seq(Chunks), outdated : Seq(Chunks)]
NoMetaData == [ids |-> <<>>, outdated |-> <<>>]

VARIABLES
  pos,        \* the last position of the stream
  pushed,     \* BOUND: the last message the service was asked for: a push each, in order
  acked,      \* to-device messages up to here are deleted from the homeserver
  files,      \* the files of SyncResponses/
  meta,       \* the file metadata
  app,        \* the session in memory, and how far it is in handling the cache
  disk,       \* what the store of the session has committed
  appKeys,    \* the crypto store of the application
  bg,         \* the service in memory
  bgKeys,     \* bgCryptoStore
  copy,       \* the read-only copy of the crypto store of the application
  raced,      \* history: was the service writing while the session was handling its cache?
  torn,       \* history: was the service killed between truncating and writing metadata?
  undone,     \* history: did one of them undo what the other had done to the cache meanwhile?
  kills

server == <<pos, pushed, acked>>
cache == <<files, meta>>
service == <<bg, bgKeys, copy>>
vars == <<pos, pushed, acked, files, meta, app, disk, appKeys, bg, bgKeys, copy, raced, torn, undone, kills>>

Timeline == [token : Pos, msgs : SUBSET MsgPos]

\* "outdated" to "unlist": the tasks of handleBackgroundSyncCacheIfRequired.
App == [stage : {"down", "running", "paused", "outdated", "valid", "handled", "delete",
                 "removed", "unlist"},
        token : Pos, msgs : SUBSET MsgPos,
        outdated : Seq(Chunks), ids : Seq(Chunks),   \* read from the metadata
        meta : MetaData,                             \* as read, to be changed and written back
        truncated : BOOLEAN]                         \* is it writing the metadata file?
Down == [stage |-> "down", token |-> 0, msgs |-> {}, outdated |-> <<>>, ids |-> <<>>,
         meta |-> NoMetaData, truncated |-> FALSE]

Service == [stage : {"off", "idle", "mark", "look", "sync", "write", "register", "feed", "fetch"},
            event : MsgPos \cup {0}, allowSync : BOOLEAN,
            token : Pos,                \* of the session's store, as it was loaded
            from : Pos,                 \* the /sync under way
            response : Response,        \* what it brought
            chunk : Chunks \cup {None}, \* where that goes,
            fresh : BOOLEAN,            \* is that a new file?
            content : Response,         \* merged with what was there
            meta : MetaData,            \* as read, to be changed and written back
            truncated : BOOLEAN]        \* is it writing the metadata file?
Off == [stage |-> "off", event |-> 0, allowSync |-> FALSE, token |-> 0, from |-> 0,
        response |-> NoResponse, chunk |-> None, fresh |-> FALSE, content |-> NoResponse, meta |-> NoMetaData,
        truncated |-> FALSE]

TypeOK ==
  /\ pos \in Pos /\ pushed \in 0..pos /\ acked \in 0..pos
  /\ files \in [Chunks -> Response] /\ meta \in MetaData
  /\ IsInjective(meta.ids \o meta.outdated)   \* a response is listed once
  /\ app \in App /\ disk \in Timeline /\ appKeys \subseteq KeyPos
  /\ bg \in Service /\ bgKeys \subseteq KeyPos /\ copy \subseteq KeyPos
  /\ raced \in BOOLEAN /\ torn \in BOOLEAN /\ undone \in BOOLEAN /\ kills \in 0..MaxKills

\* The session has made its initial sync, of the first position.
Init ==
  /\ pos = 1 /\ pushed = 1 /\ acked = 0
  /\ files = [c \in Chunks |-> NoResponse] /\ meta = NoMetaData
  /\ app = Down /\ disk = [token |-> 1, msgs |-> {1} \cap MsgPos] /\ appKeys = {1} \cap KeyPos
  /\ bg = Off /\ bgKeys = {} /\ copy = {}
  /\ raced = FALSE /\ torn = FALSE /\ undone = FALSE /\ kills = 0

(***************************************************************************)
(* The homeserver.                                                         *)
(***************************************************************************)
ServerEvent ==
  /\ pos < MaxPos
  /\ pos' = pos + 1
  /\ UNCHANGED <<pushed, acked, cache, app, disk, appKeys, service, raced, torn, undone, kills>>

\* The response to a /sync from a token, which acknowledges what came before.
Acknowledged(from) == IF from > acked THEN from ELSE acked
Answer(from) ==
  LET all == {p \in MsgPos : from < p /\ p <= pos}
  IN  [from |-> from, to |-> pos,
       keys |-> {k \in KeyPos : Acknowledged(from) < k /\ k <= pos},
       msgs |-> {p \in all : Cardinality({q \in all : q > p}) < Limit},
       limited |-> Cardinality(all) > Limit]

(***************************************************************************)
(* MXSyncResponseStoreManager.                                             *)
(***************************************************************************)
Exists(c) == files[c] # NoResponse

\* syncToken and nextSyncToken: 0 without a response, or if its file is not there.
SyncToken == IF meta.ids = <<>> THEN 0 ELSE files[Head(meta.ids)].from
NextSyncToken == IF meta.ids = <<>> THEN 0 ELSE files[Last(meta.ids)].to

\* Mutation of Merged: a gap in the old response is forgotten.
MergedForgettingGap(old, new) ==
  [from |-> old.from, to |-> new.to, keys |-> old.keys \cup new.keys,
   msgs |-> IF new.limited THEN new.msgs ELSE old.msgs \cup new.msgs,
   limited |-> IF new.msgs = {} THEN old.limited ELSE new.limited]

\* merged(_:onto:): a limited timeline replaces the older messages, and a timeline
\* that has a gap keeps it.
Merged(old, new) ==
  [from |-> old.from, to |-> new.to, keys |-> old.keys \cup new.keys,
   msgs |-> IF new.limited THEN new.msgs ELSE old.msgs \cup new.msgs,
   limited |-> old.limited \/ new.limited]

\* mergedSyncResponse: each response that can be read is merged onto those before it, in
\* order.  From the first to the last, every key and the messages that no gap comes after.
MergedAll(ids) ==
  LET read(i) == files[ids[i]]
      found == {i \in DOMAIN ids : Exists(ids[i])}
      ungapped == {i \in found : \A j \in found : j > i => ~read(j).limited}
  IN  IF found = {} THEN NoResponse
      ELSE [from |-> read(Min(found)).from, to |-> read(Max(found)).to,
            keys |-> UNION {read(i).keys : i \in found},
            msgs |-> UNION {read(i).msgs : i \in ungapped},
            limited |-> \E i \in found : read(i).limited]

(***************************************************************************)
(* The session.                                                            *)
(***************************************************************************)
\* The two are in the files at the same time: either enters while the other is there.
Handling == app.stage \in {"outdated", "valid", "handled", "delete", "removed", "unlist"}
Writing == bg.stage \in {"mark", "write", "register"}
Races(overlap) == raced' = (raced \/ overlap)

\* The session writes metadata the service has changed since it read them; or the service
\* writes a response the session has deleted, or writes the metadata or reads where to go
\* on while the session is writing them.
Undoes(what) == undone' = (undone \/ what)

\* Messages after a gap replace those of the store.
Handled(timeline, r) ==
  [token |-> r.to, msgs |-> IF r.limited THEN r.msgs ELSE timeline.msgs \cup r.msgs]

\* handleBackgroundSyncCacheIfRequired, with what the session has in its store.
HandleCache(token, msgs) ==
  LET valid == token # 0 /\ SyncToken = token
      read == [stage |-> "outdated", token |-> token, msgs |-> msgs,
               outdated |-> meta.outdated \o (IF valid THEN <<>> ELSE meta.ids),
               ids |-> IF valid THEN meta.ids ELSE <<>>, meta |-> NoMetaData, truncated |-> FALSE]
  IN  app' = IF read.outdated = <<>> /\ read.ids = <<>> THEN [read EXCEPT !.stage = "running"] ELSE read

AppStart ==
  /\ app.stage = "down"
  /\ HandleCache(disk.token, disk.msgs)
  /\ Races(Handling' /\ Writing)
  /\ UNCHANGED <<server, cache, disk, appKeys, service, torn, undone, kills>>

AppPause ==
  /\ app.stage = "running"
  /\ app' = [app EXCEPT !.stage = "paused"]
  /\ UNCHANGED <<server, cache, disk, appKeys, service, raced, torn, undone, kills>>

AppResume ==
  /\ app.stage = "paused"
  /\ HandleCache(app.token, app.msgs)
  /\ Races(Handling' /\ Writing)
  /\ UNCHANGED <<server, cache, disk, appKeys, service, torn, undone, kills>>

\* Mutation of HandleOutdated: nothing of these responses is worth handling.
DropOutdated ==
  /\ app.stage = "outdated"
  /\ app' = [app EXCEPT !.stage = "valid"]
  /\ UNCHANGED <<server, cache, disk, appKeys, service, raced, torn, undone, kills>>

\* handleOutdatedSyncResponse: "Handle only to_device events. They are sent only once".
HandleOutdated ==
  /\ app.stage = "outdated"
  /\ appKeys' = appKeys \cup MergedAll(app.outdated).keys
  /\ app' = [app EXCEPT !.stage = "valid", !.outdated = <<>>]
  /\ UNCHANGED <<server, cache, disk, service, raced, torn, undone, kills>>

\* handleSyncResponse for the others.
HandleValid ==
  /\ app.stage = "valid"
  /\ LET r == MergedAll(app.ids)
         t == IF r = NoResponse THEN [token |-> app.token, msgs |-> app.msgs]
              ELSE Handled([token |-> app.token, msgs |-> app.msgs], r)
     IN  /\ appKeys' = appKeys \cup r.keys
         /\ app' = [app EXCEPT !.stage = "handled", !.token = t.token, !.msgs = t.msgs, !.ids = <<>>]
  /\ UNCHANGED <<server, cache, disk, service, raced, torn, undone, kills>>

\* deleteData: all the responses that are listed by now ...
StartDelete ==
  /\ app.stage = "handled"
  /\ app' = [app EXCEPT !.stage = "delete", !.ids = meta.outdated \o meta.ids]
  /\ UNCHANGED <<server, cache, disk, appKeys, service, raced, torn, undone, kills>>

\* ... one by one: the file is removed, the metadata are read, truncated and written
\* back without the response, which is listed once ...
RemoveSyncResponse ==
  /\ app.stage = "delete" /\ app.ids # <<>>
  /\ files' = [files EXCEPT ![Head(app.ids)] = NoResponse]
  /\ app' = [app EXCEPT !.stage = "removed"]
  /\ UNCHANGED <<server, meta, disk, appKeys, service, raced, torn, undone, kills>>

ReadMetaData ==
  /\ app.stage = "removed"
  /\ app' = [app EXCEPT !.stage = "unlist", !.meta = meta]
  /\ UNCHANGED <<server, cache, disk, appKeys, service, raced, torn, undone, kills>>

AppTruncates ==
  /\ app.stage = "unlist" /\ ~app.truncated
  /\ meta' = NoMetaData
  /\ app' = [app EXCEPT !.truncated = TRUE]
  /\ Undoes(meta # app.meta)
  /\ UNCHANGED <<server, files, disk, appKeys, service, raced, torn, kills>>

DeleteSyncResponseId ==
  /\ app.truncated
  /\ LET id == Head(app.ids)
     IN  meta' = [ids |-> RemoveFirst(app.meta.ids, id), outdated |-> RemoveFirst(app.meta.outdated, id)]
  /\ app' = [app EXCEPT !.stage = "delete", !.ids = Tail(@), !.meta = NoMetaData, !.truncated = FALSE]
  /\ UNCHANGED <<server, files, disk, appKeys, service, raced, torn, undone, kills>>

\* ... and the metadata.  The session may go on.
DeleteMetaData ==
  /\ app.stage = "delete" /\ app.ids = <<>>
  /\ meta' = NoMetaData
  /\ app' = [app EXCEPT !.stage = "running"]
  /\ UNCHANGED <<server, files, disk, appKeys, service, raced, torn, undone, kills>>

\* The session's own /sync, answered with something or only sent.
AppSync ==
  /\ app.stage = "running"
  /\ LET r == Answer(app.token)
         t == Handled([token |-> app.token, msgs |-> app.msgs], r)
     IN  /\ app.token < pos
         /\ acked' = Acknowledged(app.token)
         /\ appKeys' = appKeys \cup r.keys
         /\ app' = [app EXCEPT !.token = t.token, !.msgs = t.msgs]
  /\ UNCHANGED <<pos, pushed, cache, disk, service, raced, torn, undone, kills>>

AppLongPoll ==
  /\ app.stage = "running" /\ app.token > acked
  /\ acked' = app.token
  /\ UNCHANGED <<pos, pushed, cache, app, disk, appKeys, service, raced, torn, undone, kills>>

Commit ==
  /\ app.stage # "down" /\ disk.token # app.token
  /\ disk' = [token |-> app.token, msgs |-> app.msgs]
  /\ UNCHANGED <<server, cache, app, appKeys, service, raced, torn, undone, kills>>

AppKilled ==
  /\ app.stage # "down" /\ kills < MaxKills
  /\ app' = Down
  /\ kills' = kills + 1
  /\ UNCHANGED <<server, cache, disk, appKeys, service, raced, torn, undone>>

\* The application clears its cache: the next sync is an initial one.
ClearCache ==
  /\ app.stage = "down" /\ disk.token # 0 /\ kills < MaxKills
  /\ disk' = [token |-> 0, msgs |-> {}]
  /\ kills' = kills + 1
  /\ UNCHANGED <<server, cache, app, appKeys, service, raced, torn, undone>>

(***************************************************************************)
(* The service.  It handles one event at a time.                           *)
(***************************************************************************)
\* The messages there are pushes for.
ToAnswer == {e \in MsgPos : pushed < e /\ e <= pos}

\* A push starts the extension.  init makes bgCryptoStore anew if no response is cached.
ServiceStart ==
  /\ bg.stage = "off" /\ ToAnswer # {}
  /\ bg' = [Off EXCEPT !.stage = "idle", !.token = disk.token]
  /\ bgKeys' = IF SyncToken = 0 THEN {} ELSE bgKeys
  /\ UNCHANGED <<server, cache, app, disk, appKeys, copy, raced, torn, undone, kills>>

\* The extension has shown its notification, or has used up its time.
ServiceEnds ==
  /\ bg.stage = "idle"
  /\ bg' = Off
  /\ UNCHANGED <<server, cache, app, disk, appKeys, bgKeys, copy, raced, torn, undone, kills>>

ServiceKilled ==
  /\ bg.stage \notin {"off", "idle"} /\ kills < MaxKills
  /\ bg' = Off
  /\ torn' = (torn \/ bg.truncated)
  /\ kills' = kills + 1
  /\ UNCHANGED <<server, cache, app, disk, appKeys, bgKeys, copy, raced, undone>>

\* cryptoStore.reset, if no response is listed: "they have been consumed".
ResetIfEmpty(ids) ==
  IF ids = <<>> THEN bgKeys' = {} /\ copy' = appKeys ELSE UNCHANGED <<bgKeys, copy>>

\* event(withEventId:inRoom:) and updateBackgroundServiceStoresIfNeeded.
Event(e) ==
  /\ bg.stage = "idle" /\ e \in ToAnswer
  /\ pushed' = e
  /\ LET outdated == SyncToken # 0 /\ (disk.token # bg.token \/ disk.token # SyncToken)
         read == [bg EXCEPT !.event = e, !.allowSync = TRUE, !.token = disk.token]
     IN  IF outdated
         THEN /\ bg' = [read EXCEPT !.stage = "mark", !.meta = meta]
              /\ UNCHANGED <<bgKeys, copy>>
         ELSE bg' = [read EXCEPT !.stage = "look"] /\ ResetIfEmpty(meta.ids)
  /\ Races(Handling /\ Writing')
  /\ UNCHANGED <<pos, acked, cache, app, disk, appKeys, torn, undone, kills>>

\* The metadata the service has read and changed: the file is truncated, then written.
ServiceTruncates ==
  /\ bg.stage \in {"mark", "register"} /\ ~bg.truncated
  /\ meta' = NoMetaData
  /\ bg' = [bg EXCEPT !.truncated = TRUE]
  /\ UNCHANGED <<server, files, app, disk, appKeys, bgKeys, copy, raced, torn, undone, kills>>

\* Mutation of MarkOutdated: the responses stay among the valid ones.
MarkWithoutRemoving ==
  /\ bg.stage = "mark" /\ bg.truncated
  /\ meta' = [bg.meta EXCEPT !.outdated = @ \o bg.meta.ids]
  /\ bg' = [bg EXCEPT !.stage = "look", !.meta = NoMetaData, !.truncated = FALSE]
  /\ UNCHANGED <<bgKeys, copy>>
  /\ Undoes(app.truncated)
  /\ UNCHANGED <<server, files, app, disk, appKeys, raced, torn, kills>>

\* markOutdated writes the metadata it has read.
MarkOutdated ==
  /\ bg.stage = "mark" /\ bg.truncated
  /\ meta' = [ids |-> <<>>, outdated |-> bg.meta.outdated \o bg.meta.ids]
  /\ bg' = [bg EXCEPT !.stage = "look", !.meta = NoMetaData, !.truncated = FALSE]
  /\ ResetIfEmpty(<<>>)
  /\ Undoes(app.truncated)
  /\ UNCHANGED <<server, files, app, disk, appKeys, raced, torn, kills>>

\* The messages that are cached, and those whose keys the service has.
Cached == UNION {files[meta.ids[i]].msgs : i \in DOMAIN meta.ids}
Decryptable(e) == Feed[e].needs \in {0} \cup bgKeys \cup copy

\* The completion block: the next event can be handled.
Done == bg' = [Off EXCEPT !.stage = "idle", !.token = bg.token]

\* launchBackgroundSync.  Without a token the event streaming is not started yet.
LaunchBackgroundSync ==
  LET from == IF NextSyncToken # 0 THEN NextSyncToken ELSE bg.token
  IN  IF from = 0 THEN Done /\ UNCHANGED acked
      ELSE /\ bg' = [bg EXCEPT !.stage = "sync", !.from = from, !.response = NoResponse]
           /\ acked' = Acknowledged(from)

\* handleEncryption.
Decrypt(e) ==
  IF Decryptable(e) \/ ~bg.allowSync THEN Done /\ UNCHANGED acked ELSE LaunchBackgroundSync

\* _event: in the cache, or through a sync, or by the /event API.
Look ==
  /\ bg.stage = "look"
  /\ IF bg.event \in Cached THEN Decrypt(bg.event)
     ELSE IF bg.allowSync THEN LaunchBackgroundSync
     ELSE bg' = [bg EXCEPT !.stage = "fetch"] /\ UNCHANGED acked
  /\ Undoes(app.truncated)
  /\ UNCHANGED <<pos, pushed, cache, app, disk, appKeys, bgKeys, copy, raced, torn, kills>>

\* The /event API answers or fails, the event is decrypted or not: that is all.
Fetched ==
  /\ bg.stage = "fetch"
  /\ Done
  /\ UNCHANGED <<server, cache, app, disk, appKeys, bgKeys, copy, raced, torn, undone, kills>>

SyncFails ==
  /\ bg.stage = "sync"
  /\ Done
  /\ UNCHANGED <<server, cache, app, disk, appKeys, bgKeys, copy, raced, torn, undone, kills>>

\* A response, and updateStore: merged with the last one, if that is small enough
\* (size < syncResponseCacheSizeLimit) and can be read, or in a file of its own.
\* A new file gets an id nobody has seen.
Listings == meta.ids \o meta.outdated \o app.outdated \o app.ids \o app.meta.ids \o app.meta.outdated
Free == {c \in Chunks : ~Exists(c) /\ c \notin ToSet(Listings)}
SyncSucceeds ==
  /\ bg.stage = "sync"
  /\ LET r == Answer(bg.from)
         got == [bg EXCEPT !.stage = "write", !.from = 0, !.response = r]
     IN  \/ /\ meta.ids # <<>> /\ Exists(Last(meta.ids))
            /\ bg' = [got EXCEPT !.chunk = Last(meta.ids),
                                 !.content = Merged(files[Last(meta.ids)], r)]
         \/ \E c \in Free : bg' = [got EXCEPT !.chunk = c, !.fresh = TRUE, !.content = r]
  /\ Races(Handling)
  /\ UNCHANGED <<server, cache, app, disk, appKeys, bgKeys, copy, torn, undone, kills>>

\* saveSyncResponse; addSyncResponseId reads the metadata of a new response ...
WriteResponse ==
  /\ bg.stage = "write"
  /\ files' = [files EXCEPT ![bg.chunk] = bg.content]
  /\ LET written == [bg EXCEPT !.content = NoResponse]
     IN  bg' = IF bg.fresh THEN [written EXCEPT !.stage = "register", !.meta = meta]
                           ELSE [written EXCEPT !.stage = "feed", !.chunk = None]
  /\ UNCHANGED <<server, meta, app, disk, appKeys, bgKeys, copy, raced, torn, kills>>
  /\ Undoes(~bg.fresh /\ ~Exists(bg.chunk))

\* ... and writes them back.
RegisterResponse ==
  /\ bg.stage = "register" /\ bg.truncated
  /\ meta' = [bg.meta EXCEPT !.ids = Append(@, bg.chunk)]
  /\ bg' = [bg EXCEPT !.stage = "feed", !.chunk = None, !.fresh = FALSE, !.meta = NoMetaData,
                      !.truncated = FALSE]
  /\ Undoes(app.truncated)
  /\ UNCHANGED <<server, files, app, disk, appKeys, bgKeys, copy, raced, torn, kills>>

\* handleToDeviceEvent for each key, then: sync on for the key of the event, or answer.
HandleToDeviceEvents ==
  /\ bg.stage = "feed"
  /\ bgKeys' = bgKeys \cup bg.response.keys
  /\ IF bg.event \in Cached /\ Feed[bg.event].needs \notin {0} \cup bgKeys' \cup copy
        /\ bg.response.keys # {}
     THEN LaunchBackgroundSync
     ELSE /\ bg' = [bg EXCEPT !.stage = "look", !.allowSync = FALSE,
                               !.from = 0, !.response = NoResponse]
          /\ UNCHANGED acked
  /\ Undoes(app.truncated)
  /\ UNCHANGED <<pos, pushed, cache, app, disk, appKeys, copy, raced, torn, kills>>

AppStep ==
  \/ HandleOutdated \/ HandleValid \/ StartDelete \/ RemoveSyncResponse \/ ReadMetaData
  \/ AppTruncates \/ DeleteSyncResponseId \/ DeleteMetaData
  \/ AppSync \/ AppLongPoll \/ Commit
ServiceStep ==
  \/ ServiceTruncates \/ MarkOutdated \/ Look \/ Fetched \/ SyncFails \/ SyncSucceeds
  \/ WriteResponse \/ RegisterResponse \/ HandleToDeviceEvents

Next ==
  \/ ServerEvent
  \/ AppStart \/ AppPause \/ AppResume \/ AppKilled \/ ClearCache \/ AppStep
  \/ ServiceStart \/ ServiceEnds \/ ServiceKilled \/ ServiceStep
  \/ \E e \in MsgPos : Event(e)

Spec == Init /\ [][Next]_vars

(***************************************************************************)
(* Properties.                                                             *)
(***************************************************************************)
\* Safety: the store of the session never has a gap it does not know of: its
\* messages are the last ones before its token, however many responses have been
\* merged, cached, marked, deleted or handled twice in the meantime, by two processes
\* at the same time.  One case is left out, in which there can be such a gap: the
\* session writes back metadata that the service has changed since it read them, or the
\* service writes a response the session has deleted, or the metadata the session is
\* writing, or reads in them where to go on.
NoSilentGap ==
  undone \/ \A timeline \in {disk, [token |-> app.token, msgs |-> app.msgs]} :
    \E gap \in 0..timeline.token :
      timeline.msgs = {m \in MsgPos : gap < m /\ m <= timeline.token}

\* Safety: to-device messages "are sent only once by the homeserver": until the
\* session has handled a key, it is in the responses that are listed, in the metadata
\* file or in what is about to be written in it, or the session is still to be sent it.
\* Two cases are left out, in which keys are lost: the service wrote while the session
\* was handling its cache, or it was killed with the metadata file truncated.
Keys(m) == UNION {files[c].keys : c \in ToSet(m.ids \o m.outdated)}
Listed == Keys(meta) \cup (IF app.truncated THEN Keys(app.meta) ELSE {})
                     \cup (IF bg.truncated THEN Keys(bg.meta) ELSE {})
SessionToken == IF app.stage = "down" THEN disk.token ELSE app.token
NoKeyLost ==
  raced \/ torn \/ \A k \in KeyPos : k <= pos =>
                      k \in appKeys \cup Listed \/ (k > acked /\ k > SessionToken)

=============================================================================
