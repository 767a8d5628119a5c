-------------------------- MODULE SessionSyncProofs --------------------------
(***************************************************************************)
(* Theorems of SessionSync, for every number of passes and every stream:   *)
(* first what holds however the application uses the session, then what    *)
(* holds for one that waits for quiet moments, with the refinement of      *)
(* StreamReader.                                                           *)
(*                                                                         *)
(* NoSyncGap is not inductive: a response is applied on top of the token   *)
(* its request was made with, not of the token of the moment, so one has to*)
(* know of every pass, and of the cached responses, that they follow on    *)
(* from what has been handled.  That is PassesCovered, and nothing but     *)
(* EndHandling and HandleCached touches the store.                         *)
(***************************************************************************)
EXTENDS SessionSync, FiniteSetTheorems, TLAPS

Inv == TypeOK /\ NoSyncGap /\ PassesCovered

\* Passes that are well formed and follow on from the positions in h.
GoodJobs(js, h) == js \in [Jobs -> Job] /\ \A j \in Jobs : 1..js[j].from \subseteq h

(***************************************************************************)
(* The operators that change passes.                                       *)
(***************************************************************************)
\* A new pass is well formed, and so is one that changes its stage.
LEMMA PassFacts ==
  ASSUME NEW stage \in Stages, NEW long \in BOOLEAN, NEW initial \in BOOLEAN,
         NEW from \in Position, NEW to \in Position
  PROVE  /\ Pass(stage, long, initial, from, to) \in Job
         /\ Pass(stage, long, initial, from, to).from = from
BY DEF Pass, Job, Errors

\* A change of stage leaves a pass well formed, and where it was.
LEMMA StageFacts ==
  ASSUME NEW job \in Job, NEW stage \in Stages
  PROVE  /\ [job EXCEPT !.stage = stage] \in Job
         /\ [job EXCEPT !.stage = stage].from = job.from
BY DEF Job

\* The pass that does not exist is well formed and follows on from nothing.
LEMMA FreeJobFacts == FreeJob \in Job /\ FreeJob.from = 0
<1>1. "free" \in Stages /\ 0 \in Position
  BY MaxPosAssumption DEF Stages, Position
<1>. QED
  BY <1>1 DEF FreeJob, Pass, Job, Errors

\* Freeing, moving or replacing a pass by one that waits keeps passes good.
LEMMA MovesAreGood ==
  ASSUME NEW h, GoodJobs(jobs, h), NEW j \in Jobs, NEW s \in Stages
  PROVE  /\ GoodJobs(Freed(j), h)
         /\ GoodJobs(Moved(j, s), h)
         /\ GoodJobs(Waiting(j, s), h)
<1>0. \A e : e \notin 1..0
  OBVIOUS
<1>1. GoodJobs(Freed(j), h)
  BY <1>0, FreeJobFacts DEF GoodJobs, Freed
<1>2. GoodJobs(Moved(j, s), h)
  <2>1. Moved(j, s) = [jobs EXCEPT ![j] = [jobs[j] EXCEPT !.stage = s]]
    BY DEF Moved, GoodJobs, Job
  <2>2. jobs[j] \in Job
    BY DEF GoodJobs
  <2>. QED
    BY <2>1, <2>2, StageFacts DEF GoodJobs
<1>3. GoodJobs(Waiting(j, s), h)
  <2>1. 0 \in Position
    BY MaxPosAssumption DEF Position
  <2>2. Pass(s, FALSE, FALSE, 0, 0) \in Job /\ Pass(s, FALSE, FALSE, 0, 0).from = 0
    BY <2>1 DEF Pass, Job, Errors
  <2>. QED
    BY <1>0, <2>2 DEF GoodJobs, Waiting
<1>. QED
  BY <1>1, <1>2, <1>3

\* So does the cancellation of the event stream's request.
LEMMA CancelledIsGood ==
  ASSUME NEW h, NEW js, GoodJobs(js, h)
  PROVE  GoodJobs(Cancelled(js), h)
<1>1. "cancelled" \in Stages
  BY DEF Stages
<1>2. \A j \in Jobs : \/ Cancelled(js)[j] = js[j]
                      \/ Cancelled(js)[j] = [js[j] EXCEPT !.stage = "cancelled"]
  BY Zenon DEF Cancelled
<1>3. \A j \in Jobs : Cancelled(js)[j] \in Job /\ Cancelled(js)[j].from = js[j].from
  <2>. TAKE j \in Jobs
  <2>1. js[j] \in Job
    BY DEF GoodJobs
  <2>2. /\ [js[j] EXCEPT !.stage = "cancelled"] \in Job
        /\ [js[j] EXCEPT !.stage = "cancelled"].from = js[j].from
    BY <1>1, <2>1, StageFacts, Zenon
  <2>. QED
    BY <1>2, <2>1, <2>2, Zenon
<1>4. Cancelled(js) = [j \in Jobs |-> Cancelled(js)[j]]
  BY DEF Cancelled
<1>. QED
  BY <1>3, <1>4 DEF GoodJobs

\* serverSyncWithServerTimeout: the pass it launches is made with the token.
LEMMA ServerSyncIsGood ==
  ASSUME Inv, NEW js, GoodJobs(js, handled), NEW req \in Jobs \cup {None},
         NEW long \in BOOLEAN, NEW initial \in BOOLEAN, ServerSync(js, req, long, initial)
  PROVE  /\ GoodJobs(jobs', handled)
         /\ request' \in Jobs \cup {None}
         /\ catchingUp' \in BOOLEAN
<1>0. /\ "answered" \in Stages /\ "sent" \in Stages
      /\ 0 \in Position /\ token \in Position /\ initialCache \in Position
      /\ 1..0 \subseteq handled /\ 1..token \subseteq handled
  BY MaxPosAssumption DEF Stages, Inv, TypeOK, NoSyncGap, Position
<1>1. CASE token = 0 /\ initialCache # 0
  <2>1. PICK j \in Jobs :
          jobs' = [js EXCEPT ![j] = Pass("answered", FALSE, initial, 0, initialCache)]
    BY <1>1 DEF ServerSync
  <2>2. /\ Pass("answered", FALSE, initial, 0, initialCache) \in Job
        /\ Pass("answered", FALSE, initial, 0, initialCache).from = 0
    BY <1>0, MaxPosAssumption DEF Pass, Job, Errors
  <2>3. GoodJobs(jobs', handled)
    BY <1>0, <2>1, <2>2 DEF GoodJobs
  <2>. QED
    BY <1>1, <2>3 DEF ServerSync, Inv, TypeOK
<1>2. CASE ~(token = 0 /\ initialCache # 0) /\ closed
  BY <1>2 DEF ServerSync
<1>3. CASE ~(token = 0 /\ initialCache # 0) /\ ~closed
  <2>1. PICK j \in Jobs :
          request' = j /\ jobs' = [js EXCEPT ![j] = Pass("sent", long, initial, token, 0)]
    BY <1>3 DEF ServerSync
  <2>2. /\ Pass("sent", long, initial, token, 0) \in Job
        /\ Pass("sent", long, initial, token, 0).from = token
    BY <1>0, PassFacts
  <2>3. GoodJobs(jobs', handled)
    BY <1>0, <2>1, <2>2 DEF GoodJobs
  <2>. QED
    BY <1>3, <2>1, <2>3 DEF ServerSync
<1>. QED
  BY <1>1, <1>2, <1>3

(***************************************************************************)
(* Most steps leave the store alone; what is left to show of these.        *)
(***************************************************************************)
StreamGood ==
  /\ GoodJobs(jobs', handled)
  /\ request' \in Jobs \cup {None} /\ catchingUp' \in BOOLEAN
BlocksGood == /\ onResumeDone' \in BOOLEAN /\ onBackgroundSyncDone' \in BOOLEAN
              /\ onBackgroundSyncFail' \in BOOLEAN
CachesGood ==
  /\ cacheTask' \in CacheTask /\ cached' \in Position \X Position
  /\ initialCache' \in Position
  /\ cacheTask'.apply => cacheTask'.on /\ 1..cached'[1] \subseteq handled

\* A step that leaves the store alone keeps the invariant if it keeps its parts.
LEMMA FramedStep ==
  ASSUME Inv, UNCHANGED data, serverPos' \in Position, preventPauseCount' \in 0..MaxPrevent,
         state' \in States, StreamGood, BlocksGood, CachesGood,
         starting' \in BOOLEAN, closed' \in BOOLEAN
  PROVE  Inv'
BY DEF Inv, TypeOK, NoSyncGap, PassesCovered, data, StreamGood, GoodJobs, BlocksGood, CachesGood

\* What the parts are before the step; what is unchanged of them stays so.
LEMMA PartsHold ==
  ASSUME Inv
  PROVE  /\ GoodJobs(jobs, handled)
         /\ serverPos \in Position /\ preventPauseCount \in 0..MaxPrevent
         /\ state \in States /\ starting \in BOOLEAN /\ closed \in BOOLEAN
         /\ token \in Position /\ 1..token \subseteq handled
         /\ request \in Jobs \cup {None}
         /\ cacheTask \in CacheTask /\ cached \in Position \X Position
         /\ UNCHANGED stream => StreamGood
         /\ UNCHANGED blocks => BlocksGood
         /\ UNCHANGED caches => CachesGood
BY DEF Inv, TypeOK, NoSyncGap, PassesCovered, GoodJobs, stream, blocks, caches, StreamGood,
       BlocksGood, CachesGood

\* The operators that several actions are made of: pause...
LEMMA PauseIsGood ==
  ASSUME Inv, Pause
  PROVE  state' \in States /\ StreamGood /\ BlocksGood
<1>1. "Paused" \in States /\ "PauseRequested" \in States
  BY DEF States
<1>2. GoodJobs(Cancelled(jobs), handled)
  BY PartsHold, CancelledIsGood
<1>. QED
  BY <1>1, <1>2, PartsHold DEF Pause, StreamGood, BlocksGood, stream, blocks, Inv, TypeOK

\* ... serverSyncWithServerTimeout...
LEMMA SyncingIsGood ==
  ASSUME Inv, NEW js, GoodJobs(js, handled), NEW req \in Jobs \cup {None},
         NEW long \in BOOLEAN, NEW initial \in BOOLEAN, ServerSync(js, req, long, initial)
  PROVE  StreamGood
BY ServerSyncIsGood DEF StreamGood

\* ... resume...
LEMMA ResumeIsGood ==
  ASSUME Inv, NEW s \in States, Resume(s)
  PROVE  state' \in States /\ StreamGood /\ BlocksGood
<1>0. "SyncInProgress" \in States
  BY DEF States
<1>1. CASE ~Resumable(s)
  BY <1>1, PartsHold DEF Resume
<1>2. CASE Resumable(s) /\ request # None
  BY <1>0, <1>2, PartsHold DEF Resume, blocks, BlocksGood, Inv, TypeOK
<1>3. CASE Resumable(s) /\ request = None
  <2>1. ServerSync(jobs, None, FALSE, FALSE)
    BY <1>3 DEF Resume
  <2>2. StreamGood
    BY <2>1, PartsHold, SyncingIsGood
  <2>. QED
    BY <1>0, <1>3, <2>2 DEF Resume, BlocksGood, Inv, TypeOK
<1>. QED
  BY <1>1, <1>2, <1>3

\* ... _startWithSyncFilterId...
LEMMA StartFromIsGood ==
  ASSUME Inv, StartFrom
  PROVE  state' \in States /\ starting' \in BOOLEAN /\ StreamGood /\ BlocksGood
<1>0. "SyncInProgress" \in States
  BY DEF States
<1>1. CASE token # 0
  BY <1>0, <1>1, ResumeIsGood, PartsHold DEF StartFrom
<1>2. CASE token = 0
  BY <1>0, <1>2, PartsHold DEF StartFrom
<1>. QED
  BY <1>1, <1>2

\* ... and the cache of the background sync service, that comes first.
LEMMA ThroughCacheIsGood ==
  ASSUME Inv, NEW then \in {"start", "resume"}, ThroughCache(then), UNCHANGED <<cached, initialCache>>
  PROVE  /\ state' \in States /\ starting' \in BOOLEAN /\ StreamGood /\ BlocksGood
         /\ CachesGood
<1>1. CASE state = "InitialSyncFailed" \/ NoCache
  <2>1. CASE then = "start"
    BY <1>1, <2>1, StartFromIsGood, PartsHold DEF ThroughCache, caches
  <2>2. CASE then = "resume"
    BY <1>1, <2>2, ResumeIsGood, PartsHold DEF ThroughCache, caches
  <2>. QED
    BY <2>1, <2>2
<1>2. CASE ~(state = "InitialSyncFailed" \/ NoCache)
  <2>1. /\ state' = "ProcessingBackgroundSyncCache"
        /\ cacheTask' = [on |-> TRUE, old |-> state, then |-> then, apply |-> cached[1] = token]
        /\ UNCHANGED <<stream, blocks, starting>>
    BY <1>2 DEF ThroughCache
  <2>2. cacheTask' \in CacheTask
    BY <2>1, PartsHold DEF CacheTask
  <2>3. cacheTask'.apply => cacheTask'.on /\ 1..cached'[1] \subseteq handled
    BY <2>1, PartsHold
  <2>4. "ProcessingBackgroundSyncCache" \in States
    BY DEF States
  <2>. QED
    BY <2>1, <2>2, <2>3, <2>4, PartsHold DEF CachesGood, Inv, TypeOK
<1>. QED
  BY <1>1, <1>2

(***************************************************************************)
(* Every step keeps the invariant.                                         *)
(***************************************************************************)
\* What the application does.
LEMMA AppKeepsInv == ASSUME Inv, App PROVE Inv'
<1>0. /\ {"Closed", "Paused", "BackgroundSyncInProgress"} \subseteq States
      /\ \A js : GoodJobs(js, handled) => GoodJobs(Cancelled(js), handled)
  BY CancelledIsGood DEF States
<1>1. CASE AppStart
  BY <1>1, PartsHold, ThroughCacheIsGood, FramedStep DEF AppStart, data
<1>2. CASE AppPause
  BY <1>2, PartsHold, PauseIsGood, FramedStep DEF AppPause, data
<1>3. CASE AppResume
  BY <1>3, PartsHold, ThroughCacheIsGood, FramedStep DEF AppResume, data
<1>4. CASE AppBackgroundSync
  <2>1. StreamGood
    BY <1>4, PartsHold, SyncingIsGood DEF AppBackgroundSync
  <2>2. BlocksGood
    BY <1>4 DEF AppBackgroundSync, BlocksGood, Inv, TypeOK
  <2>. QED
    BY <1>0, <1>4, <2>1, <2>2, PartsHold, FramedStep DEF AppBackgroundSync, data
<1>5. CASE AppReconnect
  <2>1. StreamGood
    BY <1>0, <1>5, PartsHold, SyncingIsGood DEF AppReconnect
  <2>. QED
    BY <1>5, <2>1, PartsHold, FramedStep DEF AppReconnect, data
<1>6. CASE AppClose
  <2>1. StreamGood
    BY <1>0, <1>6, PartsHold DEF AppClose, StreamGood, Inv, TypeOK
  <2>2. CachesGood
    BY <1>6, PartsHold, MaxPosAssumption
    DEF AppClose, CachesGood, Inv, TypeOK, PassesCovered, Position
  <2>. QED
    BY <1>0, <1>6, <2>1, <2>2, PartsHold, FramedStep DEF AppClose, data
<1>7. CASE RetainPreventPause
  <2>1. preventPauseCount' \in 0..MaxPrevent
    BY <1>7, MaxPreventAssumption DEF RetainPreventPause, Inv, TypeOK
  <2>. QED
    BY <1>7, <2>1, PartsHold, FramedStep DEF RetainPreventPause, data
<1>8. CASE ReleasePreventPause
  <2>1. preventPauseCount' \in 0..MaxPrevent
    BY <1>8, MaxPreventAssumption DEF ReleasePreventPause, Inv, TypeOK
  <2>2. state' \in States /\ StreamGood /\ BlocksGood
    <3>1. CASE UNCHANGED <<state, stream, blocks>>
      BY <3>1, PartsHold
    <3>2. CASE ~UNCHANGED <<state, stream, blocks>>
      BY <1>0, <1>8, <3>2, PartsHold
      DEF ReleasePreventPause, StreamGood, BlocksGood, Inv, TypeOK
    <3>. QED
      BY <3>1, <3>2
  <2>. QED
    BY <1>8, <2>1, <2>2, PartsHold, FramedStep DEF ReleasePreventPause, data
<1>. QED
  BY <1>1, <1>2, <1>3, <1>4, <1>5, <1>6, <1>7, <1>8 DEF App

\* What the homeserver and the background sync service do.
LEMMA EnvironmentKeepsInv == ASSUME Inv, ServerAdvance \/ BackgroundService PROVE Inv'
<1>1. CASE ServerAdvance
  <2>1. serverPos' \in Position
    BY <1>1, MaxPosAssumption DEF ServerAdvance, Inv, TypeOK, Position
  <2>. QED
    BY <1>1, <2>1, PartsHold, FramedStep DEF ServerAdvance
<1>2. CASE BackgroundService
  <2>1. CachesGood
    <3>1. PICK from \in 1..token : cached' = <<from, serverPos>>
      BY <1>2 DEF BackgroundService
    <3>2. from \in Position
      BY <3>1, PartsHold, MaxPosAssumption DEF Position
    <3>3. ~cacheTask.apply
      BY <1>2 DEF BackgroundService, Inv, PassesCovered
    <3>. QED
      BY <1>2, <3>1, <3>2, <3>3 DEF BackgroundService, CachesGood, Inv, TypeOK
  <2>. QED
    BY <1>2, <2>1, PartsHold, FramedStep DEF BackgroundService, data
<1>. QED
  BY <1>1, <1>2

\* What the network brings.
LEMMA NetworkKeepsInv ==
  ASSUME Inv, NEW j \in Jobs, Network(j)
  PROVE  Inv'
<1>0. "answered" \in Stages /\ "bgFail" \in Stages /\ "afterBgFail" \in Stages
  BY DEF Stages
<1>1. CASE Response(j)
  <2>1. GoodJobs(jobs', handled)
    <3>1. CASE request = None
      BY <1>1, <3>1, PartsHold, MovesAreGood, <1>0 DEF Response
    <3>2. CASE request # None
      <4>1. jobs' = [jobs EXCEPT ![j] = [jobs[j] EXCEPT !.stage = "answered", !.to = serverPos]]
        BY <1>1, <3>2 DEF Response, Inv, TypeOK, Job
      <4>2. jobs[j] \in Job
        BY DEF Inv, TypeOK
      <4>3. ASSUME NEW job \in Job, NEW p \in Position
            PROVE  /\ [job EXCEPT !.stage = "answered", !.to = p] \in Job
                   /\ [job EXCEPT !.stage = "answered", !.to = p].from = job.from
        BY <1>0 DEF Job
      <4>. QED
        BY <4>1, <4>2, <4>3, PartsHold DEF GoodJobs
    <3>. QED
      BY <3>1, <3>2
  <2>. QED
    BY <1>1, <2>1, PartsHold, FramedStep DEF Response, StreamGood, data, Inv, TypeOK
<1>2. CASE UnknownToken(j)
  <2>1. GoodJobs(jobs', handled)
    BY <1>0, <1>2, PartsHold, MovesAreGood DEF UnknownToken
  <2>2. state' \in States
    BY <1>2, PartsHold DEF UnknownToken, States
  <2>. QED
    BY <1>2, <2>1, <2>2, PartsHold, FramedStep DEF UnknownToken, StreamGood, data, Inv, TypeOK
<1>3. ASSUME NEW error \in Errors, Failure(j, error) PROVE Inv'
  <2>1. GoodJobs(jobs', handled)
    <3>1. CASE request = None
      BY <1>3, <3>1, PartsHold, MovesAreGood, <1>0 DEF Failure
    <3>2. CASE request # None
      <4>1. PICK s \in Stages :
              jobs' = [jobs EXCEPT ![j] = [jobs[j] EXCEPT !.error = error, !.stage = s]]
        BY <1>0, <1>3, <3>2 DEF Failure, Inv, TypeOK, Job
      <4>2. jobs[j] \in Job
        BY DEF Inv, TypeOK
      <4>3. ASSUME NEW job \in Job, NEW s1 \in Stages
            PROVE  /\ [job EXCEPT !.error = error, !.stage = s1] \in Job
                   /\ [job EXCEPT !.error = error, !.stage = s1].from = job.from
        BY DEF Job
      <4>. QED
        BY <4>1, <4>2, <4>3, PartsHold DEF GoodJobs
    <3>. QED
      BY <3>1, <3>2
  <2>. QED
    BY <1>3, <2>1, PartsHold, FramedStep DEF Failure, StreamGood, data, Inv, TypeOK
<1>. QED
  BY <1>1, <1>2, <1>3 DEF Network

\* The handling of a response.
LEMMA HandleKeepsInv ==
  ASSUME Inv, NEW j \in Jobs, Handle(j)
  PROVE  Inv'
<1>0. /\ {"handling", "handled", "bgDone", "afterBg", "resumeDone", "afterResume",
          "running"} \subseteq Stages
      /\ {"PauseRequested", "Paused", "Running"} \subseteq States
      /\ jobs[j] \in Job
  BY DEF Stages, States, Inv, TypeOK
<1>1. CASE BeginHandling(j)
  <2>1. GoodJobs(jobs', handled)
    <3>1. PICK more \in BOOLEAN :
            jobs' = [jobs EXCEPT ![j] = [jobs[j] EXCEPT !.stage = "handling", !.more = more]]
      BY <1>1 DEF BeginHandling, Inv, TypeOK, Job
    <3>2. ASSUME NEW job \in Job
          PROVE  /\ [job EXCEPT !.stage = "handling", !.more = more] \in Job
                 /\ [job EXCEPT !.stage = "handling", !.more = more].from = job.from
      BY <1>0 DEF Job
    <3>. QED
      BY <1>0, <3>1, <3>2, PartsHold DEF GoodJobs
  <2>2. CachesGood
    BY <1>0, <1>1, PartsHold DEF BeginHandling, CachesGood, Inv, TypeOK, PassesCovered, Job
  <2>. QED
    BY <1>1, <2>1, <2>2, PartsHold, FramedStep DEF BeginHandling, StreamGood, data, Inv, TypeOK
<1>2. CASE EndHandling(j)
  <2>1. jobs[j].from \in Position /\ jobs[j].to \in Position /\ 0 \in Position
    BY <1>0, MaxPosAssumption DEF Job, Position
  <2>2. handled' = handled \cup ((jobs[j].from + 1)..jobs[j].to) /\ token' = jobs[j].to
    BY <1>2 DEF EndHandling
  <2>3. 1..jobs[j].from \subseteq handled /\ handled \subseteq handled'
    BY <2>2 DEF Inv, PassesCovered
  <2>4. 1..token' \subseteq handled'
    BY <2>1, <2>2, <2>3, MaxPosAssumption DEF Position
  <2>5. handled' \subseteq 1..MaxPos
    <3>1. handled \subseteq 1..MaxPos
      BY DEF Inv, TypeOK
    <3>2. (jobs[j].from + 1)..jobs[j].to \subseteq 1..MaxPos
      BY <2>1, MaxPosAssumption DEF Position
    <3>. QED
      BY <2>2, <3>1, <3>2
  <2>6. GoodJobs(jobs', handled')
    <3>1. jobs' = [jobs EXCEPT ![j] = [jobs[j] EXCEPT !.stage = "handled", !.long = FALSE,
                                                      !.from = 0, !.to = 0]]
      BY <1>2 DEF EndHandling, Inv, TypeOK, Job
    <3>2. ASSUME NEW job \in Job
          PROVE  [job EXCEPT !.stage = "handled", !.long = FALSE, !.from = 0, !.to = 0] \in Job
      BY <1>0, <2>1 DEF Job
    <3>3. ASSUME NEW job \in Job
          PROVE  [job EXCEPT !.stage = "handled", !.long = FALSE, !.from = 0, !.to = 0].from = 0
      BY DEF Job
    <3>4. GoodJobs(jobs, handled')
      BY <2>3, PartsHold DEF GoodJobs
    <3>5. 1..0 \subseteq handled'
      OBVIOUS
    <3>. QED
      BY <1>0, <3>1, <3>2, <3>3, <3>4, <3>5 DEF GoodJobs
  <2>. QED
    BY <1>2, <2>1, <2>2, <2>3, <2>4, <2>5, <2>6
    DEF EndHandling, Inv, TypeOK, NoSyncGap, PassesCovered, GoodJobs, blocks
<1>3. CASE SyncForMore(j)
  <2>1. jobs[j].initial \in BOOLEAN
    BY <1>0 DEF Job
  <2>2. StreamGood
    BY <1>0, <1>3, <2>1, PartsHold, MovesAreGood, SyncingIsGood DEF SyncForMore
  <2>. QED
    BY <1>3, <2>2, PartsHold, FramedStep DEF SyncForMore, data
<1>4. CASE CallBackgroundSyncDone(j)
  BY <1>0, <1>4, PartsHold, MovesAreGood, FramedStep
  DEF CallBackgroundSyncDone, StreamGood, data, Inv, TypeOK
<1>5. CASE BackgroundSyncDone(j)
  <2>1. StreamGood /\ state' \in States
    BY <1>0, <1>5, PartsHold, MovesAreGood DEF BackgroundSyncDone, StreamGood, Inv, TypeOK
  <2>2. BlocksGood
    BY <1>5 DEF BackgroundSyncDone, BlocksGood, Inv, TypeOK
  <2>. QED
    BY <1>5, <2>1, <2>2, PartsHold, FramedStep DEF BackgroundSyncDone, data
<1>6. CASE CallResumeDone(j)
  BY <1>0, <1>6, PartsHold, MovesAreGood, FramedStep
  DEF CallResumeDone, StreamGood, data, Inv, TypeOK
<1>7. CASE ResumeDone(j)
  <2>1. StreamGood
    BY <1>0, <1>7, PartsHold, MovesAreGood DEF ResumeDone, StreamGood, Inv, TypeOK
  <2>2. BlocksGood
    BY <1>7 DEF ResumeDone, BlocksGood, Inv, TypeOK
  <2>. QED
    BY <1>7, <2>1, <2>2, PartsHold, FramedStep DEF ResumeDone, data
<1>8. CASE SetRunning(j)
  BY <1>0, <1>8, PartsHold, MovesAreGood, FramedStep
  DEF SetRunning, StreamGood, data, Inv, TypeOK
<1>9. CASE PursueListening(j)
  <2>1. StreamGood
    <3>1. GoodJobs(Freed(j), handled)
      BY <1>0, PartsHold, MovesAreGood
    <3>2. CASE closed \/ state = "Paused"
      BY <1>9, <3>1, <3>2 DEF PursueListening, StreamGood, Inv, TypeOK
    <3>3. CASE ~(closed \/ state = "Paused")
      BY <1>9, <3>1, <3>3, PartsHold, SyncingIsGood DEF PursueListening
    <3>. QED
      BY <3>2, <3>3
  <2>. QED
    BY <1>9, <2>1, PartsHold, FramedStep DEF PursueListening, data
<1>. QED
  BY <1>1, <1>2, <1>3, <1>4, <1>5, <1>6, <1>7, <1>8, <1>9 DEF Handle

\* The rest of handleServerSyncError, and the retries.
LEMMA HandleErrorKeepsInv ==
  ASSUME Inv, NEW j \in Jobs, HandleError(j)
  PROVE  Inv'
<1>0. /\ {"afterBgFail", "retry", "retryNet", "observer"} \subseteq Stages
      /\ {"PauseRequested", "Paused", "InitialSyncFailed", "SyncError",
          "HomeserverNotReachable"} \subseteq States
      /\ GoodJobs(Freed(j), handled) /\ GoodJobs(Cancelled(Freed(j)), handled)
  <2>1. GoodJobs(Freed(j), handled)
    BY PartsHold, MovesAreGood DEF Stages
  <2>. QED
    BY <2>1, CancelledIsGood DEF Stages, States
<1>1. CASE BackgroundSyncFail(j)
  <2>1. StreamGood /\ state' \in States
    BY <1>0, <1>1, PartsHold, MovesAreGood DEF BackgroundSyncFail, StreamGood, Inv, TypeOK
  <2>2. BlocksGood
    BY <1>1 DEF BackgroundSyncFail, BlocksGood, Inv, TypeOK
  <2>. QED
    BY <1>1, <2>1, <2>2, PartsHold, FramedStep DEF BackgroundSyncFail, data
<1>2. CASE InitialSyncFails(j)
  <2>1. StreamGood
    BY <1>0, <1>2 DEF InitialSyncFails, StreamGood, Inv, TypeOK
  <2>. QED
    BY <1>0, <1>2, <2>1, PartsHold, FramedStep DEF InitialSyncFails, data
<1>3. CASE PauseOnCancellation(j)
  <2>1. StreamGood /\ state' \in States
    BY <1>0, <1>3, PartsHold DEF PauseOnCancellation, StreamGood, Inv, TypeOK
  <2>2. BlocksGood
    BY <1>3 DEF PauseOnCancellation, blocks, BlocksGood, Inv, TypeOK
  <2>. QED
    BY <1>3, <2>1, <2>2, PartsHold, FramedStep DEF PauseOnCancellation, data
<1>4. CASE SwitchToLongPoll(j)
  <2>1. StreamGood
    BY <1>0, <1>4, SyncingIsGood DEF SwitchToLongPoll
  <2>. QED
    BY <1>4, <2>1, PartsHold, FramedStep DEF SwitchToLongPoll, data
<1>5. CASE ArmRetry(j)
  <2>1. StreamGood /\ state' \in States
    BY <1>0, <1>5, PartsHold, MovesAreGood DEF ArmRetry, StreamGood, Inv, TypeOK
  <2>. QED
    BY <1>5, <2>1, PartsHold, FramedStep DEF ArmRetry, data
<1>. QED
  BY <1>1, <1>2, <1>3, <1>4, <1>5 DEF HandleError

\* A retry whose delay is over.
LEMMA RetryKeepsInv ==
  ASSUME Inv, NEW j \in Jobs, Retry(j)
  PROVE  Inv'
<1>1. GoodJobs(Freed(j), handled)
  BY PartsHold, MovesAreGood DEF Stages
<1>2. StreamGood
  <2>1. CASE request = None
    BY <1>1, <2>1 DEF Retry, StreamGood, Inv, TypeOK
  <2>2. CASE request # None
    BY <1>1, <2>2, PartsHold, SyncingIsGood DEF Retry
  <2>. QED
    BY <2>1, <2>2
<1>3. state' \in States
  BY PartsHold DEF Retry, States
<1>. QED
  BY <1>2, <1>3, PartsHold, FramedStep DEF Retry, data

\* The first steps of start, and the cache of the background sync service.
LEMMA StartupKeepsInv == ASSUME Inv, Startup PROVE Inv'
<1>1. CASE Started
  <2>1. StreamGood /\ state' \in States
    <3>1. CASE ServerSync(jobs, request, FALSE, TRUE) /\ UNCHANGED state
      BY <3>1, PartsHold, SyncingIsGood
    <3>2. CASE UNCHANGED stream
      BY <1>1, <3>2, PartsHold DEF Started, States
    <3>. QED
      BY <1>1, <3>1, <3>2 DEF Started
  <2>. QED
    BY <1>1, <2>1, PartsHold, FramedStep DEF Started, data
<1>2. CASE HandleCached
  <2>1. /\ handled' = handled \cup ((cached[1] + 1)..cached[2])
        /\ token' = cached[2]
        /\ cacheTask' = [cacheTask EXCEPT !.apply = FALSE]
    BY <1>2 DEF HandleCached
  <2>2. cached[1] \in Position /\ cached[2] \in Position /\ 1..cached[1] \subseteq handled
    BY <1>2 DEF HandleCached, Inv, TypeOK, PassesCovered
  <2>3. token' \in Position /\ 1..token' \subseteq handled' /\ handled \subseteq handled'
    BY <2>1, <2>2, MaxPosAssumption DEF Position
  <2>4. handled' \subseteq 1..MaxPos
    <3>1. handled \subseteq 1..MaxPos
      BY DEF Inv, TypeOK
    <3>2. (cached[1] + 1)..cached[2] \subseteq 1..MaxPos
      BY <2>2, MaxPosAssumption DEF Position
    <3>. QED
      BY <2>1, <3>1, <3>2
  <2>5. cacheTask' \in CacheTask /\ ~cacheTask'.apply
    BY <2>1, PartsHold DEF CacheTask
  <2>. QED
    BY <1>2, <2>3, <2>4, <2>5
    DEF HandleCached, Inv, TypeOK, NoSyncGap, PassesCovered, stream, blocks
<1>3. CASE CacheProcessed
  <2>1. cacheTask.old \in States /\ NoCacheTask \in CacheTask /\ ~NoCacheTask.apply
    BY PartsHold DEF CacheTask, NoCacheTask, States
  <2>2. state' \in States /\ starting' \in BOOLEAN /\ StreamGood /\ BlocksGood
    <3>1. CASE StartFrom
      BY <3>1, StartFromIsGood
    <3>2. CASE Resume(cacheTask.old) /\ UNCHANGED starting
      BY <2>1, <3>2, ResumeIsGood, PartsHold
    <3>. QED
      BY <1>3, <3>1, <3>2 DEF CacheProcessed
  <2>3. CachesGood
    BY <1>3, <2>1, MaxPosAssumption DEF CacheProcessed, CachesGood, Position, Inv, TypeOK
  <2>. QED
    BY <1>3, <2>2, <2>3, PartsHold, FramedStep DEF CacheProcessed, data
<1>. QED
  BY <1>1, <1>2, <1>3 DEF Startup

\* A session that has just opened its store satisfies the invariant.
LEMMA InitInv == ASSUME Init PROVE Inv
<1>1. TypeOK
  <2>1. 0 \in Position /\ 0 \in 0..MaxPrevent /\ "StoreDataReady" \in States
    BY MaxPosAssumption, MaxPreventAssumption DEF Position, States
  <2>2. token \in Position /\ initialCache \in Position /\ serverPos \in Position
    BY <2>1 DEF Init
  <2>3. handled \subseteq 1..MaxPos
    BY <2>2, MaxPosAssumption DEF Init, Position
  <2>4. jobs \in [Jobs -> Job]
    BY FreeJobFacts DEF Init
  <2>5. cacheTask \in CacheTask
    BY DEF Init, CacheTask, NoCacheTask, States
  <2>. QED
    BY <2>1, <2>2, <2>3, <2>4, <2>5 DEF Init, TypeOK
<1>2. NoSyncGap
  BY DEF Init, NoSyncGap
<1>3. PassesCovered
  <2>1. \A j \in Jobs : jobs[j].from = 0
    BY FreeJobFacts DEF Init
  <2>. QED
    BY <2>1 DEF Init, PassesCovered, NoCacheTask
<1>. QED
  BY <1>1, <1>2, <1>3 DEF Inv

\* Every step of the session, or a stuttering one, keeps the invariant.
LEMMA NextKeepsInv == ASSUME Inv, [Next]_vars PROVE Inv'
<1>1. CASE Next
  BY <1>1, AppKeepsInv, EnvironmentKeepsInv, StartupKeepsInv, NetworkKeepsInv,
     HandleKeepsInv, HandleErrorKeepsInv, RetryKeepsInv DEF Next
<1>2. CASE UNCHANGED vars
  BY <1>2, PartsHold, FramedStep DEF vars, caches, data, Inv, TypeOK
<1>. QED
  BY <1>1, <1>2

\* The inductive invariant holds of every behaviour of the session.
THEOREM InvHolds == Spec => []Inv
BY InitInv, NextKeepsInv, PTL DEF Spec

\* Type correctness of the session and its sync loop.
THEOREM TypeCorrect == Spec => []TypeOK
<1>1. Inv => TypeOK
  BY DEF Inv
<1>. QED
  BY <1>1, InvHolds, PTL

\* However the application pauses, resumes, reconnects and closes, and however many
\* passes of the loop race: the store has every event that its token covers.
THEOREM NoGap == Spec => []NoSyncGap
<1>1. Inv => NoSyncGap
  BY DEF Inv
<1>. QED
  BY <1>1, InvHolds, PTL

\* Whatever is still to be handled follows on from what the store has been given.
THEOREM Covered == Spec => []PassesCovered
<1>1. Inv => PassesCovered
  BY DEF Inv
<1>. QED
  BY <1>1, InvHolds, PTL

(***************************************************************************)
(* An application that waits for quiet moments: Orderly is TRUE.           *)
(*                                                                         *)
(* What the session shows (its state), what it remembers (its request, the *)
(* flags) and the passes that exist are set at different moments; OneLoop  *)
(* is not inductive without how the three agree.  InStep says how far what *)
(* is on its way is from the token: the steps that store a token read the  *)
(* stream on from it.                                                      *)
(***************************************************************************)
Live == {"SyncInProgress", "BackgroundSyncInProgress", "Running", "PauseRequested",
         "HomeserverNotReachable", "SyncError"}
AtRest == {"StoreDataReady", "ProcessingBackgroundSyncCache", "Paused", "Closed"}
Broken == {"InitialSyncFailed", "UnknownToken"}
Fetching == {"sent", "answered", "handling"}
Asking == {"sent", "bgFail", "afterBgFail"}
Finishing == {"handled", "bgDone", "afterBg", "resumeDone", "afterResume", "running"}

\* There is one pass at most, and none before the session is ready for it.
OneLoop ==
  /\ \A i, j \in Active : i = j
  /\ Active # {} => ~starting /\ ~cacheTask.on

\* A request on the network, or one that has failed, is the one the session remembers,
\* which forgets those it cancels; only the pass that handles a cached response needs no request.
WhoseRequest ==
  /\ \A j \in Jobs : jobs[j].stage \in Asking => request = j
  /\ \A j \in Jobs : jobs[j].stage = "cancelled" => request = None /\ state \in {"Paused", "Closed"}
  /\ request = None /\ Active # {} => state \in {"SyncInProgress", "Running"}

\* The state tells if there is a pass, and what else is under way.
StateFits ==
  /\ state \in AtRest => Active = {} /\ request = None
  /\ state \in Broken => Active = {}
  /\ starting => state = "SyncInProgress" /\ token = 0
  /\ cacheTask.on <=> state = "ProcessingBackgroundSyncCache"
  /\ closed => state = "Closed"

\* What a pass brings follows the token, and so does what is cached, or it is older.
PassInStep(job) ==
  /\ job.stage \in Fetching => job.from = token
  /\ job.stage \in {"answered", "handling"} =>
       token <= job.to /\ 0 < job.to /\ job.to <= serverPos
InStep ==
  /\ handled = 1..token /\ token <= serverPos /\ 0 < serverPos /\ initialCache <= serverPos
  /\ cached # <<0, 0>> =>
       1 <= cached[1] /\ cached[1] < cached[2] /\ cached[2] <= serverPos /\ token # 0
  /\ cacheTask.on => cached # <<0, 0>>
  /\ cacheTask.apply => cached[1] = token
  /\ \A j \in Jobs : PassInStep(jobs[j])

\* The first response is cached until it has been handled, and nothing but the
\* session's start would take it from there.
CacheAwaits ==
  /\ \A j \in Jobs : jobs[j].stage \in Finishing => token # 0
  /\ token = 0 /\ initialCache # 0 =>
       \/ state \in {"StoreDataReady"} \cup Broken
       \/ starting
       \/ \E j \in Jobs : jobs[j].stage \in {"answered", "handling"}

OrderlyInv == OneLoop /\ WhoseRequest /\ StateFits /\ InStep /\ CacheAwaits

\* No pass but j exists.
Alone(j) == \A k \in Jobs : k # j => jobs[k].stage = "free"

\* While there is a pass it is alone: nothing is left even of a cancelled one.
LEMMA PassIsAlone ==
  ASSUME Inv, OrderlyInv, NEW j \in Active
  PROVE  /\ j \in Jobs /\ Alone(j) /\ ~starting /\ ~cacheTask.on /\ ~closed /\ state \in Live
         /\ jobs[j] \in Job
         /\ request = None => state \in {"SyncInProgress", "Running"}
<1>1. state \in Live
  BY DEF Inv, TypeOK, OrderlyInv, StateFits, Live, AtRest, Broken, States
<1>2. \A k \in Jobs : jobs[k].stage \in Stages
  BY DEF Inv, TypeOK, Job
<1>3. Alone(j)
  BY <1>1, <1>2 DEF OrderlyInv, OneLoop, WhoseRequest, Alone, Active, Pending, Live
<1>. QED
  BY <1>1, <1>3 DEF OrderlyInv, OneLoop, WhoseRequest, StateFits, Active, Inv, TypeOK, Live

\* What is left to show of a step after which there is one pass: j.
LEMMA OnePassLeft ==
  ASSUME NEW j \in Jobs, Alone(j)', jobs'[j].stage \in Pending, ~starting', ~cacheTask'.on, ~closed',
         state' \in Live, request' = None => state' \in {"SyncInProgress", "Running"},
         jobs'[j].stage \in Asking => request' = j, InStep', CacheAwaits'
  PROVE  OrderlyInv'
<1>1. \A k \in Jobs : k \in Active' <=> k = j
  BY DEF Active, Alone, Pending
<1>2. OneLoop'
  BY <1>1 DEF OneLoop, Active
<1>3. WhoseRequest'
  BY <1>1 DEF WhoseRequest, Alone, Pending, Asking
<1>4. StateFits'
  BY DEF StateFits, Live, AtRest, Broken
<1>. QED
  BY <1>2, <1>3, <1>4 DEF OrderlyInv

\* What is left to show of a step after which there is none.
LEMMA NoPassLeft ==
  ASSUME \A k \in Jobs : jobs'[k].stage \in {"free", "cancelled"}, StateFits', InStep', CacheAwaits',
         \A k \in Jobs : jobs'[k].stage = "cancelled" => request' = None /\ state' \in {"Paused", "Closed"}
  PROVE  OrderlyInv'
<1>1. Active' = {}
  BY DEF Active, Pending
<1>. QED
  BY <1>1 DEF OrderlyInv, OneLoop, WhoseRequest, Asking

\* serverSyncWithServerTimeout, when there is no other pass.
Launched(k, initial) ==
  /\ k \in Jobs /\ Alone(k)'
  /\ jobs'[k].initial = initial /\ ~jobs'[k].more /\ jobs'[k].error = "none"
  /\ \/ /\ token = 0 /\ initialCache # 0
        /\ jobs'[k].stage = "answered" /\ jobs'[k].from = 0 /\ jobs'[k].to = initialCache
     \/ /\ token = 0 => initialCache = 0
        /\ jobs'[k].stage = "sent" /\ jobs'[k].from = token /\ request' = k

\* A launch brings one pass, that takes the cached first response if there is one.
LEMMA LaunchIsAlone ==
  ASSUME ~closed, NEW js \in [Jobs -> Job], \A k \in Jobs : js[k].stage = "free",
         NEW req, NEW long, NEW initial, ServerSync(js, req, long, initial)
  PROVE  /\ \E k \in Jobs : Launched(k, initial)
         /\ token = 0 /\ initialCache # 0 => request' = req
<1>1. CASE token = 0 /\ initialCache # 0
  BY <1>1 DEF ServerSync, Launched, Alone, Pass
<1>2. CASE ~(token = 0 /\ initialCache # 0)
  BY <1>2 DEF ServerSync, Launched, Alone, Pass
<1>. QED
  BY <1>1, <1>2

\* A launch keeps the invariant.
LEMMA LaunchKeepsOrder ==
  ASSUME Inv, Inv', OrderlyInv, NEW k, NEW initial, Launched(k, initial),
         UNCHANGED <<serverPos, data, initialCache, closed>>, cached' \in {cached, <<0, 0>>},
         ~starting', ~cacheTask'.on, ~closed, state' \in Live, ~cacheTask'.apply,
         request' = None => state' \in {"SyncInProgress", "Running"}
  PROVE  OrderlyInv'
<1>1. InStep'
  <2>1. PassInStep(jobs[k])'
    BY MaxPosAssumption DEF Launched, PassInStep, Fetching, OrderlyInv, InStep, data, Inv, TypeOK, Position
  <2>2. \A i \in Jobs : i # k => PassInStep(jobs[i])'
    BY DEF Launched, Alone, PassInStep, Fetching
  <2>. QED
    BY <2>1, <2>2 DEF OrderlyInv, InStep, data
<1>2. CacheAwaits'
  BY DEF Launched, Alone, CacheAwaits, Finishing, data
<1>. QED
  BY <1>1, <1>2, OnePassLeft DEF Launched, Pending, Stages, Asking

(***************************************************************************)
(* The steps of an orderly application.                                    *)
(***************************************************************************)
AllFree == \A k \in Jobs : jobs[k].stage = "free"

\* In a state that is at rest or broken only cancelled passes are left, and none
\* of these unless the session is paused or closed.
LEMMA RestIsFree ==
  ASSUME Inv, OrderlyInv, Active = {}
  PROVE  /\ \A k \in Jobs : jobs[k].stage \in {"free", "cancelled"}
         /\ state \notin {"Paused", "Closed"} => AllFree
<1>1. \A k \in Jobs : jobs[k].stage \in {"free", "cancelled"}
  BY DEF Inv, TypeOK, Job, Active, Pending
<1>. QED
  BY <1>1 DEF OrderlyInv, WhoseRequest, AllFree

\* What the session remembers besides its passes, where a step leaves it alone.
LEMMA NoPassInStep ==
  ASSUME Inv, OrderlyInv, \A k \in Jobs : jobs'[k].stage \in {"free", "cancelled"},
         UNCHANGED <<serverPos, data>>, initialCache' \in {initialCache, 0}, cached' \in {cached, <<0, 0>>},
         cacheTask'.on => cached' # <<0, 0>>, cacheTask'.apply => cached'[1] = token
  PROVE  InStep'
<1>1. \A k \in Jobs : PassInStep(jobs[k])'
  BY DEF PassInStep, Fetching
<1>. QED
  BY <1>1 DEF OrderlyInv, InStep, data, Inv, TypeOK, Position

\* resume, when the session has no pass or is asked to go on with the one it has.
LEMMA ResumeKeepsOrder ==
  ASSUME Inv, Inv', OrderlyInv, NEW s, Resume(s),
         UNCHANGED <<serverPos, data, initialCache, closed>>, cached' \in {cached, <<0, 0>>},
         ~starting', ~starting, ~cacheTask'.on, ~cacheTask'.apply, ~closed,
         Active = {} => AllFree, Resumable(s) \/ s = "SyncInProgress",
         state \notin {"SyncInProgress", "Running"},
         token = 0 => state \in {"PauseRequested", "BackgroundSyncInProgress", "Paused"}
  PROVE  OrderlyInv'
<1>1. state' = "SyncInProgress"
  BY DEF Resume
<1>2. CASE Resumable(s) /\ request = None
  <2>1. ServerSync(jobs, None, FALSE, FALSE)
    BY <1>2 DEF Resume
  <2>2. AllFree
    BY <1>2 DEF OrderlyInv, WhoseRequest, Asking
  <2>3. PICK k \in Jobs : Launched(k, FALSE)
    BY <2>1, <2>2, LaunchIsAlone DEF AllFree, Inv, TypeOK
  <2>. QED
    BY <1>1, <2>3, LaunchKeepsOrder DEF Live
<1>3. CASE UNCHANGED stream
  <2>1. CASE Active = {}
    <3>1. \A k \in Jobs : jobs'[k].stage = "free"
      BY <1>3, <2>1 DEF AllFree, stream
    <3>2. InStep'
      BY <3>1, NoPassInStep
    <3>3. CacheAwaits'
      BY <2>1, <3>1 DEF OrderlyInv, CacheAwaits, data, Finishing, Active, Pending, Stages, Broken
    <3>4. StateFits'
      BY <1>1 DEF StateFits, AtRest, Broken
    <3>. QED
      BY <3>1, <3>2, <3>3, <3>4, NoPassLeft
  <2>2. CASE Active # {}
    <3>1. PICK j \in Active : TRUE
      BY <2>2
    <3>2. /\ j \in Jobs /\ Alone(j)' /\ jobs'[j].stage \in Pending
          /\ jobs'[j].stage \in Asking => request' = j
      BY <1>3, <3>1, PassIsAlone DEF stream, Alone, Active, OrderlyInv, WhoseRequest
    <3>3. InStep'
      BY <1>3 DEF OrderlyInv, InStep, PassInStep, data, stream
    <3>4. CacheAwaits'
      BY <1>3, <2>2 DEF OrderlyInv, CacheAwaits, data, stream, StateFits, AtRest, Broken
    <3>. QED
      BY <1>1, <3>2, <3>3, <3>4, OnePassLeft DEF Live
  <2>. QED
    BY <2>1, <2>2
<1>. QED
  BY <1>2, <1>3 DEF Resume

\* start, with a store that has a token or without.
LEMMA StartFromKeepsOrder ==
  ASSUME Inv, Inv', OrderlyInv, StartFrom, AllFree,
         state \in {"StoreDataReady", "ProcessingBackgroundSyncCache", "InitialSyncFailed"},
         UNCHANGED <<serverPos, data, initialCache, closed>>, cached' \in {cached, <<0, 0>>},
         ~cacheTask'.on, ~cacheTask'.apply, ~closed
  PROVE  OrderlyInv'
<1>0. ~starting
  BY DEF OrderlyInv, StateFits
<1>1. CASE token # 0
  <2>1. Resume("SyncInProgress") /\ ~starting'
    BY <1>0, <1>1 DEF StartFrom
  <2>. QED
    BY <1>0, <1>1, <2>1, ResumeKeepsOrder
<1>2. CASE token = 0
  <2>1. state' = "SyncInProgress" /\ starting' /\ UNCHANGED stream
    BY <1>2 DEF StartFrom
  <2>2. \A k \in Jobs : jobs'[k].stage = "free"
    BY <2>1 DEF stream, AllFree
  <2>3. InStep'
    BY <2>2, NoPassInStep
  <2>4. CacheAwaits'
    BY <1>2, <2>1, <2>2 DEF CacheAwaits, Finishing
  <2>5. StateFits'
    BY <1>2, <2>1 DEF StateFits, AtRest, Broken, data
  <2>. QED
    BY <2>2, <2>3, <2>4, <2>5, NoPassLeft
<1>. QED
  BY <1>1, <1>2

\* start and resume, which let the cached responses be handled first.
LEMMA StartKeepsOrder == ASSUME Inv, Inv', OrderlyInv, AppStart PROVE OrderlyInv'
<1>1. Active = {} /\ ~closed /\ ~starting /\ ~cacheTask.on /\ ~cacheTask.apply
  BY DEF AppStart, OrderlyInv, StateFits, AtRest, Broken, Inv, PassesCovered
<1>2. AllFree
  BY <1>1, RestIsFree DEF AppStart
<1>3. CASE state = "InitialSyncFailed" \/ NoCache
  BY <1>1, <1>2, <1>3, StartFromKeepsOrder DEF AppStart, ThroughCache
<1>4. CASE ~(state = "InitialSyncFailed" \/ NoCache)
  <2>1. /\ state' = "ProcessingBackgroundSyncCache" /\ UNCHANGED <<stream, starting>>
        /\ cacheTask'.on /\ cacheTask'.apply = (cached[1] = token)
        /\ state = "StoreDataReady" /\ cached # <<0, 0>>
    BY <1>4 DEF AppStart, ThroughCache, NoCache
  <2>2. \A k \in Jobs : jobs'[k].stage = "free"
    BY <1>2, <2>1 DEF stream, AllFree
  <2>3. InStep'
    BY <2>1, <2>2, NoPassInStep DEF AppStart
  <2>4. CacheAwaits'
    BY <2>1, <2>2 DEF AppStart, CacheAwaits, Finishing, data, OrderlyInv, InStep
  <2>5. StateFits'
    BY <1>1, <2>1, <2>2 DEF AppStart, StateFits, AtRest, Broken, OrderlyInv, stream, Active, Pending
  <2>. QED
    BY <2>2, <2>3, <2>4, <2>5, NoPassLeft
<1>. QED
  BY <1>3, <1>4

\* resume.
LEMMA ResumingKeepsOrder == ASSUME Orderly, Inv, Inv', OrderlyInv, AppResume PROVE OrderlyInv'
<1>1. ~closed /\ ~starting /\ ~cacheTask.on /\ ~cacheTask.apply
  BY DEF AppResume, OrderlyInv, StateFits, AtRest, Broken, Inv, PassesCovered
<1>2. Active = {} => AllFree
  BY <1>1, RestIsFree DEF AppResume, AllOver, AllFree
<1>3. CASE NoCache
  <2>1. Resume(state) /\ ~starting' /\ ~cacheTask'.on /\ ~cacheTask'.apply
    BY <1>1, <1>3 DEF AppResume, ThroughCache
  <2>2. Resumable(state) /\ state \notin {"SyncInProgress", "Running"}
    BY DEF AppResume, Resumable
  <2>. QED
    BY <1>1, <1>2, <2>1, <2>2, ResumeKeepsOrder DEF AppResume
<1>4. CASE ~NoCache
  <2>1. state = "Paused" /\ Active = {} /\ AllFree
    BY <1>2, <1>4 DEF AppResume, OrderlyInv, StateFits, AtRest
  <2>2. /\ state' = "ProcessingBackgroundSyncCache" /\ UNCHANGED <<stream, starting>>
        /\ cacheTask'.on /\ cacheTask'.apply = (cached[1] = token) /\ cached # <<0, 0>>
    BY <1>4, <2>1 DEF AppResume, ThroughCache, NoCache
  <2>3. \A k \in Jobs : jobs'[k].stage = "free"
    BY <2>1, <2>2 DEF stream, AllFree
  <2>4. InStep'
    BY <2>2, <2>3, NoPassInStep DEF AppResume
  <2>5. CacheAwaits'
    BY <2>2, <2>3 DEF AppResume, CacheAwaits, Finishing, data, OrderlyInv, InStep
  <2>6. StateFits'
    BY <1>1, <2>1, <2>2, <2>3
    DEF AppResume, StateFits, AtRest, Broken, OrderlyInv, stream, Active, Pending
  <2>. QED
    BY <2>3, <2>4, <2>5, <2>6, NoPassLeft
<1>. QED
  BY <1>3, <1>4

\* Nothing but the request on the network is there when the application acts.
LEMMA QuietFacts ==
  ASSUME Orderly, Inv, OrderlyInv, Quiet
  PROVE  /\ \A k \in Jobs : Cancelled(jobs)[k].stage \in {"free", "cancelled"}
         /\ \A k \in Jobs : jobs[k].stage = "sent" => jobs[k].from = token
         /\ \A k \in Jobs : jobs[k].stage \notin Finishing \cup {"answered", "handling"}
         /\ ~starting /\ ~cacheTask.on
<1>1. \A k \in Jobs : jobs[k].stage \in {"free", "sent", "cancelled"} /\ jobs[k] \in Job
  BY DEF Quiet, Inv, TypeOK
<1>2. \A k \in Jobs : Cancelled(jobs)[k].stage \in {"free", "cancelled"}
  <2>. TAKE k \in Jobs
  <2>1. CASE jobs[k].stage = "sent"
    BY <1>1, <2>1 DEF Cancelled, Job, OrderlyInv, WhoseRequest, Asking
  <2>2. CASE jobs[k].stage # "sent"
    BY <1>1, <2>2 DEF Cancelled
  <2>. QED
    BY <2>1, <2>2
<1>. QED
  BY <1>1, <1>2 DEF Quiet, OrderlyInv, InStep, PassInStep, Fetching, Finishing

\* pause and close: the request is cancelled and forgotten.
LEMMA CancellingKeepsOrder ==
  ASSUME Orderly, Inv, Inv', OrderlyInv, Quiet, jobs' = Cancelled(jobs), request' = None,
         UNCHANGED <<serverPos, data, cached, cacheTask, starting>>, initialCache' \in {initialCache, 0},
         state' \in {"Paused", "Closed"}, closed' => state' = "Closed",
         initialCache' # 0 /\ token = 0 => state \notin {"StoreDataReady"} \cup Broken
  PROVE  OrderlyInv'
<1>1. /\ \A k \in Jobs : jobs'[k].stage \in {"free", "cancelled"}
      /\ ~starting' /\ ~cacheTask'.on /\ ~cacheTask'.apply
  BY QuietFacts DEF Inv, PassesCovered
<1>2. InStep'
  BY <1>1, NoPassInStep
<1>3. CacheAwaits'
  BY <1>1, QuietFacts DEF CacheAwaits, OrderlyInv, data, Finishing
<1>4. StateFits'
  BY <1>1 DEF StateFits, AtRest, Broken, Active, Pending
<1>. QED
  BY <1>1, <1>2, <1>3, <1>4, NoPassLeft

\* A change of what the session shows, and of nothing else.
LEMMA ShownKeepsOrder ==
  ASSUME Inv, OrderlyInv, UNCHANGED <<serverPos, stream, data, starting, closed, caches>>,
         state \in Live, state' \in Live, ~starting,
         request = None /\ Active # {} => state' \in {"SyncInProgress", "Running"}
  PROVE  OrderlyInv'
<1>1. OneLoop' /\ WhoseRequest'
  BY DEF OrderlyInv, OneLoop, WhoseRequest, stream, caches, Active, Live
<1>2. StateFits'
  BY DEF OrderlyInv, StateFits, stream, caches, Live, AtRest, Broken
<1>3. InStep'
  BY DEF OrderlyInv, InStep, PassInStep, stream, caches, data
<1>4. CacheAwaits'
  BY DEF OrderlyInv, CacheAwaits, stream, caches, data, Live, Broken
<1>. QED
  BY <1>1, <1>2, <1>3, <1>4 DEF OrderlyInv

\* pause, at once or when nobody prevents it any more.
LEMMA PausingKeepsOrder == ASSUME Orderly, Inv, Inv', OrderlyInv, AppPause PROVE OrderlyInv'
<1>0. state \in Live /\ ~starting /\ ~closed
  BY QuietFacts DEF AppPause, Pauseable, Live, OrderlyInv, StateFits
<1>1. CASE preventPauseCount > 0
  <2>1. request = None => Active = {}
    BY QuietFacts, JobsAssumption DEF AppPause, Quiet, Active, Pending, OrderlyInv, WhoseRequest, Asking
  <2>2. state' = "PauseRequested" /\ UNCHANGED <<stream, blocks>>
    BY <1>1 DEF AppPause, Pause
  <2>. QED
    BY <1>0, <2>1, <2>2, ShownKeepsOrder DEF AppPause, Live
<1>2. CASE ~(preventPauseCount > 0)
  BY <1>0, <1>2, CancellingKeepsOrder DEF AppPause, Pause, caches, Live, Broken
<1>. QED
  BY <1>1, <1>2

\* backgroundSync launches its pass from a paused session, where nothing is cached.
LEMMA BackgroundSyncKeepsOrder ==
  ASSUME Orderly, Inv, Inv', OrderlyInv, AppBackgroundSync
  PROVE  OrderlyInv'
<1>1. /\ state = "Paused" /\ ~starting /\ ~cacheTask.on /\ ~closed /\ AllFree
      /\ token = 0 => initialCache = 0
  BY DEF AppBackgroundSync, AllOver, OrderlyInv, StateFits, CacheAwaits, AllFree, Broken
<1>2. PICK k \in Jobs : Launched(k, FALSE)
  BY <1>1, LaunchIsAlone DEF AppBackgroundSync, AllFree, Inv, TypeOK
<1>3. request' # None
  BY <1>1, <1>2, JobsAssumption DEF Launched
<1>4. ~cacheTask.apply
  BY <1>1 DEF Inv, PassesCovered
<1>. QED
  BY <1>1, <1>2, <1>3, <1>4, LaunchKeepsOrder DEF AppBackgroundSync, caches, Live

\* close.
LEMMA ClosingKeepsOrder == ASSUME Orderly, Inv, Inv', OrderlyInv, AppClose PROVE OrderlyInv'
BY CancellingKeepsOrder DEF AppClose, data

\* retainPreventPause and releasePreventPause, which may pause.
LEMMA ReleasingKeepsOrder ==
  ASSUME Orderly, Inv, Inv', OrderlyInv, RetainPreventPause \/ ReleasePreventPause
  PROVE  OrderlyInv'
<1>1. CASE UNCHANGED <<serverPos, state, stream, data, starting, closed, caches>>
  BY <1>1 DEF OrderlyInv, OneLoop, WhoseRequest, StateFits, InStep, PassInStep, CacheAwaits, stream, data,
              caches, Active
<1>2. CASE ~UNCHANGED <<serverPos, state, stream, data, starting, closed, caches>>
  <2>1. /\ Quiet /\ jobs' = Cancelled(jobs) /\ request' = None /\ state' = "Paused"
        /\ state = "PauseRequested" /\ UNCHANGED <<serverPos, data, starting, closed, caches>>
    BY <1>2 DEF RetainPreventPause, ReleasePreventPause
  <2>2. ~closed
    BY <2>1 DEF OrderlyInv, StateFits
  <2>. QED
    BY <2>1, <2>2, CancellingKeepsOrder DEF caches, Broken
<1>. QED
  BY <1>1, <1>2

\* What an orderly application does keeps the session in order.
LEMMA AppKeepsOrder == ASSUME Orderly, Inv, Inv', OrderlyInv, App PROVE OrderlyInv'
<1>1. ~AppReconnect
  BY DEF AppReconnect
<1>. QED
  BY <1>1, StartKeepsOrder, PausingKeepsOrder, ResumingKeepsOrder, BackgroundSyncKeepsOrder,
     ClosingKeepsOrder, ReleasingKeepsOrder DEF App

(***************************************************************************)
(* The steps of the session and of the rest of the world.                  *)
(***************************************************************************)
LEMMA EnvironmentKeepsOrder ==
  ASSUME Inv, OrderlyInv, ServerAdvance \/ BackgroundService
  PROVE  OrderlyInv'
<1>0. UNCHANGED <<state, stream, data, starting, closed, cacheTask, initialCache>>
  BY DEF ServerAdvance, BackgroundService, caches
<1>1. OneLoop' /\ WhoseRequest' /\ StateFits' /\ CacheAwaits'
  BY <1>0 DEF OrderlyInv, OneLoop, WhoseRequest, StateFits, CacheAwaits, stream, data, Active
<1>2. CASE ServerAdvance
  <2>1. serverPos' = serverPos + 1 /\ serverPos \in Nat /\ cached' = cached
    BY <1>2 DEF ServerAdvance, caches, Inv, TypeOK, Position
  <2>2. \A j \in Jobs : PassInStep(jobs[j])'
    BY <1>0, <2>1 DEF PassInStep, OrderlyInv, InStep, stream, data, Inv, TypeOK, Job, Position
  <2>3. InStep'
    BY <1>0, <2>1, <2>2 DEF OrderlyInv, InStep, data, Inv, TypeOK, Position
  <2>. QED
    BY <1>1, <2>3 DEF OrderlyInv
<1>3. CASE BackgroundService
  <2>1. PICK from \in 1..token : cached' = <<from, serverPos>>
    BY <1>3 DEF BackgroundService
  <2>2. from \in Nat /\ 1 <= from /\ from < serverPos /\ token # 0 /\ UNCHANGED serverPos /\ ~cacheTask.apply
    BY <1>3, <2>1 DEF BackgroundService, Inv, TypeOK, Position, PassesCovered
  <2>3. \A j \in Jobs : PassInStep(jobs[j])'
    BY <1>0, <2>2 DEF PassInStep, OrderlyInv, InStep, stream, data
  <2>4. InStep'
    BY <1>0, <2>1, <2>2, <2>3 DEF OrderlyInv, InStep, data, Inv, TypeOK, Position
  <2>. QED
    BY <1>1, <2>4 DEF OrderlyInv
<1>. QED
  BY <1>2, <1>3

\* A pass that goes on to another stage keeps the invariant, if that may be its stage.
LEMMA GoingOnKeepsOrder ==
  ASSUME Inv, Inv', OrderlyInv, NEW j \in Active, \A k \in Jobs : k # j => jobs'[k] = jobs[k],
         jobs'[j].stage \in Pending \ Fetching, jobs'[j].stage \in Finishing => token # 0,
         jobs'[j].stage \in Asking => request' = j,
         ~(token = 0 /\ initialCache # 0 /\ jobs[j].stage \in {"answered", "handling"}),
         UNCHANGED <<serverPos, data, starting, closed, caches>>, state' \in Live,
         request' = None => state' \in {"SyncInProgress", "Running"}
  PROVE  OrderlyInv'
<1>1. /\ Alone(j) /\ Alone(j)' /\ ~starting /\ ~cacheTask.on /\ ~closed /\ state \in Live
  BY PassIsAlone DEF Alone
<1>2. InStep'
  <2>1. \A k \in Jobs : PassInStep(jobs[k])'
    BY <1>1 DEF Alone, PassInStep, Fetching
  <2>. QED
    BY <2>1 DEF OrderlyInv, InStep, data, caches
<1>3. CacheAwaits'
  BY <1>1 DEF Alone, OrderlyInv, CacheAwaits, data, caches, Finishing, Live, Broken
<1>. QED
  BY <1>1, <1>2, <1>3, OnePassLeft DEF Active, Fetching, caches

\* A pass that ends leaves none.
LEMMA EndingKeepsOrder ==
  ASSUME Inv, Inv', OrderlyInv, NEW j \in Active,
         \A k \in Jobs : k # j => jobs'[k].stage = "free", jobs'[j].stage = "free",
         jobs[j].stage \notin {"answered", "handling"},
         UNCHANGED <<serverPos, data, starting, closed, caches>>,
         state' \in Live \cup Broken \/ (state' = "Paused" /\ request' = None)
  PROVE  OrderlyInv'
<1>1. /\ Alone(j) /\ j \in Jobs /\ ~starting /\ ~cacheTask.on /\ ~closed /\ state \in Live
  BY PassIsAlone
<1>2. \A k \in Jobs : jobs'[k].stage = "free"
  BY DEF Alone
<1>3. InStep'
  BY <1>2, NoPassInStep DEF caches, OrderlyInv, InStep
<1>4. CacheAwaits'
  BY <1>1, <1>2 DEF Alone, OrderlyInv, CacheAwaits, data, caches, Finishing, Live, Broken
<1>5. StateFits'
  BY <1>1, <1>2 DEF StateFits, AtRest, Broken, Live, Active, Pending, caches
<1>. QED
  BY <1>2, <1>3, <1>4, <1>5, NoPassLeft

\* The outcome of a request that the session has cancelled and forgotten.
LEMMA OutcomeKeepsOrder ==
  ASSUME Inv, OrderlyInv, NEW j \in Jobs, jobs[j].stage = "cancelled", jobs' = Freed(j),
         UNCHANGED <<serverPos, state, request, data, starting, closed, caches>>
  PROVE  OrderlyInv'
<1>1. request = None /\ state \in {"Paused", "Closed"} /\ Active = {}
  BY DEF OrderlyInv, WhoseRequest, StateFits, AtRest
<1>2. \A k \in Jobs : jobs'[k].stage = "free" \/ jobs'[k] = jobs[k]
  BY DEF Freed, FreeJob, Pass, Inv, TypeOK
<1>3. \A k \in Jobs : jobs'[k].stage \in {"free", "cancelled"}
  BY <1>1, <1>2, RestIsFree
<1>4. InStep'
  BY <1>3, NoPassInStep DEF caches, OrderlyInv, InStep
<1>5. CacheAwaits'
  BY <1>1, <1>3 DEF OrderlyInv, CacheAwaits, data, caches, Finishing, Active, Pending, Stages
<1>6. StateFits'
  BY <1>3 DEF OrderlyInv, StateFits, AtRest, Broken, Active, Pending, caches, data
<1>. QED
  BY <1>1, <1>3, <1>4, <1>5, <1>6, NoPassLeft

\* What the network brings: a response or a failure, in time or too late.
LEMMA NetworkKeepsOrder ==
  ASSUME Inv, Inv', OrderlyInv, NEW j \in Jobs, Network(j)
  PROVE  OrderlyInv'
<1>0. /\ jobs[j].stage = "sent" => j \in Active /\ request = j /\ request # None
      /\ jobs \in [Jobs -> Job] /\ jobs[j] \in Job
  BY JobsAssumption DEF Active, Pending, Stages, OrderlyInv, WhoseRequest, Asking, Inv, TypeOK
<1>1. CASE Response(j)
  <2>1. CASE jobs[j].stage = "cancelled"
    <3>1. request = None
      BY <2>1 DEF OrderlyInv, WhoseRequest, Asking
    <3>. QED
      BY <1>1, <2>1, <3>1, OutcomeKeepsOrder DEF Response
  <2>2. CASE jobs[j].stage = "sent"
    <3>1. jobs' = [jobs EXCEPT ![j].stage = "answered", ![j].to = serverPos]
      BY <1>0, <1>1, <2>2 DEF Response
    <3>2. /\ \A k \in Jobs : k # j => jobs'[k] = jobs[k]
          /\ jobs'[j].stage = "answered" /\ jobs'[j].to = serverPos /\ jobs'[j].from = jobs[j].from
      BY <1>0, <3>1 DEF Job
    <3>3. Alone(j)' /\ Alone(j) /\ ~starting /\ ~cacheTask.on /\ ~closed /\ state \in Live
      BY <1>0, <2>2, <3>2, PassIsAlone DEF Alone
    <3>4. InStep'
      <4>1. PassInStep(jobs[j])'
        BY <1>1, <2>2, <3>2 DEF Response, PassInStep, OrderlyInv, InStep, data, Fetching, Inv, TypeOK, Position
      <4>2. \A k \in Jobs : k # j => PassInStep(jobs[k])'
        BY <3>3 DEF Alone, PassInStep, Fetching
      <4>. QED
        BY <1>1, <4>1, <4>2 DEF Response, OrderlyInv, InStep, data, caches
    <3>5. CacheAwaits'
      BY <1>1, <3>2, <3>3 DEF Response, Alone, CacheAwaits, Finishing
    <3>. QED
      BY <1>0, <1>1, <2>2, <3>2, <3>3, <3>4, <3>5, OnePassLeft DEF Response, Pending, Stages, caches, Asking
  <2>. QED
    BY <1>1, <2>1, <2>2 DEF Response
<1>2. CASE UnknownToken(j)
  <2>1. j \in Active /\ request = j /\ request # None /\ Alone(j)
    BY <1>0, <1>2, PassIsAlone DEF UnknownToken
  <2>2. \A k \in Jobs : jobs'[k].stage = "free"
    BY <1>0, <1>2, <2>1 DEF UnknownToken, Freed, FreeJob, Pass, Alone
  <2>. QED
    BY <1>2, <2>1, <2>2, EndingKeepsOrder DEF UnknownToken, Broken
<1>3. ASSUME NEW error \in Errors, Failure(j, error) PROVE OrderlyInv'
  <2>1. CASE jobs[j].stage = "cancelled"
    <3>1. request = None
      BY <2>1 DEF OrderlyInv, WhoseRequest, Asking
    <3>. QED
      BY <1>3, <2>1, <3>1, OutcomeKeepsOrder DEF Failure
  <2>2. CASE jobs[j].stage = "sent"
    <3>1. /\ \A k \in Jobs : k # j => jobs'[k] = jobs[k]
          /\ jobs'[j].stage \in {"bgFail", "afterBgFail"}
      BY <1>0, <1>3, <2>2 DEF Failure, Job
    <3>2. state \in Live
      BY <1>0, <2>2, PassIsAlone
    <3>. QED
      BY <1>0, <1>3, <2>2, <3>1, <3>2, GoingOnKeepsOrder
      DEF Failure, Pending, Stages, Fetching, Finishing, Asking
  <2>. QED
    BY <1>3, <2>1, <2>2 DEF Failure
<1>. QED
  BY <1>1, <1>2, <1>3 DEF Network

\* A pass launched by one that ends with it, which had been handled or has failed.
LEMMA LaunchingNextKeepsOrder ==
  ASSUME Inv, Inv', OrderlyInv, NEW j \in Active, jobs[j].stage \notin {"answered", "handling"},
         NEW js, js \in {Freed(j), Cancelled(Freed(j))}, NEW req, NEW long, NEW initial,
         ServerSync(js, req, long, initial),
         UNCHANGED <<serverPos, data, starting, closed, caches>>, state' \in Live
  PROVE  OrderlyInv' /\ \E k \in Jobs : Launched(k, initial) /\ request' = k /\ jobs'[k].stage = "sent"
<1>1. /\ Alone(j) /\ j \in Jobs /\ ~starting /\ ~cacheTask.on /\ ~cacheTask.apply /\ ~closed /\ state \in Live
  BY PassIsAlone DEF Inv, PassesCovered
<1>2. js \in [Jobs -> Job] /\ \A k \in Jobs : js[k].stage = "free"
  <2>1. Freed(j) \in [Jobs -> Job] /\ \A k \in Jobs : Freed(j)[k].stage = "free"
    BY <1>1, FreeJobFacts DEF Freed, Alone, FreeJob, Pass, Inv, TypeOK
  <2>2. Cancelled(Freed(j)) = Freed(j)
    BY <2>1 DEF Cancelled
  <2>. QED
    BY <2>1, <2>2
<1>3. PICK k \in Jobs : Launched(k, initial)
  BY <1>1, <1>2, LaunchIsAlone
<1>4. token = 0 => initialCache = 0
  BY <1>1 DEF OrderlyInv, CacheAwaits, Alone, Live, Broken
<1>5. request' = k /\ request' # None /\ jobs'[k].stage = "sent"
  BY <1>3, <1>4, JobsAssumption DEF Launched
<1>. QED
  BY <1>1, <1>3, <1>5, LaunchKeepsOrder DEF caches

\* What moves, waits or is freed; the rest stays.
LEMMA MovedFacts ==
  ASSUME Inv, NEW j \in Jobs, NEW s
  PROVE  /\ \A k \in Jobs : k # j => /\ Moved(j, s)[k] = jobs[k] /\ Waiting(j, s)[k] = jobs[k]
                                   /\ Freed(j)[k] = jobs[k]
         /\ Moved(j, s)[j].stage = s /\ Waiting(j, s)[j].stage = s /\ Freed(j)[j].stage = "free"
         /\ Moved(j, s)[j].initial = jobs[j].initial /\ Moved(j, s)[j].more = jobs[j].more
         /\ Moved(j, s)[j].error = jobs[j].error
BY DEF Moved, Waiting, Freed, FreeJob, Pass, Inv, TypeOK, Job

\* The handling of a response.
LEMMA HandleKeepsOrder ==
  ASSUME Inv, Inv', OrderlyInv, NEW j \in Jobs, Handle(j)
  PROVE  OrderlyInv'
<1>0. j \in Active /\ jobs \in [Jobs -> Job] /\ jobs[j] \in Job
  BY DEF Handle, BeginHandling, EndHandling, SyncForMore, CallBackgroundSyncDone, BackgroundSyncDone,
         CallResumeDone, ResumeDone, SetRunning, PursueListening, Active, Pending, Stages, Inv, TypeOK
<1>1. /\ Alone(j) /\ ~starting /\ ~cacheTask.on /\ ~closed /\ state \in Live
      /\ request = None => state \in {"SyncInProgress", "Running"}
  BY <1>0, PassIsAlone
<1>2. jobs[j].stage \in Finishing => token # 0
  BY DEF OrderlyInv, CacheAwaits
<1>3. Freed(j)[j].stage = "free" /\ \A k \in Jobs : k # j => Freed(j)[k].stage = "free"
  BY <1>1, MovedFacts DEF Alone
<1>4. CASE BeginHandling(j)
  <2>1. /\ \A k \in Jobs : k # j => jobs'[k] = jobs[k]
        /\ jobs'[j].stage = "handling" /\ jobs'[j].from = jobs[j].from /\ jobs'[j].to = jobs[j].to
    BY <1>0, <1>4 DEF BeginHandling, Job
  <2>2. jobs[j].stage = "answered" /\ PassInStep(jobs[j])
    BY <1>4 DEF BeginHandling, OrderlyInv, InStep
  <2>3. InStep'
    <3>1. PassInStep(jobs[j])'
      BY <1>4, <2>1, <2>2 DEF BeginHandling, PassInStep, data, Fetching
    <3>2. \A k \in Jobs : k # j => PassInStep(jobs[k])'
      BY <1>1, <2>1 DEF Alone, PassInStep, Fetching
    <3>3. initialCache' <= serverPos
      BY <1>4, <2>2 DEF BeginHandling, OrderlyInv, InStep, PassInStep
    <3>. QED
      BY <1>4, <3>1, <3>2, <3>3 DEF BeginHandling, OrderlyInv, InStep, data
  <2>4. CacheAwaits'
    BY <1>1, <2>1 DEF Alone, CacheAwaits, Finishing
  <2>. QED
    BY <1>1, <1>4, <2>1, <2>3, <2>4, OnePassLeft DEF BeginHandling, Alone, Pending, Stages, Asking
<1>5. CASE EndHandling(j)
  <2>1. /\ \A k \in Jobs : k # j => jobs'[k] = jobs[k]
        /\ jobs'[j].stage = "handled"
    BY <1>0, <1>5 DEF EndHandling, Job
  <2>2. jobs[j].from = token /\ token <= jobs[j].to /\ 0 < jobs[j].to /\ jobs[j].to <= serverPos
    BY <1>5 DEF EndHandling, OrderlyInv, InStep, PassInStep, Fetching
  <2>3. handled' = 1..token' /\ token' = jobs[j].to
    BY <1>5, <2>2 DEF EndHandling, OrderlyInv, InStep, Inv, TypeOK, Position
  <2>4. InStep'
    <3>1. \A k \in Jobs : PassInStep(jobs[k])'
      BY <1>1, <2>1 DEF Alone, PassInStep, Fetching
    <3>2. ~cacheTask'.apply /\ UNCHANGED <<serverPos, cacheTask, cached>> /\ initialCache' = 0
      BY <1>1, <1>5 DEF EndHandling, Inv, PassesCovered
    <3>3. /\ cached # <<0, 0>> => 1 <= cached[1] /\ cached[1] < cached[2] /\ cached[2] <= serverPos
          /\ cacheTask.on => cached # <<0, 0>>
      BY DEF OrderlyInv, InStep
    <3>4. jobs[j].to \in Nat /\ serverPos \in Nat
      BY <1>0 DEF Inv, TypeOK, Position, Job
    <3>. QED
      BY <2>2, <2>3, <3>1, <3>2, <3>3, <3>4 DEF InStep
  <2>5. CacheAwaits'
    <3>1. token' # 0
      BY <2>2, <2>3
    <3>. QED
      BY <3>1 DEF CacheAwaits
  <2>. QED
    BY <1>1, <1>5, <2>1, <2>4, <2>5, OnePassLeft DEF EndHandling, Alone, Pending, Stages, Asking
<1>6. CASE SyncForMore(j)
  BY <1>0, <1>1, <1>6, LaunchingNextKeepsOrder DEF SyncForMore
<1>7. CASE CallBackgroundSyncDone(j)
  BY <1>0, <1>1, <1>2, <1>7, MovedFacts, GoingOnKeepsOrder
  DEF CallBackgroundSyncDone, Pending, Stages, Fetching, Finishing, Asking
<1>8. CASE BackgroundSyncDone(j)
  <2>1. CASE state = "BackgroundSyncInProgress" /\ ~(preventPauseCount > 0)
    BY <1>0, <1>3, <1>8, <2>1, EndingKeepsOrder DEF BackgroundSyncDone
  <2>2. CASE ~(state = "BackgroundSyncInProgress" /\ ~(preventPauseCount > 0))
    BY <1>0, <1>1, <1>2, <1>8, <2>2, MovedFacts, GoingOnKeepsOrder
    DEF BackgroundSyncDone, Pending, Stages, Fetching, Finishing, Asking, Live
  <2>. QED
    BY <2>1, <2>2
<1>9. CASE CallResumeDone(j)
  BY <1>0, <1>1, <1>2, <1>9, MovedFacts, GoingOnKeepsOrder
  DEF CallResumeDone, Pending, Stages, Fetching, Finishing, Asking
<1>10. CASE ResumeDone(j)
  <2>1. jobs' = Moved(j, "afterResume")
    BY <1>1, <1>10 DEF ResumeDone, Live
  <2>. QED
    BY <1>0, <1>1, <1>2, <1>10, <2>1, MovedFacts, GoingOnKeepsOrder
    DEF ResumeDone, Pending, Stages, Fetching, Finishing, Asking
<1>11. CASE SetRunning(j)
  BY <1>0, <1>1, <1>2, <1>11, MovedFacts, GoingOnKeepsOrder
  DEF SetRunning, Pending, Stages, Fetching, Finishing, Asking, Live
<1>12. CASE PursueListening(j)
  <2>1. ServerSync(Freed(j), request, ~jobs[j].more, FALSE)
    BY <1>1, <1>12 DEF PursueListening, Live
  <2>. QED
    BY <1>0, <1>1, <1>12, <2>1, LaunchingNextKeepsOrder DEF PursueListening
<1>. QED
  BY <1>4, <1>5, <1>6, <1>7, <1>8, <1>9, <1>10, <1>11, <1>12 DEF Handle

\* The handling of a failure.
LEMMA HandleErrorKeepsOrder ==
  ASSUME Inv, Inv', OrderlyInv, NEW j \in Jobs, HandleError(j)
  PROVE  OrderlyInv'
<1>0. j \in Active /\ jobs \in [Jobs -> Job] /\ jobs[j].stage \in {"bgFail", "afterBgFail"}
  BY DEF HandleError, BackgroundSyncFail, InitialSyncFails, PauseOnCancellation, SwitchToLongPoll, ArmRetry,
         Failed, Active, Pending, Stages, Inv, TypeOK
<1>1. /\ Alone(j) /\ ~starting /\ ~cacheTask.on /\ ~closed /\ state \in Live
      /\ request = None => state \in {"SyncInProgress", "Running"}
  BY <1>0, PassIsAlone
<1>2. \A k \in Jobs : Freed(j)[k].stage = "free" /\ Cancelled(Freed(j))[k].stage = "free"
  BY <1>1, MovedFacts DEF Alone, Cancelled
<1>3. request = j /\ request # None
  BY <1>0, JobsAssumption DEF OrderlyInv, WhoseRequest, Asking
<1>4. CASE BackgroundSyncFail(j)
  <2>1. CASE state = "BackgroundSyncInProgress" /\ ~(preventPauseCount > 0)
    BY <1>0, <1>2, <1>4, <2>1, EndingKeepsOrder DEF BackgroundSyncFail
  <2>2. CASE ~(state = "BackgroundSyncInProgress" /\ ~(preventPauseCount > 0))
    BY <1>0, <1>1, <1>3, <1>4, <2>2, MovedFacts, GoingOnKeepsOrder
    DEF BackgroundSyncFail, Pending, Stages, Fetching, Finishing, Asking, Live
  <2>. QED
    BY <2>1, <2>2
<1>5. CASE InitialSyncFails(j)
  BY <1>0, <1>2, <1>5, EndingKeepsOrder DEF InitialSyncFails, Broken
<1>6. CASE PauseOnCancellation(j)
  BY <1>0, <1>1, <1>2, <1>6, EndingKeepsOrder DEF PauseOnCancellation, Live
<1>7. CASE SwitchToLongPoll(j)
  BY <1>0, <1>1, <1>7, LaunchingNextKeepsOrder DEF SwitchToLongPoll
<1>8. CASE ArmRetry(j)
  BY <1>0, <1>1, <1>3, <1>8, MovedFacts, GoingOnKeepsOrder
  DEF ArmRetry, Pending, Stages, Fetching, Finishing, Asking, Live
<1>. QED
  BY <1>4, <1>5, <1>6, <1>7, <1>8 DEF HandleError

\* A retry whose delay is over takes the place of the pass that failed.
LEMMA RetryKeepsOrder ==
  ASSUME Inv, Inv', OrderlyInv, NEW j \in Jobs, Retry(j)
  PROVE  OrderlyInv'
<1>0. j \in Active /\ jobs[j].stage \notin {"answered", "handling"}
  BY DEF Retry, Active, Pending, Stages
<1>1. Alone(j) /\ state \in Live
  BY <1>0, PassIsAlone
<1>2. \A k \in Jobs : Freed(j)[k].stage = "free"
  BY <1>1, MovedFacts DEF Alone
<1>3. CASE request = None
  BY <1>0, <1>1, <1>2, <1>3, EndingKeepsOrder DEF Retry
<1>4. CASE request # None
  BY <1>0, <1>1, <1>4, LaunchingNextKeepsOrder DEF Retry, Live
<1>. QED
  BY <1>3, <1>4

\* The first request, and what was cached by the background sync service.
LEMMA StartupKeepsOrder ==
  ASSUME Inv, Inv', OrderlyInv, Startup
  PROVE  OrderlyInv'
<1>1. CASE Started
  <2>1. /\ starting /\ state = "SyncInProgress" /\ token = 0 /\ ~closed /\ ~cacheTask.on /\ ~cacheTask.apply
        /\ Active = {} /\ AllFree
    BY <1>1, RestIsFree DEF Started, OrderlyInv, OneLoop, StateFits, Inv, PassesCovered
  <2>2. CASE ServerSync(jobs, request, FALSE, TRUE) /\ UNCHANGED state
    <3>1. PICK k \in Jobs : Launched(k, TRUE)
      BY <2>1, <2>2, LaunchIsAlone DEF AllFree, Inv, TypeOK
    <3>. QED
      BY <1>1, <2>1, <2>2, <3>1, LaunchKeepsOrder DEF Started, caches, Live
  <2>3. CASE state' \in Broken /\ UNCHANGED stream
    <3>1. \A k \in Jobs : jobs'[k].stage = "free"
      BY <2>1, <2>3 DEF stream, AllFree
    <3>2. InStep'
      BY <1>1, <2>1, <3>1, NoPassInStep DEF Started, caches
    <3>3. CacheAwaits'
      BY <2>3, <3>1 DEF CacheAwaits, Finishing
    <3>4. StateFits'
      BY <1>1, <2>1, <2>3, <3>1 DEF Started, caches, StateFits, AtRest, Broken, Active, Pending
    <3>. QED
      BY <3>1, <3>2, <3>3, <3>4, NoPassLeft
  <2>. QED
    BY <1>1, <2>1, <2>2, <2>3 DEF Started, Broken
<1>2. CASE HandleCached
  <2>1. /\ cacheTask.on /\ cacheTask.apply /\ state = "ProcessingBackgroundSyncCache" /\ Active = {} /\ AllFree
        /\ cached # <<0, 0>> /\ cached[1] = token
        /\ UNCHANGED <<serverPos, state, stream, starting, closed, cached, initialCache>>
    BY <1>2, RestIsFree DEF HandleCached, OrderlyInv, StateFits, AtRest, InStep
  <2>2. cacheTask'.on = cacheTask.on /\ ~cacheTask'.apply
    BY <1>2, PartsHold DEF HandleCached, CacheTask
  <2>3. /\ token' = cached[2] /\ token < token' /\ token' <= serverPos /\ handled' = 1..token'
        /\ token \in Nat /\ token' \in Nat
    <3>1. /\ cached[1] < cached[2] /\ cached[2] <= serverPos /\ handled = 1..token
          /\ cached[2] \in Nat /\ token \in Nat /\ serverPos \in Nat
      BY <2>1 DEF OrderlyInv, InStep, Inv, TypeOK, Position
    <3>2. handled' = handled \cup ((token + 1)..cached[2]) /\ token' = cached[2]
      BY <1>2, <2>1 DEF HandleCached
    <3>. QED
      BY <2>1, <3>1, <3>2
  <2>4. \A k \in Jobs : jobs'[k].stage = "free"
    BY <2>1 DEF stream, AllFree
  <2>5. InStep'
    <3>1. \A k \in Jobs : PassInStep(jobs[k])'
      BY <2>4 DEF PassInStep, Fetching
    <3>. QED
      BY <2>1, <2>2, <2>3, <3>1 DEF OrderlyInv, InStep
  <2>6. CacheAwaits'
    BY <2>3, <2>4 DEF CacheAwaits, Finishing
  <2>7. StateFits'
    BY <2>1, <2>2, <2>4 DEF StateFits, OrderlyInv, AtRest, Broken, Active, Pending, stream
  <2>. QED
    BY <2>4, <2>5, <2>6, <2>7, NoPassLeft
<1>3. CASE CacheProcessed
  <2>1. /\ cacheTask.on /\ state = "ProcessingBackgroundSyncCache" /\ Active = {} /\ AllFree /\ request = None
        /\ ~starting /\ ~closed /\ token # 0
    BY <1>3, RestIsFree DEF CacheProcessed, OrderlyInv, StateFits, AtRest, InStep
  <2>2. ~cacheTask'.on /\ ~cacheTask'.apply /\ cached' = <<0, 0>>
    BY <1>3 DEF CacheProcessed, NoCacheTask
  <2>3. CASE StartFrom
    BY <1>3, <2>1, <2>2, <2>3, StartFromKeepsOrder DEF CacheProcessed
  <2>4. CASE Resume(cacheTask.old) /\ UNCHANGED starting
    <3>. QED
      BY <1>3, <2>1, <2>2, <2>4, ResumeKeepsOrder DEF CacheProcessed, Resumable
  <2>. QED
    BY <1>3, <2>3, <2>4 DEF CacheProcessed
<1>. QED
  BY <1>1, <1>2, <1>3 DEF Startup

\* A session that has just opened its store is in order.
LEMMA InitInOrder == ASSUME Init PROVE OrderlyInv
<1>1. /\ \A j \in Jobs : jobs[j].stage = "free"
      /\ cacheTask.on = FALSE /\ cacheTask.apply = FALSE
      /\ serverPos \in Position /\ token \in Position /\ initialCache \in {0, serverPos}
  BY MaxPosAssumption DEF Init, FreeJob, Pass, NoCacheTask, Position
<1>2. StateFits
  BY <1>1 DEF Init, StateFits, AtRest, Broken, Active, Pending
<1>3. InStep
  BY <1>1, MaxPosAssumption DEF Init, InStep, PassInStep, Fetching, Position
<1>4. CacheAwaits
  BY <1>1 DEF Init, CacheAwaits, Finishing
<1>5. OneLoop /\ WhoseRequest
  BY <1>1 DEF Init, OneLoop, WhoseRequest, Active, Pending, Asking
<1>. QED
  BY <1>2, <1>3, <1>4, <1>5 DEF OrderlyInv

\* Every step keeps it in order, as long as the application waits for quiet moments.
LEMMA NextKeepsOrder == ASSUME Orderly, Inv, Inv', OrderlyInv, [Next]_vars PROVE OrderlyInv'
<1>1. CASE Next
  BY <1>1, AppKeepsOrder, EnvironmentKeepsOrder, StartupKeepsOrder, NetworkKeepsOrder,
     HandleKeepsOrder, HandleErrorKeepsOrder, RetryKeepsOrder DEF Next
<1>2. CASE UNCHANGED vars
  BY <1>2 DEF vars, OrderlyInv, OneLoop, WhoseRequest, StateFits, InStep, PassInStep, CacheAwaits, stream, data,
              caches, Active
<1>. QED
  BY <1>1, <1>2

\* A session that an orderly application uses stays in order.
LEMMA OrderHolds == ASSUME Orderly PROVE Spec => [](Inv /\ OrderlyInv)
<1>1. Init => Inv /\ OrderlyInv
  BY InitInv, InitInOrder
<1>2. Inv /\ OrderlyInv /\ [Next]_vars => (Inv /\ OrderlyInv)'
  BY NextKeepsInv, NextKeepsOrder
<1>. QED
  BY <1>1, <1>2, PTL DEF Spec

\* However many requests are answered, lost or cancelled, an application that waits for quiet
\* moments never has two loops of /sync, nor one before the session has started.
THEOREM OneLoopRuns == ASSUME Orderly PROVE Spec => []OneSyncLoop
<1>1. Inv /\ OrderlyInv => OneSyncLoop
  <2> SUFFICES ASSUME OrderlyInv PROVE Cardinality(Active) <= 1
    BY DEF OneSyncLoop, OrderlyInv, OneLoop
  <2>1. CASE Active = {}
    BY <2>1, FS_EmptySet
  <2>2. CASE Active # {}
    <3>1. PICK j : j \in Active
      BY <2>2
    <3>2. Active = {j}
      BY <3>1 DEF OrderlyInv, OneLoop
    <3>. QED
      BY <3>2, FS_Singleton
  <2>. QED
    BY <2>1, <2>2
<1>. QED
  BY <1>1, OrderHolds, PTL

\* A session shown as paused has no request and no pass that would launch one.
THEOREM PausedStaysQuiet == ASSUME Orderly PROVE Spec => []PausedIsQuiet
<1>1. Inv /\ OrderlyInv => PausedIsQuiet
  BY DEF PausedIsQuiet, OrderlyInv, StateFits, AtRest
<1>. QED
  BY <1>1, OrderHolds, PTL

(***************************************************************************)
(* The refinement of StreamReader, step by step.                           *)
(***************************************************************************)
\* Only a response, or what was cached, moves the token; only the homeserver its stream.
LEMMA OthersLeaveTheStore ==
  ASSUME Next, \A j \in Jobs : ~EndHandling(j), ~HandleCached, ~ServerAdvance
  PROVE  UNCHANGED <<serverPos, token, handled>>
<1>1. CASE App
  BY <1>1 DEF App, AppStart, AppPause, AppResume, AppBackgroundSync, AppReconnect, AppClose,
              RetainPreventPause, ReleasePreventPause, data
<1>2. CASE BackgroundService \/ Startup
  BY <1>2 DEF BackgroundService, Startup, Started, CacheProcessed, data
<1>3. ASSUME NEW j \in Jobs, Network(j) \/ Handle(j) \/ HandleError(j) \/ Retry(j)
      PROVE  UNCHANGED <<serverPos, token, handled>>
  <2>1. CASE Network(j)
    BY <2>1 DEF Network, Response, UnknownToken, Failure, data
  <2>2. CASE Handle(j)
    BY <2>2 DEF Handle, BeginHandling, SyncForMore, CallBackgroundSyncDone, BackgroundSyncDone,
                CallResumeDone, ResumeDone, SetRunning, PursueListening, data
  <2>3. CASE HandleError(j)
    BY <2>3 DEF HandleError, BackgroundSyncFail, InitialSyncFails, PauseOnCancellation, SwitchToLongPoll,
                ArmRetry, data
  <2>4. CASE Retry(j)
    BY <2>4 DEF Retry, data
  <2>. QED
    BY <1>3, <2>1, <2>2, <2>3, <2>4
<1>. QED
  BY <1>1, <1>2, <1>3 DEF Next

\* A step that moves the token from where it is, to the end of what it brings, reads the stream.
LEMMA ReadingReads ==
  ASSUME Inv, OrderlyInv, NEW to \in Position, token <= to, to <= serverPos,
         token' = to, handled' = handled \cup ((token + 1)..to), UNCHANGED <<serverPos, state>>
  PROVE  [Reader!Next]_(Reader!vars)
<1>1. token \in Nat /\ serverPos \in Nat /\ to \in Nat /\ handled = 1..token
  BY DEF Inv, TypeOK, Position, OrderlyInv, InStep
<1>2. CASE token = to
  BY <1>1, <1>2 DEF Reader!vars
<1>3. CASE token # to
  <2>1. token < serverPos /\ to \in (token + 1)..serverPos
    BY <1>1, <1>3
  <2>. QED
    BY <2>1 DEF Reader!Next, Reader!Read
<1>. QED
  BY <1>2, <1>3

\* Every step of the session reads the stream, or is none of the reader's.
LEMMA StepsRead ==
  ASSUME Inv, OrderlyInv, [Next]_vars
  PROVE  [Reader!Next]_(Reader!vars)
<1>1. ASSUME NEW j \in Jobs, EndHandling(j) PROVE [Reader!Next]_(Reader!vars)
  <2>1. jobs[j].from = token /\ token <= jobs[j].to /\ jobs[j].to <= serverPos /\ jobs[j].to \in Position
    BY <1>1 DEF EndHandling, OrderlyInv, InStep, PassInStep, Fetching, Inv, TypeOK, Job
  <2>. QED
    BY <1>1, <2>1, ReadingReads DEF EndHandling
<1>2. CASE HandleCached
  <2>1. cached[1] = token /\ token <= cached[2] /\ cached[2] <= serverPos /\ cached[2] \in Position
    BY <1>2 DEF HandleCached, OrderlyInv, InStep, Inv, TypeOK, Position
  <2>. QED
    BY <1>2, <2>1, ReadingReads DEF HandleCached
<1>3. CASE ServerAdvance
  BY <1>3 DEF ServerAdvance, data, Reader!Next, Reader!Advance
<1>4. CASE Next /\ (\A j \in Jobs : ~EndHandling(j)) /\ ~HandleCached /\ ~ServerAdvance
  <2>1. UNCHANGED <<serverPos, token, handled>>
    BY <1>4, OthersLeaveTheStore
  <2>2. CASE (state = "Running") = (state' = "Running")
    BY <2>1, <2>2 DEF Reader!vars
  <2>3. CASE (state = "Running") # (state' = "Running")
    BY <2>1, <2>3 DEF Reader!Next, Reader!Switch
  <2>. QED
    BY <2>2, <2>3
<1>5. CASE UNCHANGED vars
  BY <1>5 DEF vars, data, Reader!vars
<1>. QED
  BY <1>1, <1>2, <1>3, <1>4, <1>5

\* The events of an orderly session reach its store in order, once and without a gap, and the
\* token never goes back: SessionSync implements the safety part of StreamReader.
THEOREM ImplementsReader == ASSUME Orderly PROVE Spec => Reader!Init /\ [][Reader!Next]_(Reader!vars)
<1>1. Init => Reader!Init
  BY MaxPosAssumption DEF Init, Reader!Init, Position
<1>2. Inv /\ OrderlyInv /\ [Next]_vars => [Reader!Next]_(Reader!vars)
  BY StepsRead
<1>. QED
  BY <1>1, <1>2, OrderHolds, PTL DEF Spec

(***************************************************************************)
(* Something is there to bring what the state promises, if the system does *)
(* not cancel requests by itself and the first response is handled in one  *)
(* pass.  A start that fails later than that finds a token and a request   *)
(* that is over, and resumes nothing: so NotStuck needs to know of a failed*)
(* start that there is no token, and of a pass made by start until when.   *)
(***************************************************************************)
Retrying == {"retry", "retryNet", "observer"}
PassIsSound(job) ==
  /\ job.initial => ~job.more
  /\ job.initial /\ job.stage \in Asking \cup {"answered"} => token = 0
  /\ job.error \notin {"cancelled", "interrupted"}
  /\ job.stage \in Retrying => state \in {"HomeserverNotReachable", "SyncError"}
GoesOn ==
  /\ state \in Live => Active # {} \/ starting
  /\ state = "InitialSyncFailed" => token = 0
  /\ \A j \in Active : PassIsSound(jobs[j])

Uninterrupted == ~Interruptions /\ "initial" \notin Bursts

\* What is left to show of a step after which there is one pass, or none.
LEMMA OnePassGoesOn ==
  ASSUME NEW j \in Jobs, Alone(j)', jobs'[j].stage \in Pending, PassIsSound(jobs[j])', state' \in Live
  PROVE  GoesOn'
<1>1. Active' = {j}
  BY DEF Active, Alone, Pending
<1>. QED
  BY <1>1 DEF GoesOn, Live

\* ... or none.
LEMMA NoPassGoesOn ==
  ASSUME \A k \in Jobs : jobs'[k].stage \in {"free", "cancelled"},
         state' \notin Live \/ starting', state' = "InitialSyncFailed" => token' = 0
  PROVE  GoesOn'
<1>1. Active' = {}
  BY DEF Active, Pending
<1>. QED
  BY <1>1 DEF GoesOn

\* A step that leaves the passes alone.
LEMMA SamePassesGoOn ==
  ASSUME GoesOn, UNCHANGED <<jobs, token, starting>>, state \in Live \/ state' \notin Live,
         state' = state \/ (state' # "InitialSyncFailed" /\ \A j \in Active : jobs[j].stage \notin Retrying)
  PROVE  GoesOn'
BY DEF GoesOn, Active, PassIsSound

\* A pass that was launched.
LEMMA LaunchGoesOn ==
  ASSUME NEW k, NEW initial, Launched(k, initial), initial => token = 0, UNCHANGED token, state' \in Live
  PROVE  GoesOn'
<1>1. PassIsSound(jobs[k])' /\ jobs'[k].stage \in Pending
  BY DEF Launched, PassIsSound, Pending, Stages, Retrying
<1>. QED
  BY <1>1, OnePassGoesOn DEF Launched

\* resume and start go on, or have something to go on with.
LEMMA ResumeGoesOn ==
  ASSUME Inv, OrderlyInv, GoesOn, NEW s, Resume(s), UNCHANGED <<token, starting>>, ~closed, ~starting,
         Resumable(s), Active = {} => AllFree, state \notin {"SyncInProgress", "Running"},
         request # None => state \in {"PauseRequested", "BackgroundSyncInProgress"}
  PROVE  GoesOn'
<1>1. state' = "SyncInProgress"
  BY DEF Resume
<1>2. CASE request = None
  <2>1. ServerSync(jobs, None, FALSE, FALSE) /\ AllFree
    BY <1>2 DEF Resume, OrderlyInv, WhoseRequest
  <2>2. PICK k \in Jobs : Launched(k, FALSE)
    BY <2>1, LaunchIsAlone DEF AllFree, Inv, TypeOK
  <2>. QED
    BY <1>1, <2>2, LaunchGoesOn DEF Live
<1>3. CASE request # None
  <2>1. UNCHANGED jobs
    BY <1>3 DEF Resume, stream
  <2>2. \A j \in Active : jobs[j].stage \notin Retrying
    BY <1>3 DEF GoesOn, PassIsSound
  <2>. QED
    BY <1>1, <1>3, <2>1, <2>2, SamePassesGoOn DEF Live
<1>. QED
  BY <1>2, <1>3

\* ... and so does start.
LEMMA StartFromGoesOn ==
  ASSUME Inv, OrderlyInv, GoesOn, StartFrom, AllFree, UNCHANGED token, ~closed, ~starting,
         state \in {"StoreDataReady", "ProcessingBackgroundSyncCache", "InitialSyncFailed"}
  PROVE  GoesOn'
<1>1. CASE token # 0
  <2>1. Resume("SyncInProgress") /\ UNCHANGED starting /\ request = None
    BY <1>1 DEF StartFrom, GoesOn, OrderlyInv, StateFits, AtRest
  <2>. QED
    BY <2>1, ResumeGoesOn DEF Resumable
<1>2. CASE token = 0
  BY <1>2, NoPassGoesOn DEF StartFrom, stream, AllFree
<1>. QED
  BY <1>1, <1>2

\* The steps of an orderly application.
LEMMA AppGoesOn ==
  ASSUME Orderly, Inv, OrderlyInv, GoesOn, App
  PROVE  GoesOn'
<1>0. closed => state = "Closed"
  BY DEF OrderlyInv, StateFits
<1>1. CASE AppStart
  <2>1. ~closed /\ ~starting /\ Active = {} /\ AllFree
    BY <1>0, <1>1, RestIsFree DEF AppStart, OrderlyInv, StateFits, AtRest, Broken
  <2>2. CASE StartFrom
    BY <1>1, <2>1, <2>2, StartFromGoesOn DEF AppStart, data
  <2>3. CASE UNCHANGED stream /\ state' = "ProcessingBackgroundSyncCache"
    BY <2>1, <2>3, NoPassGoesOn DEF stream, AllFree, Live
  <2>. QED
    BY <1>1, <2>2, <2>3 DEF AppStart, ThroughCache
<1>2. CASE AppPause
  <2>1. CASE UNCHANGED <<stream, blocks>> /\ state' = "PauseRequested"
    <3>1. \A j \in Active : jobs[j].stage \notin Retrying
      BY <1>2 DEF AppPause, Quiet, Active, Retrying
    <3>. QED
      BY <1>2, <2>1, <3>1, SamePassesGoOn DEF AppPause, Pauseable, Live, stream, data
  <2>2. CASE jobs' = Cancelled(jobs) /\ state' = "Paused"
    BY <1>2, <2>2, QuietFacts, NoPassGoesOn DEF AppPause, Live
  <2>. QED
    BY <1>2, <2>1, <2>2 DEF AppPause, Pause
<1>3. CASE AppResume
  <2>1. ~closed /\ ~starting
    BY <1>0, <1>3 DEF AppResume, OrderlyInv, StateFits
  <2>2. Active = {} => AllFree
    BY <1>3, RestIsFree DEF AppResume, AllOver, AllFree
  <2>3. CASE NoCache
    <3>1. Resume(state) /\ UNCHANGED starting
      BY <1>3, <2>3 DEF AppResume, ThroughCache
    <3>2. /\ Resumable(state) /\ state \notin {"SyncInProgress", "Running"}
          /\ request # None => state \in {"PauseRequested", "BackgroundSyncInProgress"}
      BY <1>3 DEF AppResume, Resumable, OrderlyInv, StateFits, AtRest
    <3>. QED
      BY <1>3, <2>1, <2>2, <3>1, <3>2, ResumeGoesOn DEF AppResume, data
  <2>4. CASE ~NoCache
    <3>1. state = "Paused" /\ UNCHANGED stream /\ state' = "ProcessingBackgroundSyncCache" /\ AllFree
      BY <1>3, <2>2, <2>4 DEF AppResume, ThroughCache, OrderlyInv, StateFits, AtRest
    <3>. QED
      BY <3>1, NoPassGoesOn DEF stream, AllFree, Live
  <2>. QED
    BY <2>3, <2>4
<1>4. CASE AppBackgroundSync
  <2>1. ~closed /\ AllFree
    BY <1>0, <1>4 DEF AppBackgroundSync, AllOver, AllFree
  <2>2. PICK k \in Jobs : Launched(k, FALSE)
    BY <1>4, <2>1, LaunchIsAlone DEF AppBackgroundSync, AllFree, Inv, TypeOK
  <2>. QED
    BY <1>4, <2>2, LaunchGoesOn DEF AppBackgroundSync, data, Live
<1>5. CASE AppClose
  BY <1>5, QuietFacts, NoPassGoesOn DEF AppClose, Live
<1>6. CASE RetainPreventPause \/ ReleasePreventPause
  <2>1. CASE UNCHANGED <<state, stream, data, starting>>
    BY <2>1, SamePassesGoOn DEF stream, data
  <2>2. CASE ~UNCHANGED <<state, stream, data, starting>>
    <3>1. Quiet /\ jobs' = Cancelled(jobs) /\ state' = "Paused"
      BY <1>6, <2>2 DEF RetainPreventPause, ReleasePreventPause
    <3>. QED
      BY <3>1, QuietFacts, NoPassGoesOn DEF Live
  <2>. QED
    BY <2>1, <2>2
<1>. QED
  BY <1>1, <1>2, <1>3, <1>4, <1>5, <1>6 DEF App, AppReconnect

\* A pass that goes on to another stage.
LEMMA StageGoesOn ==
  ASSUME Inv, OrderlyInv, GoesOn, NEW j \in Active, \A k \in Jobs : k # j => jobs'[k] = jobs[k],
         jobs'[j].stage \in Pending, PassIsSound(jobs[j])', state' \in Live
  PROVE  GoesOn'
<1>1. Alone(j)' /\ j \in Jobs
  BY PassIsAlone DEF Alone
<1>. QED
  BY <1>1, OnePassGoesOn

\* A pass that ends, leaving a session that promises nothing.
LEMMA EndIsPromised ==
  ASSUME Inv, OrderlyInv, NEW j \in Active, jobs' \in {Freed(j), Cancelled(Freed(j))}, state' \notin Live,
         state' = "InitialSyncFailed" => token' = 0
  PROVE  GoesOn'
<1>1. \A k \in Jobs : jobs'[k].stage = "free"
  BY PassIsAlone, MovedFacts DEF Alone, Cancelled
<1>. QED
  BY <1>1, NoPassGoesOn

\* The steps of the homeserver, of the network and of the session.
LEMMA NetworkGoesOn ==
  ASSUME Uninterrupted, Inv, OrderlyInv, GoesOn, NEW j \in Jobs, Network(j)
  PROVE  GoesOn'
<1>0. /\ jobs[j].stage = "sent" => j \in Active /\ request = j /\ request # None /\ PassIsSound(jobs[j])
      /\ jobs[j].stage = "cancelled" => request = None /\ state \in {"Paused", "Closed"} /\ Active = {}
      /\ jobs \in [Jobs -> Job] /\ jobs[j] \in Job
  BY JobsAssumption DEF Active, Pending, Stages, OrderlyInv, WhoseRequest, Asking, StateFits, AtRest, Inv,
                        TypeOK, GoesOn
<1>1. CASE jobs[j].stage = "cancelled"
  <2>1. jobs' = Freed(j) /\ UNCHANGED state
    BY <1>0, <1>1 DEF Network, Response, Failure, UnknownToken
  <2>2. \A k \in Jobs : jobs'[k].stage \in {"free", "cancelled"}
    BY <1>0, <1>1, <2>1, RestIsFree, MovedFacts
  <2>. QED
    BY <1>0, <1>1, <2>1, <2>2, NoPassGoesOn DEF Live
<1>2. CASE jobs[j].stage = "sent"
  <2>0. j \in Active /\ state \in Live
    BY <1>0, <1>2, PassIsAlone
  <2>1. CASE Response(j)
    <3>1. /\ \A k \in Jobs : k # j => jobs'[k] = jobs[k]
          /\ jobs'[j].stage = "answered" /\ jobs'[j].initial = jobs[j].initial
          /\ jobs'[j].more = jobs[j].more /\ jobs'[j].error = jobs[j].error
      BY <1>0, <1>2, <2>1 DEF Response, Job
    <3>2. PassIsSound(jobs[j])' /\ jobs'[j].stage \in Pending
      BY <1>0, <1>2, <2>1, <3>1 DEF Response, PassIsSound, Asking, Retrying, data, Pending, Stages
    <3>. QED
      BY <2>0, <2>1, <3>1, <3>2, StageGoesOn DEF Response
  <2>2. CASE UnknownToken(j)
    BY <1>0, <1>2, <2>0, <2>2, EndIsPromised DEF UnknownToken, Live
  <2>3. ASSUME NEW error \in Errors, Failure(j, error) PROVE GoesOn'
    <3>1. error \notin {"cancelled", "interrupted"}
      BY <1>2, <2>3 DEF Failure, Uninterrupted
    <3>2. /\ \A k \in Jobs : k # j => jobs'[k] = jobs[k]
          /\ jobs'[j].stage \in {"bgFail", "afterBgFail"} /\ jobs'[j].initial = jobs[j].initial
          /\ jobs'[j].more = jobs[j].more /\ jobs'[j].error = error
      BY <1>0, <1>2, <2>3 DEF Failure, Job
    <3>3. PassIsSound(jobs[j])' /\ jobs'[j].stage \in Pending
      BY <1>0, <1>2, <2>3, <3>1, <3>2 DEF Failure, PassIsSound, Asking, Retrying, data, Pending, Stages
    <3>. QED
      BY <2>0, <2>3, <3>2, <3>3, StageGoesOn DEF Failure
  <2>. QED
    BY <2>1, <2>2, <2>3 DEF Network
<1>. QED
  BY <1>1, <1>2 DEF Network, Response, Failure, UnknownToken

\* A pass launched by one that ends with it.
LEMMA LaunchingNextGoesOn ==
  ASSUME Inv, Inv', OrderlyInv, NEW j \in Active, jobs[j].stage \notin {"answered", "handling"},
         NEW js, js \in {Freed(j), Cancelled(Freed(j))}, NEW req, NEW long,
         ServerSync(js, req, long, FALSE),
         UNCHANGED <<serverPos, data, starting, closed, caches>>, state' \in Live
  PROVE  GoesOn'
<1>1. PICK k \in Jobs : Launched(k, FALSE)
  BY LaunchingNextKeepsOrder
<1>. QED
  BY <1>1, LaunchGoesOn DEF data

\* The handling of a response.
LEMMA HandleGoesOn ==
  ASSUME Uninterrupted, Inv, Inv', OrderlyInv, GoesOn, NEW j \in Jobs, Handle(j)
  PROVE  GoesOn'
<1>0. j \in Active /\ jobs \in [Jobs -> Job] /\ jobs[j] \in Job /\ PassIsSound(jobs[j])
  BY DEF Handle, BeginHandling, EndHandling, SyncForMore, CallBackgroundSyncDone, BackgroundSyncDone,
         CallResumeDone, ResumeDone, SetRunning, PursueListening, Active, Pending, Stages, Inv, TypeOK, GoesOn
<1>1. state \in Live /\ ~closed
  BY <1>0, PassIsAlone
<1>2. ASSUME \A k \in Jobs : k # j => jobs'[k] = jobs[k], jobs'[j].stage \in Finishing,
             jobs'[j].initial = jobs[j].initial, jobs'[j].more = jobs[j].more, jobs'[j].error = jobs[j].error,
             state' \in Live
      PROVE  GoesOn'
  <2>1. PassIsSound(jobs[j])' /\ jobs'[j].stage \in Pending
    BY <1>0, <1>2 DEF PassIsSound, Asking, Retrying, Finishing, Pending, Stages
  <2>. QED
    BY <1>0, <1>2, <2>1, StageGoesOn
<1>3. CASE BeginHandling(j)
  <2>1. PICK more \in BOOLEAN :
          /\ more => (IF jobs[j].initial THEN "initial" ELSE "later") \in Bursts
          /\ jobs' = [jobs EXCEPT ![j].stage = "handling", ![j].more = more]
    BY <1>3 DEF BeginHandling
  <2>2. /\ \A k \in Jobs : k # j => jobs'[k] = jobs[k]
        /\ jobs'[j].stage = "handling" /\ jobs'[j].initial = jobs[j].initial
        /\ jobs'[j].more = more /\ jobs'[j].error = jobs[j].error
    BY <1>0, <2>1 DEF Job
  <2>3. PassIsSound(jobs[j])' /\ jobs'[j].stage \in Pending
    BY <1>0, <2>1, <2>2 DEF Uninterrupted, PassIsSound, Asking, Retrying, Pending, Stages
  <2>. QED
    BY <1>0, <1>1, <1>3, <2>2, <2>3, StageGoesOn DEF BeginHandling
<1>4. CASE EndHandling(j)
  <2>1. /\ \A k \in Jobs : k # j => jobs'[k] = jobs[k]
        /\ jobs'[j].stage = "handled" /\ jobs'[j].initial = jobs[j].initial
        /\ jobs'[j].more = jobs[j].more /\ jobs'[j].error = jobs[j].error
    BY <1>0, <1>4 DEF EndHandling, Job
  <2>. QED
    BY <1>1, <1>2, <1>4, <2>1 DEF EndHandling, Finishing
<1>5. CASE SyncForMore(j)
  <2>1. jobs[j].initial = FALSE
    BY <1>0, <1>5 DEF SyncForMore, PassIsSound, Job
  <2>. QED
    BY <1>0, <1>1, <1>5, <2>1, LaunchingNextGoesOn DEF SyncForMore
<1>6. CASE CallBackgroundSyncDone(j)
  BY <1>1, <1>2, <1>6, MovedFacts DEF CallBackgroundSyncDone, Finishing
<1>7. CASE BackgroundSyncDone(j)
  <2>1. CASE jobs' = Freed(j) /\ state' = "Paused"
    BY <1>0, <2>1, EndIsPromised DEF Live
  <2>2. CASE jobs' = Moved(j, "afterBg") /\ state' \in {state, "PauseRequested"}
    BY <1>1, <1>2, <2>2, MovedFacts DEF Finishing, Live
  <2>. QED
    BY <1>7, <2>1, <2>2 DEF BackgroundSyncDone
<1>8. CASE CallResumeDone(j)
  BY <1>1, <1>2, <1>8, MovedFacts DEF CallResumeDone, Finishing
<1>9. CASE ResumeDone(j)
  BY <1>1, <1>2, <1>9, MovedFacts DEF ResumeDone, Finishing, Live
<1>10. CASE SetRunning(j)
  BY <1>1, <1>2, <1>10, MovedFacts DEF SetRunning, Finishing, Live
<1>11. CASE PursueListening(j)
  <2>1. ServerSync(Freed(j), request, ~jobs[j].more, FALSE)
    BY <1>1, <1>11 DEF PursueListening, Live
  <2>. QED
    BY <1>0, <1>1, <1>11, <2>1, LaunchingNextGoesOn DEF PursueListening
<1>. QED
  BY <1>3, <1>4, <1>5, <1>6, <1>7, <1>8, <1>9, <1>10, <1>11 DEF Handle

\* The handling of a failure, which is not that of a cancelled request.
LEMMA HandleErrorGoesOn ==
  ASSUME Inv, Inv', OrderlyInv, GoesOn, NEW j \in Jobs, HandleError(j)
  PROVE  GoesOn'
<1>0. /\ j \in Active /\ jobs[j].stage \in {"bgFail", "afterBgFail"} /\ PassIsSound(jobs[j])
      /\ state \in Live /\ ~CancelledError(j)
  BY PassIsAlone DEF HandleError, BackgroundSyncFail, InitialSyncFails, PauseOnCancellation, SwitchToLongPoll,
         ArmRetry, Failed, Active, Pending, Stages, GoesOn, PassIsSound, CancelledError
<1>1. CASE BackgroundSyncFail(j)
  <2>1. CASE jobs' = Freed(j) /\ state' = "Paused"
    BY <1>0, <2>1, EndIsPromised DEF Live
  <2>2. CASE jobs' = Moved(j, "afterBgFail") /\ state' \in {state, "PauseRequested"}
    <3>1. PassIsSound(jobs[j])' /\ jobs'[j].stage \in Pending
      BY <1>0, <1>1, <2>2, MovedFacts
      DEF BackgroundSyncFail, data, PassIsSound, Asking, Retrying, Pending, Stages
    <3>. QED
      BY <1>0, <2>2, <3>1, MovedFacts, StageGoesOn DEF Live
  <2>. QED
    BY <1>1, <2>1, <2>2 DEF BackgroundSyncFail
<1>2. CASE InitialSyncFails(j)
  <2>1. token' = 0
    BY <1>0, <1>2 DEF InitialSyncFails, PassIsSound, Asking, data
  <2>. QED
    BY <1>0, <1>2, <2>1, EndIsPromised DEF InitialSyncFails, Live
<1>3. CASE SwitchToLongPoll(j)
  BY <1>0, <1>3, LaunchingNextGoesOn DEF SwitchToLongPoll
<1>4. CASE ArmRetry(j)
  <2>1. PICK s \in Retrying : jobs' = Waiting(j, s)
    BY <1>4 DEF ArmRetry, Retrying
  <2>2. state' \in {"HomeserverNotReachable", "SyncError"}
    BY <1>4 DEF ArmRetry
  <2>3. /\ jobs'[j].initial = FALSE /\ jobs'[j].more = FALSE /\ jobs'[j].error = "none" /\ jobs'[j].stage = s
        /\ \A k \in Jobs : k # j => jobs'[k] = jobs[k]
    BY <2>1 DEF Waiting, Pass, Inv, TypeOK
  <2>4. PassIsSound(jobs[j])' /\ jobs'[j].stage \in Pending
    BY <2>2, <2>3 DEF PassIsSound, Retrying, Pending, Stages
  <2>. QED
    BY <1>0, <2>2, <2>3, <2>4, StageGoesOn DEF Live
<1>. QED
  BY <1>0, <1>1, <1>2, <1>3, <1>4 DEF HandleError, PauseOnCancellation

\* A retry finds the request that has failed.
LEMMA RetryGoesOn ==
  ASSUME Inv, Inv', OrderlyInv, GoesOn, NEW j \in Jobs, Retry(j)
  PROVE  GoesOn'
<1>0. j \in Active /\ jobs[j].stage \in Retrying
  BY DEF Retry, Active, Pending, Stages, Retrying
<1>1. request # None /\ state \in Live
  BY <1>0, PassIsAlone DEF GoesOn, PassIsSound
<1>. QED
  BY <1>0, <1>1, LaunchingNextGoesOn DEF Retry, Live, Retrying

\* The first steps of start.
LEMMA StartupGoesOn ==
  ASSUME Inv, OrderlyInv, GoesOn, Startup
  PROVE  GoesOn'
<1>1. CASE Started
  <2>1. /\ starting /\ state = "SyncInProgress" /\ token = 0 /\ ~closed /\ Active = {} /\ AllFree /\ token' = 0
    BY <1>1, RestIsFree DEF Started, OrderlyInv, OneLoop, StateFits, data
  <2>2. CASE ServerSync(jobs, request, FALSE, TRUE) /\ UNCHANGED state
    <3>1. PICK k \in Jobs : Launched(k, TRUE)
      BY <2>1, <2>2, LaunchIsAlone DEF AllFree, Inv, TypeOK
    <3>. QED
      BY <2>1, <2>2, <3>1, LaunchGoesOn DEF Live
  <2>3. CASE state' \in Broken /\ UNCHANGED stream
    BY <2>1, <2>3, NoPassGoesOn DEF stream, AllFree, Broken, Live
  <2>. QED
    BY <1>1, <2>1, <2>2, <2>3 DEF Started, Broken
<1>2. CASE HandleCached
  <2>1. state = "ProcessingBackgroundSyncCache" /\ AllFree /\ UNCHANGED <<state, stream>>
    BY <1>2, RestIsFree DEF HandleCached, OrderlyInv, StateFits, AtRest
  <2>. QED
    BY <2>1, NoPassGoesOn DEF stream, AllFree, Live
<1>3. CASE CacheProcessed
  <2>1. /\ cacheTask.on /\ state = "ProcessingBackgroundSyncCache" /\ Active = {} /\ AllFree /\ request = None
        /\ ~starting /\ ~closed /\ UNCHANGED token
    BY <1>3, RestIsFree DEF CacheProcessed, OrderlyInv, StateFits, AtRest, data
  <2>2. CASE StartFrom
    BY <2>1, <2>2, StartFromGoesOn
  <2>3. CASE Resume(cacheTask.old) /\ UNCHANGED starting
    BY <2>1, <2>3, ResumeGoesOn DEF Resumable
  <2>. QED
    BY <1>3, <2>2, <2>3 DEF CacheProcessed
<1>. QED
  BY <1>1, <1>2, <1>3 DEF Startup

\* No step of the session leaves a promise to nobody.
LEMMA NextGoesOn ==
  ASSUME Orderly, Uninterrupted, Inv, Inv', OrderlyInv, GoesOn, [Next]_vars
  PROVE  GoesOn'
<1>1. CASE Next
  <2>1. CASE ServerAdvance \/ BackgroundService
    <3>1. UNCHANGED <<state, jobs, token, starting>>
      BY <2>1 DEF ServerAdvance, BackgroundService, stream, data
    <3>. QED
      BY <3>1, SamePassesGoOn
  <2>. QED
    BY <1>1, <2>1, AppGoesOn, NetworkGoesOn, HandleGoesOn, HandleErrorGoesOn, RetryGoesOn,
       StartupGoesOn DEF Next
<1>2. CASE UNCHANGED vars
  <2>1. UNCHANGED <<state, jobs, token, starting>>
    BY <1>2 DEF vars, stream, data
  <2>. QED
    BY <2>1, SamePassesGoOn
<1>. QED
  BY <1>1, <1>2

\* In every state that promises more to come a request, a callback or a retry is there to
\* bring it, for an application that waits for quiet moments and a system that cancels no
\* request, if no burst of to-device events follows the first response.
THEOREM NeverStuck ==
  ASSUME Orderly, ~Interruptions, "initial" \notin Bursts
  PROVE  Spec => []NotStuck
<1>0. Uninterrupted
  BY DEF Uninterrupted
<1>1. Init => GoesOn
  <2> SUFFICES ASSUME Init PROVE GoesOn
    OBVIOUS
  <2>1. Active = {} /\ state = "StoreDataReady"
    BY DEF Init, FreeJob, Pass, Active, Pending
  <2>. QED
    BY <2>1 DEF GoesOn, Live
<1>2. Inv /\ OrderlyInv /\ (Inv /\ OrderlyInv)' /\ GoesOn /\ [Next]_vars => GoesOn'
  BY <1>0, NextGoesOn
<1>3. OrderlyInv /\ GoesOn => NotStuck
  BY DEF OrderlyInv, StateFits, GoesOn, NotStuck, Live
<1>. QED
  BY <1>1, <1>2, <1>3, OrderHolds, PTL DEF Spec
=============================================================================
