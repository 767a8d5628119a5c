----------------------------- MODULE SessionSync -----------------------------
(***************************************************************************)
(* MXSession: the life cycle of a session and its /sync loop.              *)
(*                                                                         *)
(* One request of the event stream is followed by the asynchronous handling*)
(* of its response, which launches the next request.  Failures go through  *)
(* handleServerSyncError, which arms a retry.  All this is callbacks on the*)
(* main thread, in between which the application pauses, resumes, closes...*)
(* A "job" is one pass of the loop: a /sync request, then the callbacks its*)
(* answer leads to.  The session only remembers eventStreamRequest, the    *)
(* last request made, and the callbacks only test that it is not nil.      *)
(*                                                                         *)
(* A sync token is a position of the homeserver's stream, 0 stands for nil.*)
(***************************************************************************)
EXTENDS Naturals, FiniteSets

CONSTANTS
  Jobs,        \* BOUND: identities of the passes that may exist at once
  None,        \* nil
  MaxPos,      \* BOUND: positions of the homeserver's stream
  MaxPrevent,  \* BOUND: callers of retainPreventPause
  Orderly,     \* does the application wait for quiet moments? (see Quiet)
  Bursts,      \* which responses may hold so many to-device events that more follow:
               \* a subset of {"initial", "later"}
  Interruptions  \* may the system cancel requests that the session did not cancel?

ASSUME MaxPosAssumption == MaxPos \in Nat \ {0}
ASSUME MaxPreventAssumption == MaxPrevent \in Nat
ASSUME JobsAssumption == None \notin Jobs
ASSUME SwitchAssumption == /\ {Orderly, Interruptions} \subseteq BOOLEAN
                            /\ Bursts \subseteq {"initial", "later"}

Position == 0..MaxPos

States == {"Closed", "StoreDataReady", "ProcessingBackgroundSyncCache", "SyncInProgress",
           "BackgroundSyncInProgress", "Running", "HomeserverNotReachable", "SyncError",
           "Paused", "PauseRequested", "InitialSyncFailed", "UnknownToken"}

(***************************************************************************)
(* The stages of a pass.  In the stages of InCallback the session is       *)
(* calling a block of the application, which may call the session back; in *)
(* those of Continuing the same turn of the main thread goes on.           *)
(***************************************************************************)
Stages == {"free",        \* no such pass
           "sent",        \* the request is on the network
           "cancelled",   \* cancelled by the session, the outcome not yet delivered
           "answered",    \* response accepted, its handling not yet begun
           "handling",    \* handleSyncResponse is running
           "handled",     \* token stored, the completion is on the main queue
           "bgDone", "afterBg", "resumeDone", "afterResume", "running",
           "bgFail", "afterBgFail",
           "retry", "retryNet", "observer"}
InCallback == {"bgDone", "resumeDone", "running", "bgFail"}
Continuing == {"afterBg", "afterResume", "afterBgFail"}
Pending == Stages \ {"free", "cancelled"}
\* A cancellation is ours ("cancelled") or the system's ("interrupted").
Errors == {"none", "cancelled", "interrupted", "timeout", "matrix", "network"}

Job == [stage : Stages,
        long : BOOLEAN,      \* made with SERVER_TIMEOUT_MS, not with 0
        initial : BOOLEAN,   \* made with the blocks of start
        from : Position, to : Position,
        more : BOOLEAN,      \* nextServerTimeout = 0
        error : Errors]
Pass(stage, long, initial, from, to) ==
  [stage |-> stage, long |-> long, initial |-> initial, from |-> from, to |-> to,
   more |-> FALSE, error |-> "none"]
FreeJob == Pass("free", FALSE, FALSE, 0, 0)

CacheTask == [on : BOOLEAN, old : States, then : {"start", "resume"}, apply : BOOLEAN]
NoCacheTask == [on |-> FALSE, old |-> "Closed", then |-> "resume", apply |-> FALSE]

VARIABLES
  serverPos,     \* homeserver: the end of its stream
  state,
  request,       \* eventStreamRequest
  jobs,
  token,         \* store.eventStreamToken
  handled,       \* the positions whose events the store has been given
  catchingUp,
  onResumeDone, onBackgroundSyncDone, onBackgroundSyncFail,   \* is the block set?
  preventPauseCount,
  starting,      \* the profile request and the start of crypto are under way
  closed,        \* close has been called: no rest client, no user
  cacheTask,     \* handleBackgroundSyncCacheIfRequired under way
  cached,        \* responses left by the background sync service: <<from, to>>
  initialCache   \* the response in initialSyncResponseCache, 0 if none

blocks == <<onResumeDone, onBackgroundSyncDone, onBackgroundSyncFail>>
stream == <<request, jobs, catchingUp>>
data == <<token, handled>>
caches == <<cacheTask, cached, initialCache>>
vars == <<serverPos, state, stream, data, blocks, preventPauseCount, starting, closed, caches>>

TypeOK ==
  /\ serverPos \in Position
  /\ state \in States
  /\ request \in Jobs \cup {None}
  /\ jobs \in [Jobs -> Job]
  /\ token \in Position
  /\ handled \subseteq 1..MaxPos
  /\ catchingUp \in BOOLEAN
  /\ onResumeDone \in BOOLEAN
  /\ onBackgroundSyncDone \in BOOLEAN
  /\ onBackgroundSyncFail \in BOOLEAN
  /\ preventPauseCount \in 0..MaxPrevent
  /\ starting \in BOOLEAN
  /\ closed \in BOOLEAN
  /\ cacheTask \in CacheTask
  /\ cached \in Position \X Position
  /\ initialCache \in Position

\* A session whose store has been opened: empty or with the data of a token; the
\* initial response may be cached if the process died before it was committed.
Init ==
  /\ serverPos \in Position \ {0}
  /\ token \in {0, serverPos}
  /\ handled = 1..token
  /\ initialCache \in (IF token = 0 THEN {0, serverPos} ELSE {0})
  /\ state = "StoreDataReady"
  /\ request = None
  /\ jobs = [j \in Jobs |-> FreeJob]
  /\ catchingUp = FALSE
  /\ onResumeDone = FALSE /\ onBackgroundSyncDone = FALSE /\ onBackgroundSyncFail = FALSE
  /\ preventPauseCount = 0
  /\ starting = FALSE
  /\ closed = FALSE
  /\ cacheTask = NoCacheTask
  /\ cached = <<0, 0>>

(***************************************************************************)
(* Who may run: the main thread is free, or inside a callback.  Quiet      *)
(* is the ASSUMPTION Orderly = TRUE makes on the application: it acts only *)
(* while the session waits for the network, and starts something new only  *)
(* once nothing of the old is outstanding; and it does not leave cached    *)
(* responses for a resume that finds a request on its way.                 *)
(***************************************************************************)
MainFree == \A j \in Jobs : jobs[j].stage \notin InCallback \cup Continuing
AppTurn == \A j \in Jobs : jobs[j].stage \notin Continuing
Quiet == ~Orderly \/ (/\ \A j \in Jobs : jobs[j].stage \in {"free", "sent", "cancelled"}
                      /\ ~starting /\ ~cacheTask.on)
AllOver == ~Orderly \/ (/\ \A j \in Jobs : jobs[j].stage = "free"
                        /\ ~starting /\ ~cacheTask.on)

\* [eventStreamRequest cancel], as far as the network is concerned.
Cancelled(js) == [k \in Jobs |-> IF k = request /\ js[k].stage = "sent"
                                 THEN [js[k] EXCEPT !.stage = "cancelled"] ELSE js[k]]
Freed(j) == [jobs EXCEPT ![j] = FreeJob]
Waiting(j, stage) == [jobs EXCEPT ![j] = Pass(stage, FALSE, FALSE, 0, 0)]
Moved(j, stage) == [jobs EXCEPT ![j].stage = stage]

\* serverSyncWithServerTimeout, when the other passes are js and eventStreamRequest is
\* req: a closed session has no rest client, a cached initial response is taken
\* instead of a request.
ServerSync(js, req, long, initial) ==
  IF token = 0 /\ initialCache # 0
  THEN /\ \E j \in Jobs :
            /\ js[j].stage = "free" /\ j # req
            /\ jobs' = [js EXCEPT ![j] = Pass("answered", FALSE, initial, 0, initialCache)]
       /\ request' = req /\ UNCHANGED catchingUp
  ELSE /\ catchingUp' = ~long
       /\ IF closed
          THEN jobs' = js /\ request' = None
          ELSE \E j \in Jobs :
                 /\ js[j].stage = "free" /\ j # req
                 /\ request' = j
                 /\ jobs' = [js EXCEPT ![j] = Pass("sent", long, initial, token, 0)]

\* pause, called in state s with the passes js; what it does to the stream.
Pauseable(s) == s \in {"SyncInProgress", "Running", "BackgroundSyncInProgress", "PauseRequested"}
Pause ==
  IF ~Pauseable(state) THEN UNCHANGED <<state, stream, blocks>>
  ELSE IF preventPauseCount > 0
  THEN state' = "PauseRequested" /\ UNCHANGED <<stream, blocks>>
  ELSE /\ onResumeDone' = FALSE /\ onBackgroundSyncDone' = FALSE
       /\ onBackgroundSyncFail' = FALSE
       /\ jobs' = Cancelled(jobs)
       /\ request' = None
       /\ state' = "Paused"
       /\ UNCHANGED catchingUp

\* _resume, called in state s.
Resumable(s) == request = None \/ s \in {"BackgroundSyncInProgress", "PauseRequested", "Paused"}
Resume(s) ==
  IF ~Resumable(s) THEN state' = s /\ UNCHANGED <<stream, blocks>>
  ELSE /\ state' = "SyncInProgress"
       /\ onResumeDone' = TRUE
       /\ UNCHANGED <<onBackgroundSyncDone, onBackgroundSyncFail>>
       /\ IF request = None THEN ServerSync(jobs, None, FALSE, FALSE) ELSE UNCHANGED stream

\* _startWithSyncFilterId: resume from the store or fetch the user's profile.  The
\* account has a room, so that a store with a token has one too.
StartFrom ==
  IF token # 0
  THEN Resume("SyncInProgress") /\ UNCHANGED starting
  ELSE /\ state' = "SyncInProgress"
       /\ starting' = TRUE
       /\ UNCHANGED <<stream, blocks>>

\* handleBackgroundSyncCacheIfRequired, then start or resume.
NoCache == cached = <<0, 0>>
\* Mutation of ThroughCache: cached responses are handled whatever they follow.
ThroughStaleCache(then) ==
  IF state = "InitialSyncFailed" \/ NoCache
  THEN /\ IF then = "start" THEN StartFrom ELSE Resume(state) /\ UNCHANGED starting
       /\ UNCHANGED cacheTask
  ELSE /\ state' = "ProcessingBackgroundSyncCache"
       /\ cacheTask' = [on |-> TRUE, old |-> state, then |-> then, apply |-> TRUE]
       /\ UNCHANGED <<stream, blocks, starting>>

ThroughCache(then) ==
  IF state = "InitialSyncFailed" \/ NoCache
  THEN /\ IF then = "start" THEN StartFrom ELSE Resume(state) /\ UNCHANGED starting
       /\ UNCHANGED cacheTask
  ELSE /\ state' = "ProcessingBackgroundSyncCache"
       /\ cacheTask' = [on |-> TRUE, old |-> state, then |-> then, apply |-> cached[1] = token]
       /\ UNCHANGED <<stream, blocks, starting>>

(***************************************************************************)
(* The application.                                                        *)
(***************************************************************************)
AppStart ==
  /\ state \in {"StoreDataReady", "InitialSyncFailed"} /\ ~starting /\ ~cacheTask.on
  /\ MainFree
  /\ ThroughCache("start")
  /\ UNCHANGED <<serverPos, data, preventPauseCount, closed, cached, initialCache>>

AppPause ==
  /\ AppTurn /\ Quiet
  /\ Pauseable(state)
  /\ Pause
  /\ UNCHANGED <<serverPos, data, preventPauseCount, starting, closed, caches>>

\* resume is called in the states that isResumable names.
AppResume ==
  /\ AppTurn /\ (AllOver \/ state = "PauseRequested")
  /\ state \in {"Paused", "PauseRequested", "BackgroundSyncInProgress"} /\ ~cacheTask.on
  /\ Orderly => state = "Paused" \/ NoCache
  /\ ThroughCache("resume")
  /\ UNCHANGED <<serverPos, data, preventPauseCount, closed, cached, initialCache>>

\* backgroundSync; in the other cases the failure block is called, nothing else.
AppBackgroundSync ==
  /\ AppTurn /\ AllOver /\ request = None
  /\ \E ignoreSessionState \in {FALSE, ~Orderly /\ ~closed} : state = "Paused" \/ ignoreSessionState
  /\ state' = "BackgroundSyncInProgress"
  /\ onBackgroundSyncDone' = TRUE /\ onBackgroundSyncFail' = TRUE
  /\ UNCHANGED onResumeDone
  /\ ServerSync(jobs, None, FALSE, FALSE)
  /\ UNCHANGED <<serverPos, data, preventPauseCount, starting, closed, caches>>

AppReconnect ==
  /\ AppTurn /\ ~Orderly /\ request # None
  /\ ServerSync(Cancelled(jobs), None, FALSE, FALSE)
  /\ UNCHANGED <<serverPos, state, data, blocks, preventPauseCount, starting, closed, caches>>

AppClose ==
  /\ AppTurn /\ Quiet /\ ~closed
  /\ jobs' = Cancelled(jobs)
  /\ request' = None
  /\ initialCache' = 0
  /\ closed' = TRUE
  /\ state' = "Closed"
  /\ UNCHANGED <<serverPos, catchingUp, data, blocks, preventPauseCount, starting, cacheTask,
                 cached>>

RetainPreventPause ==
  /\ AppTurn
  /\ preventPauseCount < MaxPrevent
  /\ preventPauseCount' = preventPauseCount + 1
  /\ UNCHANGED <<serverPos, state, stream, data, blocks, starting, closed, caches>>

\* Mutation of ReleasePreventPause: a release too many is not ignored.
ReleaseTooMany ==
  /\ AppTurn
  /\ preventPauseCount' = preventPauseCount - 1
  /\ UNCHANGED <<serverPos, state, stream, data, blocks, starting, closed, caches>>

\* releasePreventPause, or the background task expires: setPreventPauseCount.
ReleasePreventPause ==
  /\ AppTurn
  /\ preventPauseCount > 0
  /\ \E n \in {0, preventPauseCount - 1} :
       /\ preventPauseCount' = n
       /\ IF n = 0 /\ state = "PauseRequested"
          THEN /\ Quiet
               /\ onResumeDone' = FALSE /\ onBackgroundSyncDone' = FALSE
               /\ onBackgroundSyncFail' = FALSE
               /\ jobs' = Cancelled(jobs) /\ request' = None /\ state' = "Paused"
               /\ UNCHANGED catchingUp
          ELSE UNCHANGED <<state, stream, blocks>>
  /\ UNCHANGED <<serverPos, data, starting, closed, caches>>

App ==
  \/ AppStart \/ AppPause \/ AppResume \/ AppBackgroundSync \/ AppReconnect \/ AppClose
  \/ RetainPreventPause \/ ReleasePreventPause

(***************************************************************************)
(* The homeserver, the network and the background sync service.            *)
(***************************************************************************)
ServerAdvance ==
  /\ serverPos < MaxPos
  /\ serverPos' = serverPos + 1
  /\ UNCHANGED <<state, stream, data, blocks, preventPauseCount, starting, closed, caches>>

\* Syncs made for a push while the session sleeps, from its token or an older one.
BackgroundService ==
  /\ state \in {"StoreDataReady", "Paused"} /\ ~closed /\ ~cacheTask.on /\ token < serverPos
  /\ \E from \in 1..token : cached' = <<from, serverPos>>
  /\ UNCHANGED <<serverPos, state, stream, data, blocks, preventPauseCount, starting, closed,
                 cacheTask, initialCache>>

\* Mutation of Response: a response that nobody waits for any more is handled.
LateResponse(j) ==
  /\ MainFree /\ jobs[j].stage \in {"sent", "cancelled"}
  /\ jobs' = [jobs EXCEPT ![j].stage = "answered", ![j].to = serverPos]
  /\ UNCHANGED <<serverPos, state, request, catchingUp, data, blocks, preventPauseCount,
                 starting, closed, caches>>

\* The response is delivered, even when the request was cancelled too late.
Response(j) ==
  /\ MainFree /\ jobs[j].stage \in {"sent", "cancelled"}
  /\ jobs' = IF request = None THEN Freed(j)
             ELSE [jobs EXCEPT ![j].stage = "answered", ![j].to = serverPos]
  /\ UNCHANGED <<serverPos, state, request, catchingUp, data, blocks, preventPauseCount,
                 starting, closed, caches>>

\* A failure is delivered: handleServerSyncError, up to the callback of the
\* background sync.
Failure(j, error) ==
  /\ MainFree
  /\ jobs[j].stage = IF error = "cancelled" THEN "cancelled" ELSE "sent"
  /\ error = "interrupted" => Interruptions
  /\ jobs' = IF request = None THEN Freed(j)
             ELSE [jobs EXCEPT ![j].error = error,
                               ![j].stage = IF onBackgroundSyncFail THEN "bgFail"
                                            ELSE "afterBgFail"]
  /\ UNCHANGED <<serverPos, state, request, catchingUp, data, blocks, preventPauseCount,
                 starting, closed, caches>>

\* isUnknownTokenError: nothing more is done.
UnknownToken(j) ==
  /\ MainFree /\ jobs[j].stage = "sent"
  /\ jobs' = Freed(j)
  /\ state' = IF request = None THEN state ELSE "UnknownToken"
  /\ UNCHANGED <<serverPos, request, catchingUp, data, blocks, preventPauseCount, starting,
                 closed, caches>>

(***************************************************************************)
(* The handling of a response.                                             *)
(***************************************************************************)
\* Mutation of BeginHandling: the pass is at its end before its events are stored.
BeginAtEnd(j) ==
  /\ MainFree /\ jobs[j].stage = "answered"
  /\ jobs' = [jobs EXCEPT ![j].stage = "handling", ![j].from = jobs[j].to]
  /\ UNCHANGED <<serverPos, state, request, catchingUp, data, blocks, preventPauseCount,
                 starting, closed, caches>>

\* dispatch_group_notify: cache an initial response unless it is the cached one (two
\* live ones come in their order), decide the next timeout.
BeginHandling(j) ==
  /\ MainFree /\ jobs[j].stage = "answered"
  /\ initialCache' = IF token = 0 /\ initialCache < jobs[j].to THEN jobs[j].to
                     ELSE initialCache
  /\ \E more \in BOOLEAN :
       /\ more => /\ catchingUp /\ jobs[j].to > jobs[j].from
                  /\ (IF jobs[j].initial THEN "initial" ELSE "later") \in Bursts
       /\ jobs' = [jobs EXCEPT ![j].stage = "handling", ![j].more = more]
  /\ UNCHANGED <<serverPos, state, request, catchingUp, data, blocks, preventPauseCount,
                 starting, closed, cacheTask, cached>>

\* Mutation of EndHandling: a pause stops the handling, the token is stored.
EndUnlessPaused(j) ==
  /\ MainFree /\ jobs[j].stage = "handling"
  /\ handled' = IF state = "Paused" THEN handled
                ELSE handled \cup ((jobs[j].from + 1)..jobs[j].to)
  /\ token' = jobs[j].to
  /\ jobs' = Moved(j, "handled")
  /\ UNCHANGED <<serverPos, state, request, catchingUp, blocks, preventPauseCount, starting,
                 closed, caches>>

\* The rooms of the response have been handled: store the token, commit.
EndHandling(j) ==
  /\ MainFree /\ jobs[j].stage = "handling"
  /\ handled' = handled \cup ((jobs[j].from + 1)..jobs[j].to)
  /\ token' = jobs[j].to
  /\ initialCache' = 0
  /\ jobs' = [jobs EXCEPT ![j] = [@ EXCEPT !.stage = "handled", !.long = FALSE,
                                          !.from = 0, !.to = 0]]
  /\ UNCHANGED <<serverPos, state, request, catchingUp, blocks, preventPauseCount, starting,
                 closed, cacheTask, cached>>

\* Mutation of SyncForMore: the missing return.
SyncForMoreAndGoOn(j) ==
  /\ MainFree /\ jobs[j].stage = "handled" /\ jobs[j].more
  /\ state \notin {"PauseRequested", "Paused"}
  /\ ServerSync(Moved(j, "afterBg"), request, FALSE, jobs[j].initial)
  /\ UNCHANGED <<serverPos, state, data, blocks, preventPauseCount, starting, closed, caches>>

\* Do a loop of /syncs until catching up is done.
SyncForMore(j) ==
  /\ MainFree /\ jobs[j].stage = "handled" /\ jobs[j].more
  /\ state \notin {"PauseRequested", "Paused"}
  /\ ServerSync(Freed(j), request, FALSE, jobs[j].initial)
  /\ UNCHANGED <<serverPos, state, data, blocks, preventPauseCount, starting, closed, caches>>

CallBackgroundSyncDone(j) ==
  /\ MainFree /\ jobs[j].stage = "handled"
  /\ ~jobs[j].more \/ state \in {"PauseRequested", "Paused"}
  /\ jobs' = Moved(j, IF onBackgroundSyncDone THEN "bgDone" ELSE "afterBg")
  /\ UNCHANGED <<serverPos, state, request, catchingUp, data, blocks, preventPauseCount,
                 starting, closed, caches>>

\* The block of backgroundSync returns: pause again if nobody resumed meanwhile.
BackgroundSyncDone(j) ==
  /\ jobs[j].stage = "bgDone"
  /\ onBackgroundSyncDone' = FALSE
  /\ IF state = "BackgroundSyncInProgress"
     THEN IF preventPauseCount > 0
          THEN /\ state' = "PauseRequested"
               /\ jobs' = Moved(j, "afterBg") /\ UNCHANGED request
          ELSE /\ state' = "Paused"
               /\ jobs' = Freed(j) /\ request' = None
     ELSE jobs' = Moved(j, "afterBg") /\ UNCHANGED <<state, request>>
  /\ UNCHANGED <<serverPos, catchingUp, data, onResumeDone, onBackgroundSyncFail,
                 preventPauseCount, starting, closed, caches>>

CallResumeDone(j) ==
  /\ jobs[j].stage = "afterBg"
  /\ jobs' = Moved(j, IF onResumeDone THEN "resumeDone" ELSE "afterResume")
  /\ UNCHANGED <<serverPos, state, request, catchingUp, data, blocks, preventPauseCount,
                 starting, closed, caches>>

ResumeDone(j) ==
  /\ jobs[j].stage = "resumeDone"
  /\ onResumeDone' = FALSE
  /\ jobs' = IF closed \/ state = "Paused" THEN Freed(j) ELSE Moved(j, "afterResume")
  /\ UNCHANGED <<serverPos, state, request, catchingUp, data, onBackgroundSyncDone,
                 onBackgroundSyncFail, preventPauseCount, starting, closed, caches>>

\* The event stream is running by now: the change of state is notified.
SetRunning(j) ==
  /\ jobs[j].stage = "afterResume"
  /\ state' = IF state \in {"PauseRequested", "Paused"} THEN state ELSE "Running"
  /\ jobs' = Moved(j, "running")
  /\ UNCHANGED <<serverPos, request, catchingUp, data, blocks, preventPauseCount, starting,
                 closed, caches>>

\* Pursue live events listening.
PursueListening(j) ==
  /\ jobs[j].stage = "running"
  /\ IF closed \/ state = "Paused"
     THEN jobs' = Freed(j) /\ UNCHANGED <<request, catchingUp>>
     ELSE ServerSync(Freed(j), request, ~jobs[j].more, FALSE)
  /\ UNCHANGED <<serverPos, state, data, blocks, preventPauseCount, starting, closed, caches>>

(***************************************************************************)
(* The rest of handleServerSyncError, and the retries it arms.             *)
(***************************************************************************)
BackgroundSyncFail(j) ==
  /\ jobs[j].stage = "bgFail"
  /\ onBackgroundSyncFail' = FALSE
  /\ IF state = "BackgroundSyncInProgress"
     THEN IF preventPauseCount > 0
          THEN /\ state' = "PauseRequested"
               /\ jobs' = Moved(j, "afterBgFail") /\ UNCHANGED request
          ELSE /\ state' = "Paused"
               /\ jobs' = Freed(j) /\ request' = None
     ELSE jobs' = Moved(j, "afterBgFail") /\ UNCHANGED <<state, request>>
  /\ UNCHANGED <<serverPos, catchingUp, data, onResumeDone, onBackgroundSyncDone,
                 preventPauseCount, starting, closed, caches>>

Failed(j) == jobs[j].stage = "afterBgFail"
CancelledError(j) == jobs[j].error \in {"cancelled", "interrupted"}

\* The failure block of start.
InitialSyncFails(j) ==
  /\ Failed(j) /\ jobs[j].initial
  /\ state' = "InitialSyncFailed"
  /\ jobs' = Freed(j)
  /\ UNCHANGED <<serverPos, request, catchingUp, data, blocks, preventPauseCount, starting,
                 closed, caches>>

\* "The app should have paused the SDK before but it did not."
PauseOnCancellation(j) ==
  /\ Failed(j) /\ ~jobs[j].initial /\ CancelledError(j)
  /\ IF Pauseable(state) /\ preventPauseCount = 0
     THEN /\ state' = "Paused"
          /\ onResumeDone' = FALSE /\ onBackgroundSyncDone' = FALSE
          /\ onBackgroundSyncFail' = FALSE
          /\ request' = None
          /\ jobs' = Cancelled(Freed(j))
     ELSE /\ state' = IF Pauseable(state) THEN "PauseRequested" ELSE state
          /\ jobs' = Freed(j)
          /\ UNCHANGED <<request, blocks>>
  /\ UNCHANGED <<serverPos, catchingUp, data, preventPauseCount, starting, closed, caches>>

\* The short request timed out: there is nothing to catch up, switch to long polls.
TimedOut(j) == jobs[j].error = "timeout" /\ ~jobs[j].long
\* Mutation of SwitchToLongPoll: the next request is a short one again.
KeepShortPoll(j) ==
  /\ Failed(j) /\ ~jobs[j].initial /\ TimedOut(j)
  /\ ServerSync(Cancelled(Freed(j)), None, FALSE, FALSE)
  /\ UNCHANGED <<serverPos, state, data, blocks, preventPauseCount, starting, closed, caches>>

SwitchToLongPoll(j) ==
  /\ Failed(j) /\ ~jobs[j].initial /\ TimedOut(j)
  /\ ServerSync(Cancelled(Freed(j)), None, TRUE, FALSE)
  /\ UNCHANGED <<serverPos, state, data, blocks, preventPauseCount, starting, closed, caches>>

\* Mutation of ArmRetry: no retry.
GiveUp(j) ==
  /\ Failed(j) /\ ~jobs[j].initial /\ ~CancelledError(j) /\ ~TimedOut(j)
  /\ state' = IF jobs[j].error = "matrix" THEN "SyncError" ELSE "HomeserverNotReachable"
  /\ jobs' = Freed(j)
  /\ UNCHANGED <<serverPos, request, catchingUp, data, blocks, preventPauseCount, starting,
                 closed, caches>>

ArmRetry(j) ==
  /\ Failed(j) /\ ~jobs[j].initial /\ ~CancelledError(j) /\ ~TimedOut(j)
  /\ IF jobs[j].error = "matrix"
     THEN state' = "SyncError" /\ jobs' = Waiting(j, "retry")
     ELSE /\ state' = "HomeserverNotReachable"
          /\ \E stage \in {"retryNet", "observer"} : jobs' = Waiting(j, stage)
  /\ UNCHANGED <<serverPos, request, catchingUp, data, blocks, preventPauseCount, starting,
                 closed, caches>>

\* The delay is over: retry if there is an eventStreamRequest, whichever it is.
Retry(j) ==
  /\ MainFree /\ jobs[j].stage \in {"retry", "retryNet", "observer"}
  /\ IF request = None
     THEN /\ jobs[j].stage # "observer"
          /\ jobs' = Freed(j)
          /\ UNCHANGED <<state, request, catchingUp>>
     ELSE /\ state' = IF jobs[j].stage = "retry" THEN state ELSE "SyncInProgress"
          /\ ServerSync(Freed(j), request, FALSE, FALSE)
  /\ UNCHANGED <<serverPos, data, blocks, preventPauseCount, starting, closed, caches>>

(***************************************************************************)
(* The first steps of start, and the background sync cache.                *)
(***************************************************************************)
\* The profile has been fetched and crypto has started, or that failed.  A close is
\* noticed if it came before crypto was started.
Started ==
  /\ MainFree /\ starting
  /\ starting' = FALSE
  /\ \/ ServerSync(jobs, request, FALSE, TRUE) /\ UNCHANGED state
     \/ closed /\ UNCHANGED <<state, stream>>
     \/ /\ \E s \in {"InitialSyncFailed", "UnknownToken"} : state' = s
        /\ UNCHANGED stream
  /\ UNCHANGED <<serverPos, data, blocks, preventPauseCount, closed, caches>>

\* handleSyncResponse for responses that follow the token, then deleteData.
HandleCached ==
  /\ MainFree /\ cacheTask.on /\ cacheTask.apply
  /\ handled' = handled \cup ((cached[1] + 1)..cached[2])
  /\ token' = cached[2]
  /\ cacheTask' = [cacheTask EXCEPT !.apply = FALSE]
  /\ UNCHANGED <<serverPos, state, stream, blocks, preventPauseCount, starting, closed, cached,
                 initialCache>>

CacheProcessed ==
  /\ MainFree /\ cacheTask.on /\ ~cacheTask.apply
  /\ cached' = <<0, 0>>
  /\ cacheTask' = NoCacheTask
  /\ IF cacheTask.then = "start" THEN StartFrom ELSE Resume(cacheTask.old) /\ UNCHANGED starting
  /\ UNCHANGED <<serverPos, data, preventPauseCount, closed, initialCache>>

Handle(j) ==
  \/ BeginHandling(j) \/ EndHandling(j) \/ SyncForMore(j) \/ CallBackgroundSyncDone(j)
  \/ BackgroundSyncDone(j) \/ CallResumeDone(j) \/ ResumeDone(j) \/ SetRunning(j)
  \/ PursueListening(j)
HandleError(j) ==
  \/ BackgroundSyncFail(j) \/ InitialSyncFails(j) \/ PauseOnCancellation(j)
  \/ SwitchToLongPoll(j) \/ ArmRetry(j)
Network(j) ==
  \/ Response(j) \/ UnknownToken(j)
  \/ \E error \in Errors \ {"none"} : Failure(j, error)
Startup == Started \/ HandleCached \/ CacheProcessed

Next ==
  \/ App \/ ServerAdvance \/ BackgroundService \/ Startup
  \/ \E j \in Jobs : Network(j) \/ Handle(j) \/ HandleError(j) \/ Retry(j)

Spec == Init /\ [][Next]_vars

\* Requests are answered or time out, main-thread callbacks run, timers fire.
Fairness ==
  /\ WF_vars(Startup)
  /\ \A j \in Jobs : WF_vars(Network(j)) /\ WF_vars(Handle(j) \/ HandleError(j) \/ Retry(j))
FairSpec == Spec /\ Fairness

(***************************************************************************)
(* Properties.                                                             *)
(***************************************************************************)
Active == {j \in Jobs : jobs[j].stage \in Pending}

\* Safety, whatever the application does: the store has been given every event
\* that the sync token covers, even when two passes of the loop race or the
\* token goes back.
NoSyncGap == 1..token \subseteq handled

\* Safety: whatever is still to be handled, responses on their way or left by the
\* background sync service, follows on from what the store has been given.
PassesCovered ==
  /\ \A j \in Jobs : 1..jobs[j].from \subseteq handled
  /\ cacheTask.apply => cacheTask.on /\ 1..cached[1] \subseteq handled

\* Safety: there is one sync loop.
OneSyncLoop ==
  /\ Cardinality(Active) <= 1
  /\ Active # {} => ~starting /\ ~cacheTask.on

\* Safety: a paused session has no request, and no pass that would launch one:
\* "No more live events will be received by the listeners".
PausedIsQuiet == state = "Paused" => request = None /\ Active = {} /\ ~starting

\* Safety: in every state that promises more to come, a callback, a request or a
\* retry is there to bring it.
NotStuck ==
  /\ state \in {"SyncInProgress", "BackgroundSyncInProgress", "Running", "PauseRequested",
                "HomeserverNotReachable", "SyncError"} => Active # {} \/ starting
  /\ state = "ProcessingBackgroundSyncCache" => cacheTask.on

\* Refinement: a session used in an orderly way reads its stream in order, once,
\* without a gap, and keeps reading while it shows Running.
Reader == INSTANCE StreamReader WITH
            end <- serverPos, on <- state = "Running", read <- token, delivered <- handled
ReadsTheStream == Reader!Spec

\* Liveness: a session that is syncing gets somewhere: running, paused, in error.
SyncEnds == state = "SyncInProgress" ~> state # "SyncInProgress"
=============================================================================
