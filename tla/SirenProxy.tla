----------------------------- MODULE SirenProxy -----------------------------
(***************************************************************************)
(* The parent process, src/siren_proxy.cpp, from the moment fork returned  *)
(* in init_siren: the application's thread, which makes one API call at a  *)
(* time, the request thread, the response thread and, as far as the other  *)
(* process sees it, the recording thread.                                  *)
(*                                                                         *)
(* requestQueue is the ring of RequestSlots entries that LFQueueRing shows *)
(* LFQueue to be for one producer and one consumer.  The messages of       *)
(* add_vt_word and remove_vt_word are a "SYNC_VT_WORD_LIST" call.          *)
(***************************************************************************)
EXTENDS SirenChannels, Ring

CONSTANTS
  Calls,        \* the API calls the application makes
  RequestSlots, \* entries of requestQueue, 32 in the source
  InputStarts,  \* what start_input may answer: subset of BOOLEAN, TRUE is 0
  TimeoutsHappen, \* whether the three seconds of a synchronous call may pass
  FreedReads,   \* what reading req->msg after delete[] req may find: subset of
                \* {"kept", "clobbered"}, depending on the allocator
  FdReuse       \* whether epoll_create may return the number that the request
                \* thread's writer closed before: subset of BOOLEAN

AllCalls == {"start", "stop", "async", "sync"} \cup Passed

ASSUME OutcomesKnown ==
  /\ InputStarts \subseteq BOOLEAN
  /\ TimeoutsHappen \in BOOLEAN
  /\ FreedReads \subseteq {"kept", "clobbered"}
  /\ FdReuse \subseteq BOOLEAN
ASSUME CallsKnown == Calls \subseteq AllCalls
ASSUME RequestSlotsPositive == RequestSlots \in Nat \ {0}

VARIABLES
  api,          \* where the application's thread is
  calls,        \* calls made so far; the number of a call identifies it
  asyncCalls,   \* history: the asynchronous set_siren_state calls
  requestQueue, \* tickets pushed and not yet popped by the request thread
  lost,         \* history: the requests that found requestQueue full
  issued,       \* history: every message the API pushed for the base
  procStreamStart,
  hasCallback,  \* proc_callback is not nullptr
  revoked,      \* history: a start that failed took an earlier callback back
  stateChangeCallback, \* the call whose callback is installed, 0: the default
  waitStateChange,
  requestResponseLaunch,
  waitingInit,
  sirenBaseInitFailed,
  rq,           \* where the request thread is
  rqMsg,        \* the message it popped, a sequence of length 0 or 1
  rs,           \* where the response thread is
  rsMsg,        \* the message it handles, a sequence of length 0 or 1
  seen,         \* history: every response taken from the channel
  epollShared,  \* the reader's epollFD has the number the writer will close again
  epollOpen,    \* the reader's epollFD is still its own
  recordingStart, \* RecordingThread::recordingStart
  rec,          \* where the recording thread is
  frames        \* frames read from the microphone so far

callbackVars == <<hasCallback, revoked>>
apiVars == <<api, calls, asyncCalls, issued, procStreamStart, callbackVars>>
queueVars == <<requestQueue, lost>>
stateVars == <<stateChangeCallback, waitStateChange>>
initVars == <<requestResponseLaunch, waitingInit, sirenBaseInitFailed>>
rqVars == <<rq, rqMsg>>
rsVars == <<rs, rsMsg, seen>>
epollVars == <<epollShared, epollOpen>>
recVars == <<recordingStart, rec, frames>>
proxyVars == <<apiVars, stateVars, initVars, queueVars, rqVars, rsVars,
               epollVars, recVars>>

\* What pop finds at a ticket whose item an overflow has moved: nullptr.
NoRequest == Plain("null", 0)

ApiPC == {"waitLaunch", "waitInit", "joinRequestOnInit", "joinResponseOnInit",
          "ready", "starting", "stopping", "setting", "syncWait", "destroy",
          "joinRequest", "joinResponse", "waitpid", "done"}

ProxyTypes ==
  /\ api \in ApiPC
  /\ calls \in 0..(MaxCalls + 1)
  /\ asyncCalls \subseteq 1..MaxCalls
  /\ requestQueue \in Seq(Messages(RequestKinds) \cup {NoRequest})
  /\ lost \in Seq(Messages(RequestKinds))
  /\ issued \in Seq(Messages(RequestKinds))
  /\ procStreamStart \in BOOLEAN
  /\ hasCallback \in BOOLEAN /\ revoked \in BOOLEAN
  /\ stateChangeCallback \in 0..MaxCalls
  /\ waitStateChange \in BOOLEAN
  /\ requestResponseLaunch \in BOOLEAN
  /\ waitingInit \in BOOLEAN
  /\ sirenBaseInitFailed \in BOOLEAN
  /\ rq \in {"pop", "write", "compare", "exited"}
  /\ rqMsg \in Seq(Messages(RequestKinds)) /\ Len(rqMsg) <= 1
  /\ rs \in {"launch", "poll", "epoll", "event", "notify", "callback", "exited"}
  /\ rsMsg \in Seq(Messages(ResponseKinds)) /\ Len(rsMsg) <= 1
  /\ seen \in Seq(Messages(ResponseKinds))
  /\ epollShared \in BOOLEAN
  /\ epollOpen \in BOOLEAN
  /\ recordingStart \in BOOLEAN
  /\ rec \in {"read", "write", "gone"}
  /\ frames \in 0..MaxFrames

ProxyInit ==
  /\ api = "waitLaunch"
  /\ calls = 0
  /\ asyncCalls = {}
  /\ requestQueue = <<>>
  /\ lost = <<>>
  /\ issued = <<>>
  /\ procStreamStart = FALSE
  /\ hasCallback = FALSE /\ revoked = FALSE
  /\ stateChangeCallback = 0
  /\ waitStateChange = FALSE
  /\ requestResponseLaunch = FALSE
  /\ waitingInit = FALSE
  /\ sirenBaseInitFailed = FALSE
  /\ rq = "pop"
  /\ rqMsg = <<>>
  /\ rs = "launch"
  /\ rsMsg = <<>>
  /\ seen = <<>>
  /\ epollShared \in FdReuse
  /\ epollOpen = TRUE
  /\ recordingStart = FALSE
  /\ rec = "read"
  /\ frames = 0

\* requestQueue.push, which does not say when it drops what it is given.
PushRequest(m) ==
  /\ requestQueue' = PushTo(requestQueue, m, RequestSlots, NoRequest)
  /\ lost' = IF Len(requestQueue) < RequestSlots THEN lost ELSE Append(lost, m)

-----------------------------------------------------------------------------
(* init_siren, after fork *)

\* waitingRequestResponseThread; then the recording thread is detached.
InitLaunched ==
  /\ api = "waitLaunch"
  /\ requestResponseLaunch
  /\ api' = "waitInit"
  /\ UNCHANGED <<calls, asyncCalls, issued, procStreamStart, callbackVars,
                 stateVars, initVars, queueVars, rqVars, rsVars, epollVars,
                 recVars, chanVars>>

\* Mutant of InitAnswered: initCond.wait without its predicate.
InitAnsweredEarly ==
  /\ api = "waitInit"
  /\ api' = "ready"
  /\ UNCHANGED <<calls, asyncCalls, issued, procStreamStart, callbackVars,
                 stateVars, initVars, queueVars, rqVars, rsVars, epollVars,
                 recVars, chanVars>>

\* The base answered.  On failure only the request thread is told to stop, and
\* the result that init_siren returns stays what the configuration gave, OK.
InitAnswered ==
  /\ api = "waitInit"
  /\ waitingInit
  /\ \/ /\ ~sirenBaseInitFailed
        /\ api' = "ready"
        /\ UNCHANGED queueVars
     \/ /\ sirenBaseInitFailed
        /\ api' = "joinRequestOnInit"
        /\ PushRequest(Plain("DESTROY_ON_INIT", 0))
  /\ UNCHANGED <<calls, asyncCalls, issued, procStreamStart, callbackVars,
                 stateVars, initVars, rqVars, rsVars, epollVars, recVars, chanVars>>

\* requestThread.join(), responseThread.join(), recordingThread->stop().
InitFailureJoins ==
  /\ \/ api = "joinRequestOnInit" /\ rq = "exited" /\ api' = "joinResponseOnInit"
        /\ UNCHANGED recVars
     \/ api = "joinResponseOnInit" /\ rs = "exited" /\ api' = "ready"
        /\ rec' = "gone" /\ recordingStart' = TRUE /\ UNCHANGED frames
  /\ UNCHANGED <<calls, asyncCalls, issued, procStreamStart, callbackVars,
                 stateVars, initVars, queueVars, rqVars, rsVars, epollVars,
                 chanVars>>

-----------------------------------------------------------------------------
(* API calls.  A call whose early return changes nothing is a stutter. *)

MayCall(c) == api = "ready" /\ c \in Calls /\ calls < MaxCalls

Issue(m) ==
  /\ PushRequest(m)
  /\ issued' = Append(issued, m)

\* start_siren_process_stream up to recordingStart = true.  When start_input
\* fails, proc_callback is reset to nullptr.
StartProcessStream ==
  /\ MayCall("start")
  /\ ~procStreamStart
  /\ calls' = calls + 1
  /\ \E ok \in InputStarts :
       /\ hasCallback' = ok
       /\ revoked' = (revoked \/ (hasCallback /\ ~ok))
       /\ recordingStart' = (recordingStart \/ ok)
       /\ api' = IF ok THEN "starting" ELSE "ready"
  /\ UNCHANGED <<asyncCalls, issued, procStreamStart, stateVars, initVars,
                 queueVars, rqVars, rsVars, epollVars, rec, frames, chanVars>>

PushStart ==
  /\ api = "starting"
  /\ procStreamStart' = TRUE
  /\ Issue(Plain("START_PROCESS_STREAM", calls))
  /\ api' = "ready"
  /\ UNCHANGED <<calls, asyncCalls, callbackVars, stateVars, initVars, rqVars,
                 rsVars, epollVars, recVars, chanVars>>

StopProcessStream ==
  /\ MayCall("stop")
  /\ procStreamStart
  /\ calls' = calls + 1
  /\ procStreamStart' = FALSE
  /\ Issue(Plain("STOP_PROCESS_STREAM", calls + 1))
  /\ api' = "stopping"
  /\ UNCHANGED <<asyncCalls, callbackVars, stateVars, initVars, rqVars, rsVars,
                 epollVars, recVars, chanVars>>

\* recordingThread->pause(); after a failed init the recorder is gone.
PauseRecording ==
  /\ api = "stopping"
  /\ recordingStart' = FALSE
  /\ api' = "ready"
  /\ UNCHANGED <<calls, asyncCalls, issued, procStreamStart, callbackVars,
                 stateVars, initVars, queueVars, rqVars, rsVars, epollVars,
                 rec, frames, chanVars>>

\* set_siren_state with a callback: one slot for the callbacks of all calls.
SetStateAsync(s) ==
  /\ MayCall("async")
  /\ calls' = calls + 1
  /\ asyncCalls' = asyncCalls \cup {calls + 1}
  /\ stateChangeCallback' = calls + 1
  /\ Issue(Message("SET_STATE", calls + 1, s))
  /\ UNCHANGED <<api, procStreamStart, callbackVars, waitStateChange, initVars,
                 rqVars, rsVars, epollVars, recVars, chanVars>>

\* Mutant of SetStateSync: the flag is not cleared.
SetStateSyncStale ==
  /\ MayCall("sync")
  /\ calls' = calls + 1
  /\ api' = "setting"
  /\ UNCHANGED <<asyncCalls, issued, procStreamStart, callbackVars, stateVars,
                 initVars, queueVars, rqVars, rsVars, epollVars, recVars, chanVars>>

\* set_siren_state without one: clear the flag, without the mutex ...
SetStateSync ==
  /\ MayCall("sync")
  /\ calls' = calls + 1
  /\ waitStateChange' = FALSE
  /\ api' = "setting"
  /\ UNCHANGED <<asyncCalls, issued, procStreamStart, callbackVars,
                 stateChangeCallback, initVars, queueVars, rqVars, rsVars,
                 epollVars, recVars, chanVars>>

\* ... push the request ...
PushSetState(s) ==
  /\ api = "setting"
  /\ Issue(Message("SET_STATE", calls, s))
  /\ api' = "syncWait"
  /\ UNCHANGED <<calls, asyncCalls, procStreamStart, callbackVars, stateVars,
                 initVars, rqVars, rsVars, epollVars, recVars, chanVars>>

\* ... and wait for the flag, three seconds at most.
SyncReturn ==
  /\ api = "syncWait"
  /\ waitStateChange \/ TimeoutsHappen
  /\ api' = "ready"
  /\ UNCHANGED <<calls, asyncCalls, issued, procStreamStart, callbackVars,
                 stateVars, initVars, queueVars, rqVars, rsVars, epollVars,
                 recVars, chanVars>>

\* set_siren_steer and the calls that change the wake-word list.
PassRequest(kind) ==
  /\ MayCall(kind)
  /\ calls' = calls + 1
  /\ Issue(Plain(kind, calls + 1))
  /\ UNCHANGED <<api, asyncCalls, procStreamStart, callbackVars, stateVars,
                 initVars, rqVars, rsVars, epollVars, recVars, chanVars>>

-----------------------------------------------------------------------------
(* destroy_siren *)

\* The recorder is told to stop and its end of the data socket is closed.
DestroyRecorder ==
  /\ api = "ready"
  /\ rec' = "gone"
  /\ recordingStart' = TRUE
  /\ wireOpen' = FALSE
  /\ api' = "destroy"
  /\ UNCHANGED <<calls, asyncCalls, issued, procStreamStart, callbackVars,
                 stateVars, initVars, queueVars, rqVars, rsVars, epollVars,
                 frames, reqChan, respChan, wire, baseAlive>>

\* stopRequestThread(false) pushes the request ...
PushDestroy ==
  /\ api = "destroy"
  /\ Issue(Plain("DESTROY", 0))
  /\ api' = "joinRequest"
  /\ UNCHANGED <<calls, asyncCalls, procStreamStart, callbackVars, stateVars,
                 initVars, rqVars, rsVars, epollVars, recVars, chanVars>>

\* ... and joins; then the response thread is joined and the child reaped.
DestroyJoins ==
  /\ \/ api = "joinRequest" /\ rq = "exited" /\ api' = "joinResponse"
     \/ api = "joinResponse" /\ rs = "exited" /\ api' = "waitpid"
     \/ api = "waitpid" /\ ~baseAlive /\ api' = "done"
  /\ UNCHANGED <<calls, asyncCalls, issued, procStreamStart, callbackVars,
                 stateVars, initVars, queueVars, rqVars, rsVars, epollVars,
                 recVars, chanVars>>

-----------------------------------------------------------------------------
(* requestThreadHandler.  requestThreadStop has no writer, so its test and  *)
(* the message sent after the loop are dead code.                           *)

\* When the thread returns, its writer's destructor closes channel->sockets[1]
\* again: by now that number may be the response thread's epollFD.
RequestThreadExits ==
  /\ rq' = "exited"
  /\ epollOpen' = (epollOpen /\ ~epollShared)

\* Mutant of RequestPop: the empty pop that follows an overflow ends the thread.
RequestPopGivingUp ==
  /\ rq = "pop"
  /\ requestQueue # <<>>
  /\ requestQueue' = Tail(requestQueue)
  /\ \/ /\ Head(requestQueue).kind \in {"DESTROY_ON_INIT", "null"}
        /\ RequestThreadExits
        /\ UNCHANGED rqMsg
     \/ /\ Head(requestQueue).kind \notin {"DESTROY_ON_INIT", "null"}
        /\ rq' = "write"
        /\ rqMsg' = <<Head(requestQueue)>>
        /\ UNCHANGED epollOpen
  /\ UNCHANGED <<apiVars, lost, stateVars, initVars, rsVars, epollShared, recVars,
                 chanVars>>

\* DESTROY_ON_INIT ends the thread without a word to the base; a null is skipped.
RequestPop ==
  /\ rq = "pop"
  /\ requestQueue # <<>>
  /\ requestQueue' = Tail(requestQueue)
  /\ \/ /\ Head(requestQueue).kind = "DESTROY_ON_INIT"
        /\ RequestThreadExits
        /\ UNCHANGED rqMsg
     \/ /\ Head(requestQueue) = NoRequest
        /\ UNCHANGED <<rqVars, epollOpen>>
     \/ /\ Head(requestQueue).kind \notin {"DESTROY_ON_INIT", "null"}
        /\ rq' = "write"
        /\ rqMsg' = <<Head(requestQueue)>>
        /\ UNCHANGED epollOpen
  /\ UNCHANGED <<apiVars, lost, stateVars, initVars, rsVars, epollShared, recVars,
                 chanVars>>

\* Mutant of RequestWrite: DESTROY is handled like DESTROY_ON_INIT, not sent.
RequestWriteNoDestroy ==
  /\ rq = "write"
  /\ reqChan' = IF Head(rqMsg).kind = "DESTROY" THEN reqChan
                ELSE Append(reqChan, Head(rqMsg))
  /\ rq' = "compare"
  /\ UNCHANGED <<apiVars, stateVars, initVars, queueVars, rqMsg, rsVars,
                 epollVars, recVars, respChan, wire, wireOpen, baseAlive>>

RequestWrite ==
  /\ rq = "write"
  /\ reqChan' = Append(reqChan, Head(rqMsg))
  /\ rq' = "compare"
  /\ UNCHANGED <<apiVars, stateVars, initVars, queueVars, rqMsg, rsVars,
                 epollVars, recVars, respChan, wire, wireOpen, baseAlive>>

\* delete [] req; if (req->msg == DESTROY) return: the message is freed before it
\* is read, and an allocator that reuses the block at once hides the DESTROY.
RequestCompare ==
  /\ rq = "compare"
  /\ rqMsg' = <<>>
  /\ \E found \in FreedReads :
       IF found = "kept" /\ Head(rqMsg).kind = "DESTROY"
         THEN RequestThreadExits
         ELSE rq' = "pop" /\ UNCHANGED epollOpen
  /\ UNCHANGED <<apiVars, stateVars, initVars, queueVars, rsVars, epollShared,
                 recVars, chanVars>>

-----------------------------------------------------------------------------
(* responseThreadHandler *)

\* Top of the loop: requestResponseLaunch = true under launchMutex.  pollMessage
\* then fails if the epoll descriptor was closed, which ends the thread.
ResponseLoop ==
  /\ rs \in {"launch", "poll"}
  /\ requestResponseLaunch' = TRUE
  /\ rs' = IF epollOpen THEN "epoll" ELSE "exited"
  /\ UNCHANGED <<apiVars, stateVars, waitingInit, sirenBaseInitFailed,
                 queueVars, rqVars, rsMsg, seen, epollVars, recVars, chanVars>>

\* Take a message.  A thread already inside epoll_wait keeps its descriptor.
ResponseTake ==
  /\ rs = "epoll"
  /\ respChan # <<>>
  /\ respChan' = Tail(respChan)
  /\ seen' = Append(seen, Head(respChan))
  /\ LET m == Head(respChan) IN
       \/ /\ m.kind \in InitAnswers
          /\ waitingInit' = TRUE
          /\ sirenBaseInitFailed' = (sirenBaseInitFailed \/ m.kind = "ON_INIT_FAILED")
          /\ rs' = IF m.kind = "ON_INIT_FAILED" THEN "exited" ELSE "poll"
          /\ UNCHANGED rsMsg
       \/ /\ m.kind = "ON_VOICE_EVENT"
          /\ rs' = "event" /\ rsMsg' = <<m>>
          /\ UNCHANGED <<waitingInit, sirenBaseInitFailed>>
       \/ /\ m.kind = "ON_CALLBACK"
          /\ rs' = "notify" /\ rsMsg' = <<m>>
          /\ UNCHANGED <<waitingInit, sirenBaseInitFailed>>
       \/ /\ m.kind = "ON_DESTROY"
          /\ rs' = "exited"
          /\ UNCHANGED <<rsMsg, waitingInit, sirenBaseInitFailed>>
  /\ UNCHANGED <<apiVars, stateVars, requestResponseLaunch, queueVars, rqVars,
                 epollVars, recVars, reqChan, wire, wireOpen, baseAlive>>

\* Mutant of ResponseNotify: only the user's callback is served.
ResponseNotifySilent ==
  /\ rs = "notify"
  /\ rs' = "callback"
  /\ UNCHANGED <<apiVars, stateVars, initVars, queueVars, rqVars, rsMsg, seen,
                 epollVars, recVars, chanVars>>

\* waitStateChange = true under stateChangeMutex ...
ResponseNotify ==
  /\ rs = "notify"
  /\ waitStateChange' = TRUE
  /\ rs' = "callback"
  /\ UNCHANGED <<apiVars, stateChangeCallback, initVars, queueVars, rqVars,
                 rsMsg, seen, epollVars, recVars, chanVars>>

\* ... then the user's callback runs, as it does for a voice event.
ResponseCallback ==
  /\ rs \in {"event", "callback"}
  /\ rs' = "poll"
  /\ rsMsg' = <<>>
  /\ UNCHANGED <<apiVars, stateVars, initVars, queueVars, rqVars, seen,
                 epollVars, recVars, chanVars>>

-----------------------------------------------------------------------------
(* The recording thread as the base sees it; RecordingThread has the rest. *)

RecordRead ==
  /\ rec = "read"
  /\ recordingStart
  /\ frames < MaxFrames
  /\ frames' = frames + 1
  /\ rec' = "write"
  /\ UNCHANGED <<apiVars, stateVars, initVars, queueVars, rqVars, rsVars,
                 epollVars, recordingStart, chanVars>>

RecordWrite ==
  /\ rec = "write"
  /\ wire' = wire + 1
  /\ rec' = "read"
  /\ UNCHANGED <<apiVars, stateVars, initVars, queueVars, rqVars, rsVars,
                 epollVars, recordingStart, frames, reqChan, respChan, wireOpen,
                 baseAlive>>

-----------------------------------------------------------------------------
ApiCall ==
  \/ StartProcessStream \/ StopProcessStream
  \/ \E s \in States : SetStateAsync(s)
  \/ SetStateSync
  \/ \E kind \in Passed : PassRequest(kind)
  \/ DestroyRecorder

\* A call that was begun goes on; whether to make one is the application's choice.
ApiContinues ==
  \/ InitLaunched \/ InitAnswered \/ InitFailureJoins
  \/ PushStart \/ PauseRecording
  \/ \E s \in States : PushSetState(s)
  \/ SyncReturn \/ PushDestroy \/ DestroyJoins

RequestThread == RequestPop \/ RequestWrite \/ RequestCompare
ResponseThread ==
  ResponseLoop \/ ResponseTake \/ ResponseNotify \/ ResponseCallback
Recorder == RecordRead \/ RecordWrite

ProxyNext == ApiCall \/ ApiContinues \/ RequestThread \/ ResponseThread \/ Recorder
=============================================================================
