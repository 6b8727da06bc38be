---------------------------- MODULE SirenSession ----------------------------
(***************************************************************************)
(* A session of BlackSiren: the proxy and the base it forked, from fork to *)
(* the return of destroy_siren, over the two channels and the data socket. *)
(***************************************************************************)
EXTENDS SirenProxy, SirenBase

VARIABLE
  overlap       \* history: during a synchronous set_siren_state, the state changes
                \* that were on their way when it cleared the flag it waits for

vars == <<chanVars, proxyVars, baseVars, overlap>>

\* A request once popped stays in rqMsg until it is compared; it is in flight
\* only before the write.  An acknowledgement stays in rsMsg while the user's
\* callback runs; it raises the flag before that.
RequestInHand == IF rq = "write" THEN rqMsg ELSE <<>>
AnswerInHand == IF rs = "notify" THEN rsMsg ELSE <<>>

\* The calls whose state change is a request or an acknowledgement somewhere.
UnderWay ==
  LET places == {requestQueue, RequestInHand, reqChan, processQueue, todo, respChan,
                 AnswerInHand}
  IN  {m.call : m \in {x \in UNION {ToSet(q) : q \in places} :
                         x.kind \in {"SET_STATE", "ON_CALLBACK"}}}

KeepsOverlap ==
  overlap' = IF api' \notin {"setting", "syncWait"} THEN {}
             ELSE IF api = "ready" THEN UnderWay ELSE overlap

Init == ChannelInit /\ ProxyInit /\ BaseInit /\ overlap = {}

Next ==
  \/ ProxyNext /\ UNCHANGED baseVars /\ KeepsOverlap
  \/ BaseNext /\ UNCHANGED proxyVars /\ KeepsOverlap

Spec == Init /\ [][Next]_vars

\* Every thread that can run does run, and a call once begun is carried through.
\* The application need not call anything and the microphone may stay silent.
InProxy(A) == A /\ UNCHANGED baseVars
InBase(A) == A /\ UNCHANGED proxyVars

Fairness ==
  /\ WF_vars(InProxy(ApiContinues) /\ KeepsOverlap)
  /\ WF_vars(InProxy(RequestThread) /\ KeepsOverlap)
  /\ WF_vars(InProxy(ResponseThread) /\ KeepsOverlap)
  /\ WF_vars(InBase(MainThread) /\ KeepsOverlap)
  /\ WF_vars(InBase(ProcessThread) /\ KeepsOverlap)
  /\ WF_vars(InBase(BaseResponseThread) /\ KeepsOverlap)

FairSpec == Spec /\ Fairness

TypeOK == ChannelTypes /\ ProxyTypes /\ BaseTypes /\ overlap \subseteq 0..(MaxCalls + 1)

-----------------------------------------------------------------------------
(* Safety *)

\* The messages of s that are in S, in their order: SelectSeq with a set for the test.
Within(s, S) ==
  LET pick[i \in 0..Len(s)] ==
        IF i = 0 THEN <<>>
        ELSE IF s[i] \in S THEN Append(pick[i - 1], s[i]) ELSE pick[i - 1]
  IN  pick[Len(s)]

StateChange(m) == <<m.call, m.state>>
StateChanges(s) ==
  LET t == Within(s, Messages({"SET_STATE", "ON_CALLBACK"}))
  IN  [i \in DOMAIN t |-> StateChange(t[i])]

\* Requests that have left the API and were not dropped, from the far end.
OnTheWay ==
  handled \o reqChan \o RequestInHand
    \o Within(requestQueue, Messages(RequestKinds \ {"DESTROY_ON_INIT"}))

\* What was sent is present in the same order; a request that was lost disturbs the
\* order and takes nothing else with it.
Accounted(sent, dropped, present) ==
  /\ lost = <<>> => sent = present
  /\ Len(sent) = Len(dropped \o present) /\ ToSet(sent) = ToSet(dropped \o present)

\* No request is lost, doubled or overtaken on its way from the API call through
\* the request queue, the request thread and the channel to the base, up to and
\* including the DESTROY that ends the session, but for those that find the request
\* queue full.  A state change travels the whole circle, API to processor and back,
\* in call order: it is a request or an acknowledgement in exactly one place, and the
\* acknowledgement carries the state that was asked for.  It reaches the callback of
\* its call or of a later one, never the default nor an earlier call's, whatever is
\* under way when the one slot for callbacks is overwritten.
RequestsGoRound ==
  /\ Accounted(issued, lost, OnTheWay)
  /\ Accounted(StateChanges(issued), StateChanges(lost),
               StateChanges(seen \o respChan \o todo \o processQueue \o reqChan
                              \o RequestInHand \o requestQueue))
  /\ rs = "callback" /\ Head(rsMsg).call \in asyncCalls =>
       stateChangeCallback \in asyncCalls /\ stateChangeCallback >= Head(rsMsg).call

\* The first thing the base says is how its init went, and it says so once: no
\* acknowledgement, event or goodbye can overtake it, although the thread that takes
\* requests is started before the answer is written.  And init_siren returns only
\* when the base takes requests, its processor runs and its main thread waits for
\* frames, or when the base is known to have failed.
AnswerComesFirst ==
  LET said == seen \o respChan IN
    /\ \A i \in DOMAIN said : said[i].kind \in InitAnswers <=> i = 1
    /\ api \notin {"waitLaunch", "waitInit", "joinRequestOnInit", "joinResponseOnInit"}
         /\ ~sirenBaseInitFailed =>
           /\ br # "none" /\ bp # "init" /\ processThreadInit
           /\ bm \notin {"check", "block", "asleep", "launch", "preInit", "failed"}

\* What the response thread hands over finds the one it is for, whatever calls were
\* made before, timed out or had their stream refused.  A voice event finds a callback
\* (proc_callback is not nullptr when responseThreadHandler dereferences it), unless a
\* start that failed took back the one of an earlier start.  The flag that ends a
\* synchronous set_siren_state was raised by its own acknowledgement or by that of a
\* change still on its way when the call cleared the flag: never by one that came
\* before, and by its own if the changes before it had been answered.
ResponsesFindTheirCall ==
  /\ rs = "event" => hasCallback \/ revoked
  /\ api = "syncWait" /\ waitStateChange =>
       \E i \in DOMAIN seen :
         seen[i].kind = "ON_CALLBACK" /\ seen[i].call \in overlap \cup {calls}

\* When the base exits after a DESTROY it has carried out every request the
\* application made: what is left in its queue are frames only.
CarriedOut == Messages(Passed \cup {"SET_STATE"})
ExitLosesNoRequest ==
  bm = "exited" =>
    Within(handled, CarriedOut) = Within(applied, {m \in CarriedOut : m.call # 0})

(* Liveness *)

\* A synchronous set_siren_state returns without the help of its timeout, unless its
\* request found the queue full.
SyncCompletes ==
  api = "syncWait" ~> api = "ready" \/ \E i \in DOMAIN lost : lost[i].call = calls

\* destroy_siren returns, request thread, response thread and base all gone, unless its
\* own request found the queue full.
DestroyLost == \E i \in DOMAIN lost : lost[i].kind = "DESTROY"
DestroyFinishes == api = "destroy" ~> api = "done" \/ DestroyLost

\* A request queue that was full recovers: the empty pops that pay for the overflow do
\* not stop the request thread, and whenever the application pauses, every request
\* reaches the base but those that found no room themselves; the ones that an overflow
\* moved behind others reach it too (RequestsGoRound says that none is there twice).
\* So destroy_siren returns, whatever was lost before.
OverflowLosesOnlyItsOwn ==
  /\ []<>(Len(issued) = Len(lost) + Len(handled))
  /\ DestroyFinishes

\* init_siren returns, with an object or with nullptr.
InitReturns == <>(api = "ready")
=============================================================================
