------------------------------ MODULE SirenBase ------------------------------
(***************************************************************************)
(* The forked process, src/siren_base.cpp: its main thread (main, then     *)
(* loopRecording), the process thread that owns the voice processor, and   *)
(* the response thread that reads the proxy's requests.  processQueue has  *)
(* 4096 entries, far above the bounds, and is a plain FIFO; what a frame   *)
(* makes the processor say is a choice among Results.                      *)
(***************************************************************************)
EXTENDS SirenChannels

CONSTANTS
  ProcessInits,    \* what audioProcessor.init() may answer: subset of BOOLEAN
  PreprocessInits, \* what preProcessor.init() may answer: subset of BOOLEAN
  Results          \* what a frame may make the processor say: sequences of
                   \* Event and SleepEvent

VARIABLES
  bm,              \* where the main thread is
  bp,              \* where the process thread is
  br,              \* where the response thread is
  processThreadInit,
  processInitFailed,
  baseStart,       \* SirenBase::recordingStart
  recordingExit,
  processQueue,    \* packages of the response thread and of the main thread
  handled,         \* history: requests the response thread took
  todo,            \* what the process thread has still to write
  applied          \* history: requests the processor has carried out

baseInitVars == <<processThreadInit, processInitFailed>>
baseRecVars == <<baseStart, recordingExit>>
baseVars == <<bm, bp, br, baseInitVars, baseRecVars, processQueue, handled, todo,
              applied>>

Packages ==
  Messages(Passed \cup {"SET_STATE", "DESTROY", "DATA_PROCESS"})
Frame == Plain("DATA_PROCESS", 0)
Event == Plain("ON_VOICE_EVENT", 0)
SleepEvent == Message("ON_VOICE_EVENT", 0, "sleep")

ASSUME InitsAreBoolean == ProcessInits \subseteq BOOLEAN /\ PreprocessInits \subseteq BOOLEAN
ASSUME ResultsAreEvents == Results \subseteq Seq({Event, SleepEvent})

BaseTypes ==
  /\ bm \in {"check", "block", "asleep", "launch", "preInit", "failed", "wait",
             "exit?", "read", "push", "joinResponse", "joinProcess", "exited"}
  /\ bp \in {"init", "pop", "write", "exited"}
  /\ br \in {"none", "poll", "tell", "release", "exited"}
  /\ processThreadInit \in BOOLEAN
  /\ processInitFailed \in BOOLEAN
  /\ baseStart \in BOOLEAN
  /\ recordingExit \in BOOLEAN
  /\ processQueue \in Seq(Packages)
  /\ handled \in Seq(Messages(RequestKinds))
  /\ todo \in Seq(Messages(ResponseKinds))
  /\ applied \in Seq(Packages)

BaseInit ==
  /\ bm = "check"
  /\ bp = "init"
  /\ br = "none"
  /\ processThreadInit = FALSE
  /\ processInitFailed = FALSE
  /\ baseStart = FALSE
  /\ recordingExit = FALSE
  /\ processQueue = <<>>
  /\ handled = <<>>
  /\ todo = <<>>
  /\ applied = <<>>

-----------------------------------------------------------------------------
(* main: waitingProcessInit and the answer to the proxy *)

\* initCond.wait tests processThreadInit under initMutex ...
MainCheck ==
  /\ bm = "check"
  /\ bm' = IF processThreadInit THEN "launch" ELSE "block"
  /\ UNCHANGED <<bp, br, baseInitVars, baseRecVars, processQueue, handled, todo,
                 applied, chanVars>>

\* ... and starts to wait.  The process thread sets the flag without the mutex.
MainBlock ==
  /\ bm = "block"
  /\ bm' = "asleep"
  /\ UNCHANGED <<bp, br, baseInitVars, baseRecVars, processQueue, handled, todo,
                 applied, chanVars>>

\* The branch for processInitFailed cannot run here: MainCheck lets the thread
\* pass only when init succeeded.
MainLaunch ==
  /\ bm = "launch"
  /\ br' = "poll"
  /\ bm' = "preInit"
  /\ UNCHANGED <<bp, baseInitVars, baseRecVars, processQueue, handled, todo,
                 applied, chanVars>>

\* loopRecording starts: the preprocessor is ready, or the process thread is told
\* to go and the proxy that init failed.
MainPreprocessorReady ==
  /\ bm = "preInit"
  /\ TRUE \in PreprocessInits
  /\ Respond(Plain("ON_INIT_OK", 0))
  /\ bm' = "wait"
  /\ UNCHANGED <<bp, br, baseInitVars, baseRecVars, processQueue, handled, todo,
                 applied, reqChan, wire, wireOpen, baseAlive>>

MainPreprocessorFails ==
  /\ bm = "preInit"
  /\ FALSE \in PreprocessInits
  /\ processQueue' = Append(processQueue, Plain("DESTROY", 0))
  /\ bm' = "failed"
  /\ UNCHANGED <<bp, br, baseInitVars, baseRecVars, handled, todo, applied,
                 chanVars>>

MainTellFailure ==
  /\ bm = "failed"
  /\ Respond(Plain("ON_INIT_FAILED", 0))
  /\ bm' = "joinResponse"
  /\ UNCHANGED <<bp, br, baseInitVars, baseRecVars, processQueue, handled, todo,
                 applied, reqChan, wire, wireOpen, baseAlive>>

-----------------------------------------------------------------------------
(* main: loopRecording *)

\* recordingCond.wait under recordingMutex, which both writers of the flag hold ...
MainWait ==
  /\ bm = "wait"
  /\ baseStart
  /\ bm' = "exit?"
  /\ UNCHANGED <<bp, br, baseInitVars, baseRecVars, processQueue, handled, todo,
                 applied, chanVars>>

\* ... then recordingExit is tested without it.
MainExitCheck ==
  /\ bm = "exit?"
  /\ bm' = IF recordingExit THEN "joinResponse" ELSE "read"
  /\ UNCHANGED <<bp, br, baseInitVars, baseRecVars, processQueue, handled, todo,
                 applied, chanVars>>

\* Mutant of MainRead: read() does not block.
MainReadBlind ==
  /\ bm = "read"
  /\ wire' = wire - 1
  /\ bm' = "push"
  /\ UNCHANGED <<bp, br, baseInitVars, baseRecVars, processQueue, handled, todo,
                 applied, reqChan, respChan, wireOpen, baseAlive>>

\* read() blocks until a frame comes or the proxy closes its end; the frame may
\* still be too short for the preprocessor to return a package.
MainRead ==
  /\ bm = "read"
  /\ \/ wire > 0 /\ wire' = wire - 1 /\ bm' \in {"push", "wait"}
     \/ /\ wire = 0 /\ ~wireOpen
        /\ bm' = IF recordingExit THEN "joinResponse" ELSE "wait"
        /\ UNCHANGED wire
  /\ UNCHANGED <<bp, br, baseInitVars, baseRecVars, processQueue, handled, todo,
                 applied, reqChan, respChan, wireOpen, baseAlive>>

MainPush ==
  /\ bm = "push"
  /\ processQueue' = Append(processQueue, Frame)
  /\ bm' = "wait"
  /\ UNCHANGED <<bp, br, baseInitVars, baseRecVars, handled, todo, applied,
                 chanVars>>

\* Mutant of MainJoins: the process thread is not joined.
MainJoinsResponseOnly ==
  /\ bm = "joinResponse"
  /\ br = "exited"
  /\ bm' = "exited"
  /\ baseAlive' = FALSE
  /\ UNCHANGED <<bp, br, baseInitVars, baseRecVars, processQueue, handled, todo,
                 applied, reqChan, respChan, wire, wireOpen>>

\* responseThread.join(), processThread.join(), exit(0).
MainJoins ==
  /\ \/ bm = "joinResponse" /\ br = "exited" /\ bm' = "joinProcess"
        /\ UNCHANGED baseAlive
     \/ bm = "joinProcess" /\ bp = "exited" /\ bm' = "exited"
        /\ baseAlive' = FALSE
  /\ UNCHANGED <<bp, br, baseInitVars, baseRecVars, processQueue, handled, todo,
                 applied, reqChan, respChan, wire, wireOpen>>

-----------------------------------------------------------------------------
(* processThreadHandler *)

\* The flag and the notification, without initMutex: a main thread between its
\* test and its sleep misses both.
ProcessInit ==
  /\ bp = "init"
  /\ \E ok \in ProcessInits :
       /\ processThreadInit' = ok
       /\ processInitFailed' = ~ok
       /\ bp' = IF ok THEN "pop" ELSE "exited"
  /\ bm' = IF bm = "asleep" THEN "check" ELSE bm
  /\ UNCHANGED <<br, baseRecVars, processQueue, handled, todo, applied, chanVars>>

\* setSysState(state, true) goes on to write the callback message.
ProcessPop ==
  /\ bp = "pop"
  /\ processQueue # <<>>
  /\ processQueue' = Tail(processQueue)
  /\ LET m == Head(processQueue) IN
       \/ /\ m = Frame
          /\ \E events \in Results :
               /\ todo' = events
               /\ bp' = IF events = <<>> THEN "pop" ELSE "write"
          /\ UNCHANGED applied
       \/ /\ m.kind = "SET_STATE"
          /\ applied' = Append(applied, m)
          /\ todo' = <<Message("ON_CALLBACK", m.call, m.state)>>
          /\ bp' = "write"
       \/ /\ m.kind \in Passed
          /\ applied' = Append(applied, m)
          /\ UNCHANGED <<bp, todo>>
       \/ /\ m.kind = "DESTROY"
          /\ bp' = "exited"
          /\ UNCHANGED <<todo, applied>>
  /\ UNCHANGED <<bm, br, baseInitVars, baseRecVars, handled, chanVars>>

\* One message to the proxy.  A SLEEP event also sets the state, without a callback.
ProcessWrite ==
  /\ bp = "write"
  /\ Respond(Head(todo))
  /\ todo' = Tail(todo)
  /\ applied' = IF Head(todo) = SleepEvent
                  THEN Append(applied, Message("SET_STATE", 0, "sleep")) ELSE applied
  /\ bp' = IF Len(todo) = 1 THEN "pop" ELSE "write"
  /\ UNCHANGED <<bm, br, baseInitVars, baseRecVars, processQueue, handled,
                 reqChan, wire, wireOpen, baseAlive>>

-----------------------------------------------------------------------------
(* responseThreadHandler *)

\* Take one request.  destroy_siren first tells the process thread.
BaseTake ==
  /\ br = "poll"
  /\ reqChan # <<>>
  /\ reqChan' = Tail(reqChan)
  /\ handled' = Append(handled, Head(reqChan))
  /\ LET m == Head(reqChan) IN
       \/ /\ m.kind \in {"START_PROCESS_STREAM", "STOP_PROCESS_STREAM"}
          /\ baseStart' = (m.kind = "START_PROCESS_STREAM")
          /\ UNCHANGED <<br, processQueue>>
       \/ /\ m.kind \in Passed \cup {"SET_STATE", "DESTROY"}
          /\ processQueue' = Append(processQueue, m)
          /\ br' = IF m.kind = "DESTROY" THEN "tell" ELSE "poll"
          /\ UNCHANGED baseStart
  /\ UNCHANGED <<bm, bp, baseInitVars, recordingExit, todo, applied, respChan,
                 wire, wireOpen, baseAlive>>

\* destroy_siren: the proxy's response thread may go ...
TellProxy ==
  /\ br = "tell"
  /\ Respond(Plain("ON_DESTROY", 0))
  /\ br' = "release"
  /\ UNCHANGED <<bm, bp, baseInitVars, baseRecVars, processQueue, handled, todo,
                 applied, reqChan, wire, wireOpen, baseAlive>>

\* ... and so may the main thread, also when it waits for a start.
ReleaseMain ==
  /\ br = "release"
  /\ recordingExit' = TRUE
  /\ baseStart' = TRUE
  /\ br' = "exited"
  /\ UNCHANGED <<bm, bp, baseInitVars, processQueue, handled, todo, applied,
                 chanVars>>

-----------------------------------------------------------------------------
MainThread ==
  \/ MainCheck \/ MainBlock \/ MainLaunch
  \/ MainPreprocessorReady \/ MainPreprocessorFails \/ MainTellFailure
  \/ MainWait \/ MainExitCheck \/ MainRead \/ MainPush \/ MainJoins
ProcessThread == ProcessInit \/ ProcessPop \/ ProcessWrite
BaseResponseThread == BaseTake \/ TellProxy \/ ReleaseMain

BaseNext == MainThread \/ ProcessThread \/ BaseResponseThread
=============================================================================
