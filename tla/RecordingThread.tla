--------------------------- MODULE RecordingThread ---------------------------
(***************************************************************************)
(* RecordingThread of src/siren_proxy.cpp: the application's thread calls  *)
(* start, pause and stop while recordingFn reads the microphone through    *)
(* the application's input interface.  startMutex, the condition variable  *)
(* and the places where the code does without the mutex are explicit.      *)
(* termMutex guards sections that are single steps here.                   *)
(*                                                                         *)
(* A frame that was read is written to the data socket, and the write      *)
(* blocks while the socket is full.  So the base is here as far as it      *)
(* empties the socket: the requests START and STOP_PROCESS_STREAM on their *)
(* way to it (SirenSession has the way itself), its own recordingStart and *)
(* its main thread (AudioFrames has what that does with the frame).        *)
(* After the object is deleted the thread's behaviour is undefined and it  *)
(* takes no more steps here.                                               *)
(***************************************************************************)
EXTENDS Naturals, Sequences

CONSTANTS
  MaxCalls,     \* bound: calls of start and pause
  ErrorRetry,   \* errorRetry of the configuration
  ReadResults,  \* what read_input may return: subset of {"ok", "error"}
  MaxSpurious,  \* bound: spurious wake-ups of startCond.wait
  WireRoom      \* frames the data socket holds

ASSUME BoundsAreNat == MaxCalls \in Nat /\ MaxSpurious \in Nat
ASSUME ErrorRetryIsNat == ErrorRetry \in Nat
ASSUME RoomForFrame == WireRoom \in Nat \ {0}
ASSUME ReadResultsKnown == ReadResults \subseteq {"ok", "error"}

VARIABLES
  caller,          \* where the application's thread is
  calls,           \* calls of start and pause so far
  spaced,          \* history: no call came before the thread had settled
  procStreamStart, \* the proxy's flag: start only when stopped and vice versa
  startMutex,      \* who holds it: "none" or "thread"; callers hold it one step
  recordingStart,
  recordingTerm,
  deleted,         \* destroy_siren deleted the object
  rf,              \* where recordingFn is
  notified,        \* startCond has been notified since the thread went to sleep
  first,           \* local of recordingFn
  inputStart,      \* local of recordingFn
  len,             \* what read_input returned
  currentRetry,
  starts,          \* history: calls of start_input that succeeded
  stops,           \* history: calls of stop_input
  pauses,          \* history: calls of pause
  open,            \* history: the last input call was start_input
  failures,        \* history: read errors since the last good read or report
  spurious,        \* spurious wake-ups so far
  missed,          \* history: stop notified while the thread was on its way to sleep
  toBase,          \* requests on their way to the base: TRUE for START, FALSE for STOP
  baseStart,       \* the base's recordingStart
  baseReads,       \* the base's main thread is in read, or on its way there
  wire             \* frames in the data socket

callerVars == <<caller, calls, spaced, procStreamStart, deleted>>
sharedVars == <<recordingStart, recordingTerm>>
localVars == <<first, inputStart>>
readVars == <<len, currentRetry, failures>>
inputVars == <<starts, stops, pauses, open>>
streamVars == <<toBase, baseStart, baseReads, wire>>
vars == <<callerVars, sharedVars, startMutex, rf, notified, localVars, readVars,
          inputVars, spurious, missed, streamVars>>

\* The types, and the bounds of the counters: on_err_input is called as soon as
\* errorRetry + 1 reads in a row have failed, also when the stream is paused and started
\* in between, and stop_input no more often than there are calls and stray wake-ups.
TypeOK ==
  /\ caller \in {"idle", "starting", "pausing", "stopping", "stopped"}
  /\ calls \in 0..MaxCalls
  /\ spaced \in BOOLEAN
  /\ procStreamStart \in BOOLEAN
  /\ startMutex \in {"none", "thread"}
  /\ recordingStart \in BOOLEAN
  /\ recordingTerm \in BOOLEAN
  /\ deleted \in BOOLEAN
  /\ rf \in {"top", "lock", "test", "enter", "asleep", "awake", "termTest",
             "read", "handle", "write", "exited"}
  /\ notified \in BOOLEAN
  /\ first \in BOOLEAN
  /\ inputStart \in BOOLEAN
  /\ len \in {"ok", "error"}
  /\ currentRetry \in 0..ErrorRetry
  /\ starts \in 0..MaxCalls
  /\ stops \in 0..(MaxCalls + MaxSpurious)
  /\ pauses \in 0..MaxCalls
  /\ open \in BOOLEAN
  /\ failures \in 0..(IF rf = "handle" THEN ErrorRetry + 1 ELSE ErrorRetry)
  /\ spurious \in 0..MaxSpurious
  /\ missed \in BOOLEAN
  /\ toBase \in Seq(BOOLEAN) /\ Len(toBase) <= calls
  /\ baseStart \in BOOLEAN
  /\ baseReads \in BOOLEAN
  /\ wire \in 0..WireRoom

Init ==
  /\ caller = "idle"
  /\ calls = 0
  /\ spaced = TRUE
  /\ procStreamStart = FALSE
  /\ startMutex = "none"
  /\ recordingStart = FALSE
  /\ recordingTerm = FALSE
  /\ deleted = FALSE
  /\ rf = "top"
  /\ notified = FALSE
  /\ first = TRUE
  /\ inputStart = FALSE
  /\ len = "ok"
  /\ currentRetry = 0
  /\ starts = 0
  /\ stops = 0
  /\ pauses = 0
  /\ open = FALSE
  /\ failures = 0
  /\ spurious = 0
  /\ missed = FALSE
  /\ toBase = <<>>
  /\ baseStart = FALSE
  /\ baseReads = FALSE
  /\ wire = 0

-----------------------------------------------------------------------------
(* The application's thread *)

\* The thread has seen the last call: it reads, or it waits for the next start.
Settled ==
  IF recordingStart THEN rf \in {"read", "handle", "write"} ELSE rf = "asleep"

MayCall == caller = "idle" /\ calls < MaxCalls

NoteSpacing == spaced' = (spaced /\ Settled)

\* notify_one: nobody hears it who is not asleep yet.
Notify == notified' = (notified \/ rf = "asleep")

\* Mutant of StartInput: the input is started for the first stream only.
StartInputFirstOnly ==
  /\ MayCall
  /\ ~procStreamStart
  /\ calls' = calls + 1
  /\ NoteSpacing
  /\ procStreamStart' = TRUE
  /\ starts' = IF starts = 0 THEN 1 ELSE starts
  /\ open' = IF starts = 0 THEN TRUE ELSE open
  /\ caller' = "starting"
  /\ UNCHANGED <<deleted, sharedVars, startMutex, rf, notified, localVars,
                 readVars, stops, pauses, spurious, missed, streamVars>>

\* start: start_input is called before startMutex is taken.  When it fails
\* nothing changes.
StartInput ==
  /\ MayCall
  /\ ~procStreamStart
  /\ calls' = calls + 1
  /\ NoteSpacing
  /\ procStreamStart' = TRUE
  /\ starts' = starts + 1
  /\ open' = TRUE
  /\ caller' = "starting"
  /\ UNCHANGED <<deleted, sharedVars, startMutex, rf, notified, localVars,
                 readVars, stops, pauses, spurious, missed, streamVars>>

\* Mutant of StartRecording: the flag is set and notified without startMutex.
StartRecordingUnlocked ==
  /\ caller = "starting"
  /\ recordingStart' = TRUE
  /\ Notify
  /\ caller' = "idle"
  /\ toBase' = Append(toBase, TRUE)
  /\ UNCHANGED <<calls, spaced, procStreamStart, deleted, recordingTerm, startMutex, rf,
                 localVars, readVars, inputVars, spurious, missed, baseStart, baseReads, wire>>

\* The rest of start, and START for the base.
StartRecording ==
  /\ caller = "starting"
  /\ startMutex = "none"
  /\ recordingStart' = TRUE
  /\ Notify
  /\ caller' = "idle"
  /\ toBase' = Append(toBase, TRUE)
  /\ UNCHANGED <<calls, spaced, procStreamStart, deleted, recordingTerm, startMutex, rf,
                 localVars, readVars, inputVars, spurious, missed, baseStart, baseReads, wire>>

\* STOP for the base goes out before pause is called.
StopStream ==
  /\ MayCall
  /\ procStreamStart
  /\ calls' = calls + 1
  /\ NoteSpacing
  /\ procStreamStart' = FALSE
  /\ caller' = "pausing"
  /\ toBase' = Append(toBase, FALSE)
  /\ UNCHANGED <<deleted, sharedVars, startMutex, rf, notified, localVars,
                 readVars, inputVars, spurious, missed, baseStart, baseReads, wire>>

\* pause waits while the thread is inside read_input.
Pause ==
  /\ caller = "pausing"
  /\ startMutex = "none"
  /\ recordingStart' = FALSE
  /\ pauses' = pauses + 1
  /\ caller' = "idle"
  /\ UNCHANGED <<calls, spaced, procStreamStart, deleted, recordingTerm, startMutex, rf,
                 notified, localVars, readVars, starts, stops, open, spurious, missed, streamVars>>

\* stop: termMutex only ...
Stop ==
  /\ caller = "idle"
  /\ NoteSpacing
  /\ recordingTerm' = TRUE
  /\ caller' = "stopping"
  /\ UNCHANGED <<calls, procStreamStart, deleted, recordingStart, startMutex, rf,
                 notified, localVars, readVars, inputVars, spurious, missed, streamVars>>

\* Mutant of StopNotify: the flag is set and nobody is notified.
StopNotifySilent ==
  /\ caller = "stopping"
  /\ recordingStart' = TRUE
  /\ missed' = (rf = "enter")
  /\ caller' = "stopped"
  /\ UNCHANGED <<calls, spaced, procStreamStart, deleted, recordingTerm, startMutex,
                 rf, notified, localVars, readVars, inputVars, spurious, streamVars>>

\* ... so the flag is tested, set and notified without startMutex, maybe between the
\* thread's test and its wait; the thread was detached, so there is nothing to join.
StopNotify ==
  /\ caller = "stopping"
  /\ recordingStart' = TRUE
  /\ IF recordingStart THEN UNCHANGED notified ELSE Notify
  /\ missed' = (rf = "enter")
  /\ caller' = "stopped"
  /\ UNCHANGED <<calls, spaced, procStreamStart, deleted, recordingTerm, startMutex, rf,
                 localVars, readVars, inputVars, spurious, streamVars>>

\* delete recordingThread in destroy_siren; after a failed init it is kept.
Delete ==
  /\ caller = "stopped"
  /\ ~deleted
  /\ deleted' = TRUE
  /\ UNCHANGED <<caller, calls, spaced, procStreamStart, sharedVars, startMutex, rf,
                 notified, localVars, readVars, inputVars, spurious, missed, streamVars>>

-----------------------------------------------------------------------------
(* recordingFn *)

StopInput == stops' = stops + 1 /\ open' = FALSE /\ UNCHANGED <<starts, pauses>>

\* Top of the loop, under termMutex.
TermCheck ==
  /\ rf = "top" /\ ~deleted
  /\ rf' = IF recordingTerm THEN "exited" ELSE "lock"
  /\ IF recordingTerm /\ inputStart THEN StopInput ELSE UNCHANGED inputVars
  /\ UNCHANGED <<callerVars, sharedVars, startMutex, notified, localVars,
                 readVars, spurious, missed, streamVars>>

LockStart ==
  /\ rf = "lock" /\ ~deleted
  /\ startMutex = "none"
  /\ startMutex' = "thread"
  /\ rf' = "test"
  /\ UNCHANGED <<callerVars, sharedVars, notified, localVars, readVars, inputVars,
                 spurious, missed, streamVars>>

\* Mutant of TestStart: the input is stopped before the first wait and not after it.
TestStartInverted ==
  /\ rf = "test" /\ ~deleted
  /\ rf' = IF recordingStart THEN "termTest" ELSE "enter"
  /\ IF ~recordingStart /\ first THEN StopInput /\ inputStart' = FALSE
     ELSE UNCHANGED <<inputVars, inputStart>>
  /\ UNCHANGED <<callerVars, sharedVars, startMutex, notified, first, readVars,
                 spurious, missed, streamVars>>

\* while (!recordingStart): stop the input, but not before the first wait.
TestStart ==
  /\ rf = "test" /\ ~deleted
  /\ rf' = IF recordingStart THEN "termTest" ELSE "enter"
  /\ IF ~recordingStart /\ ~first THEN StopInput /\ inputStart' = FALSE
     ELSE UNCHANGED <<inputVars, inputStart>>
  /\ UNCHANGED <<callerVars, sharedVars, startMutex, notified, first, readVars,
                 spurious, missed, streamVars>>

\* startCond.wait(lock) lets go of the mutex and sleeps in one step.
EnterWait ==
  /\ rf = "enter" /\ ~deleted
  /\ startMutex' = "none"
  /\ notified' = FALSE
  /\ rf' = "asleep"
  /\ UNCHANGED <<callerVars, sharedVars, localVars, readVars, inputVars, spurious, missed, streamVars>>

\* It returns with the mutex.
WakeUp ==
  /\ rf = "asleep" /\ ~deleted
  /\ startMutex = "none"
  /\ \/ notified /\ UNCHANGED spurious
     \/ ~notified /\ spurious < MaxSpurious /\ spurious' = spurious + 1
  /\ startMutex' = "thread"
  /\ rf' = "awake"
  /\ UNCHANGED <<callerVars, sharedVars, notified, localVars, readVars, inputVars, missed, streamVars>>

AfterWait ==
  /\ rf = "awake" /\ ~deleted
  /\ first' = FALSE
  /\ inputStart' = (inputStart \/ ~recordingTerm)
  /\ rf' = "test"
  /\ UNCHANGED <<callerVars, sharedVars, startMutex, notified, readVars, inputVars,
                 spurious, missed, streamVars>>

\* A thread that is told to end here does not stop the input.
TermTest ==
  /\ rf = "termTest" /\ ~deleted
  /\ \/ recordingTerm /\ rf' = "exited" /\ startMutex' = "none"
     \/ ~recordingTerm /\ rf' = "read" /\ UNCHANGED startMutex
  /\ UNCHANGED <<callerVars, sharedVars, notified, localVars, readVars, inputVars,
                 spurious, missed, streamVars>>

\* read_input runs with startMutex held, so recordingStart is still set after it.
ReadInput ==
  /\ rf = "read" /\ ~deleted
  /\ len' \in ReadResults
  /\ failures' = IF len' = "error" THEN failures + 1 ELSE 0
  /\ startMutex' = "none"
  /\ rf' = "handle"
  /\ UNCHANGED <<callerVars, sharedVars, notified, localVars, currentRetry,
                 inputVars, spurious, missed, streamVars>>

\* Mutant of HandleRead: > for >=.
HandleReadLate ==
  /\ rf = "handle" /\ ~deleted
  /\ IF len = "ok" THEN currentRetry' = 0 /\ UNCHANGED failures
     ELSE IF currentRetry > ErrorRetry
       THEN currentRetry' = 0 /\ failures' = 0
       ELSE currentRetry' = currentRetry + 1 /\ UNCHANGED failures
  /\ rf' = IF len = "ok" THEN "write" ELSE "top"
  /\ UNCHANGED <<callerVars, sharedVars, startMutex, notified, localVars, len,
                 inputVars, spurious, missed, streamVars>>

\* An error is counted, and reported through on_err_input once the retries are used up.
HandleRead ==
  /\ rf = "handle" /\ ~deleted
  /\ IF len = "ok" THEN currentRetry' = 0 /\ UNCHANGED failures
     ELSE IF currentRetry >= ErrorRetry
       THEN currentRetry' = 0 /\ failures' = 0
       ELSE currentRetry' = currentRetry + 1 /\ UNCHANGED failures
  /\ rf' = IF len = "ok" THEN "write" ELSE "top"
  /\ UNCHANGED <<callerVars, sharedVars, startMutex, notified, localVars, len,
                 inputVars, spurious, missed, streamVars>>

\* A good frame: write to the data socket returns when there is room.
WriteFrame ==
  /\ rf = "write" /\ ~deleted
  /\ wire < WireRoom
  /\ wire' = wire + 1
  /\ rf' = "top"
  /\ UNCHANGED <<callerVars, sharedVars, startMutex, notified, localVars, readVars,
                 inputVars, spurious, missed, toBase, baseStart, baseReads>>

-----------------------------------------------------------------------------
(* The base, as far as it empties the socket *)

threadVars == <<callerVars, sharedVars, startMutex, rf, notified, localVars, readVars,
                inputVars, spurious, missed>>

\* The response thread takes a request.
BaseTakes ==
  /\ toBase # <<>>
  /\ baseStart' = Head(toBase)
  /\ toBase' = Tail(toBase)
  /\ UNCHANGED <<threadVars, baseReads, wire>>

\* recordingCond.wait returns in the main thread.
BaseWaits ==
  /\ ~baseReads
  /\ baseStart
  /\ baseReads' = TRUE
  /\ UNCHANGED <<threadVars, toBase, baseStart, wire>>

\* read returns a frame, which is processed and pushed without waiting.
BaseReads ==
  /\ baseReads
  /\ wire > 0
  /\ wire' = wire - 1
  /\ baseReads' = FALSE
  /\ UNCHANGED <<threadVars, toBase, baseStart>>

-----------------------------------------------------------------------------
CallerContinues == StartRecording \/ Pause \/ StopNotify
Caller == StartInput \/ StopStream \/ Stop \/ Delete \/ CallerContinues

RecordingFn ==
  \/ TermCheck \/ LockStart \/ TestStart \/ EnterWait \/ WakeUp \/ AfterWait
  \/ TermTest \/ ReadInput \/ HandleRead \/ WriteFrame
BaseMain == BaseWaits \/ BaseReads

Next == Caller \/ RecordingFn \/ BaseTakes \/ BaseMain

Spec == Init /\ [][Next]_vars

\* The threads run, read_input returns, and a call once begun goes on; what the thread
\* writes only gets room from the base.  A spurious wake-up need not come.  Mutexes are
\* not fair, so nothing says that a caller ever wins startMutex from the thread.
Fairness ==
  /\ WF_vars(RecordingFn /\ UNCHANGED spurious)
  /\ WF_vars(CallerContinues)
  /\ WF_vars(BaseTakes)
  /\ WF_vars(BaseMain)

FairSpec == Spec /\ Fairness

-----------------------------------------------------------------------------
(* Safety *)

\* No call came early and no wake-up came unasked.
Undisturbed == spaced /\ spurious = 0

\* As long as every call waits until the thread has settled after the one before it,
\* read_input is called only on an input whose last call was start_input, and
\* start_input and stop_input alternate, through streams, read errors and the end of
\* the thread: what siren_input_if_t lets an implementation assume.
ReadsOpenIfUndisturbed ==
  Undisturbed =>
    /\ rf = "read" => open
    /\ starts = stops + (IF open THEN 1 ELSE 0)

(* Liveness *)

\* A start is heard however it races with the thread's going to sleep: the thread
\* reads, unless it is paused or ended meanwhile.
StartIsHeard ==
  caller = "idle" /\ recordingStart /\ ~recordingTerm
    ~> rf = "read" \/ ~recordingStart \/ recordingTerm

\* The thread cannot leave write: the socket is full, and the base, whose stream is off,
\* will not read before the next start.
Stuck ==
  /\ rf = "write" /\ wire = WireRoom
  /\ ~baseStart /\ ~baseReads /\ toBase = <<>>

\* The thread has not been woken yet: it has not heard of a stream.
NeverWoken == first /\ rf = "asleep" /\ ~notified

\* The input is closed after a pause if no start follows, whatever the calls before it
\* have met, but in two cases: the base stopped reading first and left the thread in its
\* write, or start and pause both came before the thread's first wait.
PauseStopsInput ==
  caller = "idle" /\ open /\ ~recordingStart
    ~> ~open \/ recordingStart \/ recordingTerm \/ Stuck \/ NeverWoken

\* stop ends the thread wherever it is, unless it is stuck in its write, the notification
\* came between its test and its wait, or the object is deleted under it.
StopEndsThread == recordingTerm ~> rf = "exited" \/ deleted \/ Stuck \/ missed
=============================================================================
