------------------------ MODULE RecordingThreadProofs ------------------------
(***************************************************************************)
(* Proofs about RecordingThread, for every number of calls, every          *)
(* errorRetry and every number of stray wake-ups: the bounds of TypeOK,    *)
(* which say how often stop_input may be called and when on_err_input is,  *)
(* and ReadsOpenIfUndisturbed.                                             *)
(***************************************************************************)
EXTENDS RecordingThread, TLAPS

FlagTypes ==
  /\ caller \in {"idle", "starting", "pausing", "stopping", "stopped"}
  /\ spaced \in BOOLEAN
  /\ procStreamStart \in BOOLEAN
  /\ startMutex \in {"none", "thread"}
  /\ recordingStart \in BOOLEAN
  /\ recordingTerm \in BOOLEAN
  /\ deleted \in BOOLEAN
  /\ rf \in {"top", "lock", "test", "enter", "asleep", "awake", "termTest",
             "read", "handle", "write", "exited"}
  /\ notified \in BOOLEAN
  /\ first \in BOOLEAN
  /\ inputStart \in BOOLEAN
  /\ len \in {"ok", "error"}
  /\ open \in BOOLEAN
  /\ missed \in BOOLEAN

CountTypes ==
  /\ calls \in 0..MaxCalls
  /\ currentRetry \in 0..ErrorRetry
  /\ starts \in Nat
  /\ stops \in Nat
  /\ pauses \in Nat
  /\ failures \in Nat
  /\ spurious \in 0..MaxSpurious

\* The requests to the base are no more than the calls.
StreamTypes ==
  /\ toBase \in Seq(BOOLEAN)
  /\ Len(toBase) + (IF caller = "starting" THEN 1 ELSE 0) <= calls
  /\ baseStart \in BOOLEAN
  /\ baseReads \in BOOLEAN
  /\ wire \in 0..WireRoom

Types == FlagTypes /\ CountTypes /\ StreamTypes

\* recordingFn holds startMutex exactly between taking it and waiting, reading or
\* ending.
MutexFollows ==
  startMutex = IF rf \in {"test", "enter", "awake", "termTest", "read"}
               THEN "thread" ELSE "none"

\* The proxy's flag lets start and pause alternate.
CallsAlternate ==
  /\ calls = starts + pauses + (IF caller = "pausing" THEN 1 ELSE 0)
  /\ starts = pauses + (IF caller = "pausing" THEN 1 ELSE 0)
                + (IF procStreamStart THEN 1 ELSE 0)
  /\ caller = "idle" => (recordingStart <=> procStreamStart)
  /\ caller = "starting" => procStreamStart /\ ~recordingStart
  /\ caller = "pausing" => ~procStreamStart /\ recordingStart

\* currentRetry counts the failures in a row, the one just met not included.
RetriesCounted ==
  failures = IF rf # "handle" THEN currentRetry
             ELSE IF len = "ok" THEN 0 ELSE currentRetry + 1

\* inputStart is set by a wake-up and reset by stop_input: a thread that has not
\* woken since does not sleep or wait for its turn with the flag set.
InputFlag ==
  /\ first => ~inputStart
  /\ rf \in {"enter", "asleep"} => ~inputStart
  /\ caller \in {"stopping", "stopped"} <=> recordingTerm
  /\ caller = "stopped" => recordingStart

\* The thread has been woken, or is about to be, since it last called stop_input.
WakeUpUnspent ==
  \/ rf = "asleep" /\ notified
  \/ rf = "awake"
  \/ ~first /\ rf \in {"top", "lock", "test", "termTest", "read", "handle", "write"}

\* Each stop_input has a wake-up of its own, and each wake-up a call of start or
\* no cause at all.  The notification of stop pays for none: when it comes the
\* thread only ends, and stops the input if an earlier wake-up is unspent.
Heard == starts - (IF caller = "starting" THEN 1 ELSE 0) + spurious
StopsPaidFor ==
  stops + (IF IF caller = "stopped" THEN inputStart /\ rf # "exited" ELSE WakeUpUnspent
           THEN 1 ELSE 0) <= Heard

FlowInv == Types /\ MutexFollows /\ CallsAlternate /\ RetriesCounted /\ InputFlag

CountInv == FlowInv /\ StopsPaidFor

-----------------------------------------------------------------------------
(* What an undisturbed session looks like *)

\* The thread works on a stream: it has been told to, and will stop the input.
OnStream ==
  /\ rf \in {"top", "lock", "test", "termTest", "read", "handle", "write"}
  /\ ~first /\ inputStart

\* The thread has no stream to work on and will not call stop_input.
OffStream ==
  \/ rf = "enter"
  \/ rf = "asleep" /\ ~notified
  \/ first /\ rf \in {"top", "lock", "test"}

\* Before stop: the input is open from start_input until the thread has seen the pause.
StreamOpen ==
  ~recordingTerm =>
    /\ caller = "starting" =>
         open /\ ~recordingStart /\ rf = "asleep" /\ ~notified
    /\ caller = "pausing" => OnStream
    /\ recordingStart => open /\ ((rf = "asleep" /\ notified) \/ rf = "awake" \/ OnStream)
    /\ caller = "idle" /\ ~recordingStart =>
         IF open THEN OnStream /\ rf \notin {"termTest", "read"} ELSE OffStream

\* After stop: a thread that was reading stops the input and ends, one that was asleep
\* ends without.
StreamEnds ==
  recordingTerm =>
    IF open
      THEN recordingStart /\ inputStart /\ rf \in {"read", "handle", "write", "top"}
      ELSE /\ rf \in {"asleep", "awake", "test", "termTest", "exited"}
           /\ rf \in {"awake", "test", "termTest"} \/ (rf = "asleep" /\ notified)
                => recordingStart

\* start_input and stop_input alternate.
InputAlternates == starts = stops + (IF open THEN 1 ELSE 0)

UndisturbedInv == Undisturbed => StreamOpen /\ StreamEnds /\ InputAlternates

IInv == CountInv /\ UndisturbedInv
-----------------------------------------------------------------------------
LEMMA InitIInv == Init => IInv
<1> SUFFICES ASSUME Init PROVE IInv
  OBVIOUS
<1> USE BoundsAreNat, ErrorRetryIsNat DEF Init
<1>1. FlowInv
  <2>1. FlagTypes
    BY DEF FlagTypes
  <2>2. CountTypes
    BY DEF CountTypes
  <2>3. StreamTypes
    <3>1. toBase \in Seq(BOOLEAN) /\ Len(toBase) = 0
      OBVIOUS
    <3>2. wire \in 0..WireRoom
      BY RoomForFrame
    <3>3. baseStart \in BOOLEAN /\ baseReads \in BOOLEAN
      OBVIOUS
    <3> QED
      BY <3>1, <3>2, <3>3 DEF StreamTypes
  <2>4. MutexFollows /\ CallsAlternate /\ RetriesCounted /\ InputFlag
    BY DEF MutexFollows, CallsAlternate, RetriesCounted, InputFlag
  <2> QED
    BY <2>1, <2>2, <2>3, <2>4 DEF FlowInv, Types
<1>2. StopsPaidFor
  BY DEF StopsPaidFor, WakeUpUnspent, Heard
<1>3. UndisturbedInv
  BY DEF UndisturbedInv, StreamOpen, StreamEnds, InputAlternates, OnStream, OffStream
<1> QED
  BY <1>1, <1>2, <1>3 DEF IInv, CountInv

LEMMA FlagTypesStep == FlowInv /\ [Next]_vars => FlagTypes'
<1> SUFFICES ASSUME FlowInv, [Next]_vars PROVE FlagTypes'
  OBVIOUS
<1> USE BoundsAreNat, ErrorRetryIsNat, ReadResultsKnown
    DEF FlowInv, Types, FlagTypes, callerVars, sharedVars, localVars,
        readVars, inputVars, streamVars
<1>1. ASSUME StartInput PROVE FlagTypes'
  BY <1>1 DEF StartInput, MayCall, NoteSpacing, Settled
<1>2. ASSUME StartRecording PROVE FlagTypes'
  BY <1>2 DEF StartRecording, Notify
<1>3. ASSUME StopStream PROVE FlagTypes'
  <2>1. spaced' \in BOOLEAN
    BY <1>3 DEF StopStream, NoteSpacing
  <2>2. procStreamStart' \in BOOLEAN /\ caller' = "pausing"
    BY <1>3 DEF StopStream
  <2>3. UNCHANGED <<deleted, recordingStart, recordingTerm, startMutex, rf, notified,
                    first, inputStart, len, open, missed>>
    BY <1>3 DEF StopStream
  <2> QED
    BY <2>1, <2>2, <2>3
<1>4. ASSUME Pause PROVE FlagTypes'
  <2>1. recordingStart' \in BOOLEAN /\ caller' = "idle"
    BY <1>4 DEF Pause
  <2>2. UNCHANGED <<spaced, procStreamStart, deleted, recordingTerm, startMutex, rf, notified,
                    first, inputStart, len, open, missed>>
    BY <1>4 DEF Pause
  <2> QED
    BY <2>1, <2>2
<1>5. ASSUME Stop PROVE FlagTypes'
  BY <1>5 DEF Stop, NoteSpacing, Settled
<1>6. ASSUME StopNotify PROVE FlagTypes'
  <2>1. notified' \in BOOLEAN
    BY <1>6 DEF StopNotify, Notify
  <2> QED
    BY <1>6, <2>1 DEF StopNotify
<1>7. ASSUME Delete PROVE FlagTypes'
  BY <1>7 DEF Delete
<1>8. ASSUME TermCheck PROVE FlagTypes'
  <2>1. open' \in BOOLEAN
    BY <1>8 DEF TermCheck, StopInput
  <2>2. rf' \in {"exited", "lock"}
    BY <1>8 DEF TermCheck
  <2> QED
    BY <1>8, <2>1, <2>2 DEF TermCheck
<1>9. ASSUME LockStart PROVE FlagTypes'
  BY <1>9 DEF LockStart
<1>10. ASSUME TestStart PROVE FlagTypes'
  <2>1. open' \in BOOLEAN /\ inputStart' \in BOOLEAN
    BY <1>10 DEF TestStart, StopInput
  <2>2. rf' \in {"termTest", "enter"}
    BY <1>10 DEF TestStart
  <2> QED
    BY <1>10, <2>1, <2>2 DEF TestStart
<1>11. ASSUME EnterWait PROVE FlagTypes'
  BY <1>11 DEF EnterWait
<1>12. ASSUME WakeUp PROVE FlagTypes'
  BY <1>12 DEF WakeUp
<1>13. ASSUME AfterWait PROVE FlagTypes'
  <2>1. first' \in BOOLEAN /\ inputStart' \in BOOLEAN
    BY <1>13 DEF AfterWait
  <2>2. rf' = "test"
    BY <1>13 DEF AfterWait
  <2> QED
    BY <1>13, <2>1, <2>2 DEF AfterWait
<1>14. ASSUME TermTest PROVE FlagTypes'
  BY <1>14 DEF TermTest
<1>15. ASSUME ReadInput PROVE FlagTypes'
  BY <1>15 DEF ReadInput
<1>16. ASSUME HandleRead PROVE FlagTypes'
  BY <1>16 DEF HandleRead
<1>17. ASSUME WriteFrame PROVE FlagTypes'
  BY <1>17 DEF WriteFrame
<1>18. ASSUME BaseTakes \/ BaseMain PROVE FlagTypes'
  BY <1>18 DEF BaseTakes, BaseMain, BaseWaits, BaseReads, threadVars
<1>19. CASE UNCHANGED vars
  BY <1>19 DEF vars
<1> QED
  BY <1>1, <1>2, <1>3, <1>4, <1>5, <1>6, <1>7, <1>8, <1>9, <1>10, <1>11, <1>12, <1>13,
     <1>14, <1>15, <1>16, <1>17, <1>18, <1>19
  DEF Next, Caller, CallerContinues, RecordingFn

LEMMA CountTypesStep == FlowInv /\ [Next]_vars => CountTypes'
<1> SUFFICES ASSUME FlowInv, [Next]_vars PROVE CountTypes'
  OBVIOUS
<1> USE BoundsAreNat, ErrorRetryIsNat, ReadResultsKnown
    DEF FlowInv, Types, FlagTypes, CountTypes, CallsAlternate, callerVars, sharedVars, localVars,
        readVars, inputVars, streamVars
<1>1. ASSUME StartInput PROVE CountTypes'
  BY <1>1 DEF StartInput, MayCall, NoteSpacing, Settled
<1>2. ASSUME StartRecording PROVE CountTypes'
  BY <1>2 DEF StartRecording, Notify
<1>3. ASSUME StopStream PROVE CountTypes'
  BY <1>3 DEF StopStream, MayCall, NoteSpacing, Settled
<1>4. ASSUME Pause PROVE CountTypes'
  BY <1>4 DEF Pause
<1>5. ASSUME Stop PROVE CountTypes'
  BY <1>5 DEF Stop, NoteSpacing, Settled
<1>6. ASSUME StopNotify PROVE CountTypes'
  BY <1>6 DEF StopNotify, Notify
<1>7. ASSUME Delete PROVE CountTypes'
  BY <1>7 DEF Delete
<1>8. ASSUME TermCheck PROVE CountTypes'
  BY <1>8 DEF TermCheck, StopInput
<1>9. ASSUME LockStart PROVE CountTypes'
  BY <1>9 DEF LockStart
<1>10. ASSUME TestStart PROVE CountTypes'
  BY <1>10 DEF TestStart, StopInput
<1>11. ASSUME EnterWait PROVE CountTypes'
  BY <1>11 DEF EnterWait
<1>12. ASSUME WakeUp PROVE CountTypes'
  BY <1>12 DEF WakeUp
<1>13. ASSUME AfterWait PROVE CountTypes'
  BY <1>13 DEF AfterWait
<1>14. ASSUME TermTest PROVE CountTypes'
  BY <1>14 DEF TermTest
<1>15. ASSUME ReadInput PROVE CountTypes'
  BY <1>15 DEF ReadInput
<1>16. ASSUME HandleRead PROVE CountTypes'
  BY <1>16 DEF HandleRead
<1>17. ASSUME WriteFrame PROVE CountTypes'
  BY <1>17 DEF WriteFrame
<1>18. ASSUME BaseTakes \/ BaseMain PROVE CountTypes'
  BY <1>18 DEF BaseTakes, BaseMain, BaseWaits, BaseReads, threadVars
<1>19. CASE UNCHANGED vars
  BY <1>19 DEF vars
<1> QED
  BY <1>1, <1>2, <1>3, <1>4, <1>5, <1>6, <1>7, <1>8, <1>9, <1>10, <1>11, <1>12, <1>13,
     <1>14, <1>15, <1>16, <1>17, <1>18, <1>19
  DEF Next, Caller, CallerContinues, RecordingFn

LEMMA StreamTypesStep == FlowInv /\ [Next]_vars => StreamTypes'
<1> SUFFICES ASSUME FlowInv, [Next]_vars PROVE StreamTypes'
  OBVIOUS
<1> USE RoomForFrame DEF FlowInv, Types, CountTypes, StreamTypes, callerVars, streamVars
<1>1. CASE UNCHANGED <<calls, caller, streamVars>>
  BY <1>1
<1>8. ASSUME Pause \/ Stop \/ StopNotify PROVE StreamTypes'
  BY <1>8 DEF Pause, Stop, StopNotify
<1>2. ASSUME StartInput PROVE StreamTypes'
  BY <1>2 DEF StartInput
<1>3. ASSUME StartRecording PROVE StreamTypes'
  <2>1. toBase' = Append(toBase, TRUE) /\ UNCHANGED <<calls, baseStart, baseReads, wire>>
    BY <1>3 DEF StartRecording
  <2>2. caller = "starting" /\ caller' = "idle" /\ Len(toBase) < calls
    BY <1>3 DEF StartRecording
  <2> QED
    BY <2>1, <2>2
<1>4. ASSUME StopStream PROVE StreamTypes'
  BY <1>4 DEF StopStream
<1>5. ASSUME WriteFrame PROVE StreamTypes'
  BY <1>5 DEF WriteFrame
<1>6. ASSUME BaseTakes PROVE StreamTypes'
  BY <1>6 DEF BaseTakes, threadVars
<1>7. ASSUME BaseMain PROVE StreamTypes'
  <2>1. UNCHANGED <<toBase, baseStart, calls, caller>> /\ baseReads' \in BOOLEAN /\ wire' \in 0..WireRoom
    <3>1. CASE BaseWaits
      BY <3>1 DEF BaseWaits, threadVars
    <3>2. CASE BaseReads
      <4>1. wire \in 0..WireRoom /\ wire > 0 /\ wire' = wire - 1
        BY <3>2 DEF BaseReads
      <4>2. wire' \in 0..WireRoom
        BY <4>1, RoomForFrame
      <4> QED
        BY <3>2, <4>2 DEF BaseReads, threadVars
    <3> QED
      BY <1>7, <3>1, <3>2 DEF BaseMain
  <2> QED
    BY <2>1
<1> QED
  BY <1>1, <1>2, <1>3, <1>4, <1>5, <1>6, <1>7, <1>8
  DEF Next, Caller, CallerContinues, RecordingFn, vars, Delete,
      TermCheck, LockStart, TestStart, EnterWait, WakeUp, AfterWait, TermTest, ReadInput,
      HandleRead

LEMMA MutexStep == FlowInv /\ [Next]_vars => MutexFollows'
<1> SUFFICES ASSUME FlowInv, [Next]_vars PROVE MutexFollows'
  OBVIOUS
<1> USE BoundsAreNat, ErrorRetryIsNat, ReadResultsKnown
    DEF FlowInv, Types, FlagTypes, CountTypes, MutexFollows, callerVars, sharedVars, localVars,
        readVars, inputVars, streamVars
<1>1. ASSUME StartInput PROVE MutexFollows'
  BY <1>1 DEF StartInput, MayCall, NoteSpacing, Settled
<1>2. ASSUME StartRecording PROVE MutexFollows'
  BY <1>2 DEF StartRecording, Notify
<1>3. ASSUME StopStream PROVE MutexFollows'
  BY <1>3 DEF StopStream, MayCall, NoteSpacing, Settled
<1>4. ASSUME Pause PROVE MutexFollows'
  BY <1>4 DEF Pause
<1>5. ASSUME Stop PROVE MutexFollows'
  BY <1>5 DEF Stop, NoteSpacing, Settled
<1>6. ASSUME StopNotify PROVE MutexFollows'
  BY <1>6 DEF StopNotify, Notify
<1>7. ASSUME Delete PROVE MutexFollows'
  BY <1>7 DEF Delete
<1>8. ASSUME TermCheck PROVE MutexFollows'
  BY <1>8 DEF TermCheck, StopInput
<1>9. ASSUME LockStart PROVE MutexFollows'
  BY <1>9 DEF LockStart
<1>10. ASSUME TestStart PROVE MutexFollows'
  BY <1>10 DEF TestStart, StopInput
<1>11. ASSUME EnterWait PROVE MutexFollows'
  BY <1>11 DEF EnterWait
<1>12. ASSUME WakeUp PROVE MutexFollows'
  BY <1>12 DEF WakeUp
<1>13. ASSUME AfterWait PROVE MutexFollows'
  BY <1>13 DEF AfterWait
<1>14. ASSUME TermTest PROVE MutexFollows'
  BY <1>14 DEF TermTest
<1>15. ASSUME ReadInput PROVE MutexFollows'
  BY <1>15 DEF ReadInput
<1>16. ASSUME HandleRead PROVE MutexFollows'
  BY <1>16 DEF HandleRead
<1>17. ASSUME WriteFrame PROVE MutexFollows'
  BY <1>17 DEF WriteFrame
<1>18. ASSUME BaseTakes \/ BaseMain PROVE MutexFollows'
  BY <1>18 DEF BaseTakes, BaseMain, BaseWaits, BaseReads, threadVars
<1>19. CASE UNCHANGED vars
  BY <1>19 DEF vars
<1> QED
  BY <1>1, <1>2, <1>3, <1>4, <1>5, <1>6, <1>7, <1>8, <1>9, <1>10, <1>11, <1>12, <1>13,
     <1>14, <1>15, <1>16, <1>17, <1>18, <1>19
  DEF Next, Caller, CallerContinues, RecordingFn

LEMMA CallsStep == FlowInv /\ [Next]_vars => CallsAlternate'
<1> SUFFICES ASSUME FlowInv, [Next]_vars PROVE CallsAlternate'
  OBVIOUS
<1> USE BoundsAreNat, ErrorRetryIsNat, ReadResultsKnown
    DEF FlowInv, Types, FlagTypes, CountTypes, CallsAlternate, callerVars, sharedVars, localVars,
        readVars, inputVars, streamVars
<1>1. ASSUME StartInput PROVE CallsAlternate'
  BY <1>1 DEF StartInput, MayCall, NoteSpacing, Settled
<1>2. ASSUME StartRecording PROVE CallsAlternate'
  BY <1>2 DEF StartRecording, Notify
<1>3. ASSUME StopStream PROVE CallsAlternate'
  BY <1>3 DEF StopStream, MayCall, NoteSpacing, Settled
<1>4. ASSUME Pause PROVE CallsAlternate'
  BY <1>4 DEF Pause
<1>5. ASSUME Stop PROVE CallsAlternate'
  BY <1>5 DEF Stop, NoteSpacing, Settled
<1>6. ASSUME StopNotify PROVE CallsAlternate'
  BY <1>6 DEF StopNotify, Notify
<1>7. ASSUME Delete PROVE CallsAlternate'
  BY <1>7 DEF Delete
<1>8. ASSUME TermCheck PROVE CallsAlternate'
  BY <1>8 DEF TermCheck, StopInput
<1>9. ASSUME LockStart PROVE CallsAlternate'
  BY <1>9 DEF LockStart
<1>10. ASSUME TestStart PROVE CallsAlternate'
  BY <1>10 DEF TestStart, StopInput
<1>11. ASSUME EnterWait PROVE CallsAlternate'
  BY <1>11 DEF EnterWait
<1>12. ASSUME WakeUp PROVE CallsAlternate'
  BY <1>12 DEF WakeUp
<1>13. ASSUME AfterWait PROVE CallsAlternate'
  BY <1>13 DEF AfterWait
<1>14. ASSUME TermTest PROVE CallsAlternate'
  BY <1>14 DEF TermTest
<1>15. ASSUME ReadInput PROVE CallsAlternate'
  BY <1>15 DEF ReadInput
<1>16. ASSUME HandleRead PROVE CallsAlternate'
  BY <1>16 DEF HandleRead
<1>17. ASSUME WriteFrame PROVE CallsAlternate'
  BY <1>17 DEF WriteFrame
<1>18. ASSUME BaseTakes \/ BaseMain PROVE CallsAlternate'
  BY <1>18 DEF BaseTakes, BaseMain, BaseWaits, BaseReads, threadVars
<1>19. CASE UNCHANGED vars
  BY <1>19 DEF vars
<1> QED
  BY <1>1, <1>2, <1>3, <1>4, <1>5, <1>6, <1>7, <1>8, <1>9, <1>10, <1>11, <1>12, <1>13,
     <1>14, <1>15, <1>16, <1>17, <1>18, <1>19
  DEF Next, Caller, CallerContinues, RecordingFn

LEMMA RetriesStep == FlowInv /\ [Next]_vars => RetriesCounted'
<1> SUFFICES ASSUME FlowInv, [Next]_vars PROVE RetriesCounted'
  OBVIOUS
<1> USE BoundsAreNat, ErrorRetryIsNat, ReadResultsKnown
    DEF FlowInv, Types, FlagTypes, CountTypes, RetriesCounted, callerVars, sharedVars, localVars,
        readVars, inputVars, streamVars
<1>1. ASSUME StartInput PROVE RetriesCounted'
  BY <1>1 DEF StartInput, MayCall, NoteSpacing, Settled
<1>2. ASSUME StartRecording PROVE RetriesCounted'
  BY <1>2 DEF StartRecording, Notify
<1>3. ASSUME StopStream PROVE RetriesCounted'
  BY <1>3 DEF StopStream, MayCall, NoteSpacing, Settled
<1>4. ASSUME Pause PROVE RetriesCounted'
  BY <1>4 DEF Pause
<1>5. ASSUME Stop PROVE RetriesCounted'
  BY <1>5 DEF Stop, NoteSpacing, Settled
<1>6. ASSUME StopNotify PROVE RetriesCounted'
  BY <1>6 DEF StopNotify, Notify
<1>7. ASSUME Delete PROVE RetriesCounted'
  BY <1>7 DEF Delete
<1>8. ASSUME TermCheck PROVE RetriesCounted'
  BY <1>8 DEF TermCheck, StopInput
<1>9. ASSUME LockStart PROVE RetriesCounted'
  BY <1>9 DEF LockStart
<1>10. ASSUME TestStart PROVE RetriesCounted'
  BY <1>10 DEF TestStart, StopInput
<1>11. ASSUME EnterWait PROVE RetriesCounted'
  BY <1>11 DEF EnterWait
<1>12. ASSUME WakeUp PROVE RetriesCounted'
  BY <1>12 DEF WakeUp
<1>13. ASSUME AfterWait PROVE RetriesCounted'
  BY <1>13 DEF AfterWait
<1>14. ASSUME TermTest PROVE RetriesCounted'
  BY <1>14 DEF TermTest
<1>15. ASSUME ReadInput PROVE RetriesCounted'
  BY <1>15 DEF ReadInput
<1>16. ASSUME HandleRead PROVE RetriesCounted'
  BY <1>16 DEF HandleRead
<1>17. ASSUME WriteFrame PROVE RetriesCounted'
  BY <1>17 DEF WriteFrame
<1>18. ASSUME BaseTakes \/ BaseMain PROVE RetriesCounted'
  BY <1>18 DEF BaseTakes, BaseMain, BaseWaits, BaseReads, threadVars
<1>19. CASE UNCHANGED vars
  BY <1>19 DEF vars
<1> QED
  BY <1>1, <1>2, <1>3, <1>4, <1>5, <1>6, <1>7, <1>8, <1>9, <1>10, <1>11, <1>12, <1>13,
     <1>14, <1>15, <1>16, <1>17, <1>18, <1>19
  DEF Next, Caller, CallerContinues, RecordingFn

LEMMA FlagStep == FlowInv /\ [Next]_vars => InputFlag'
<1> SUFFICES ASSUME FlowInv, [Next]_vars PROVE InputFlag'
  OBVIOUS
<1> USE BoundsAreNat, ErrorRetryIsNat, ReadResultsKnown
    DEF FlowInv, Types, FlagTypes, CountTypes, InputFlag, callerVars, sharedVars, localVars,
        readVars, inputVars, streamVars
<1>1. ASSUME StartInput PROVE InputFlag'
  BY <1>1 DEF StartInput, MayCall, NoteSpacing, Settled
<1>2. ASSUME StartRecording PROVE InputFlag'
  BY <1>2 DEF StartRecording, Notify
<1>3. ASSUME StopStream PROVE InputFlag'
  BY <1>3 DEF StopStream, MayCall, NoteSpacing, Settled
<1>4. ASSUME Pause PROVE InputFlag'
  BY <1>4 DEF Pause
<1>5. ASSUME Stop PROVE InputFlag'
  BY <1>5 DEF Stop, NoteSpacing, Settled
<1>6. ASSUME StopNotify PROVE InputFlag'
  BY <1>6 DEF StopNotify, Notify
<1>7. ASSUME Delete PROVE InputFlag'
  BY <1>7 DEF Delete
<1>8. ASSUME TermCheck PROVE InputFlag'
  BY <1>8 DEF TermCheck, StopInput
<1>9. ASSUME LockStart PROVE InputFlag'
  BY <1>9 DEF LockStart
<1>10. ASSUME TestStart PROVE InputFlag'
  BY <1>10 DEF TestStart, StopInput
<1>11. ASSUME EnterWait PROVE InputFlag'
  BY <1>11 DEF EnterWait
<1>12. ASSUME WakeUp PROVE InputFlag'
  BY <1>12 DEF WakeUp
<1>13. ASSUME AfterWait PROVE InputFlag'
  BY <1>13 DEF AfterWait
<1>14. ASSUME TermTest PROVE InputFlag'
  BY <1>14 DEF TermTest
<1>15. ASSUME ReadInput PROVE InputFlag'
  BY <1>15 DEF ReadInput
<1>16. ASSUME HandleRead PROVE InputFlag'
  BY <1>16 DEF HandleRead
<1>17. ASSUME WriteFrame PROVE InputFlag'
  BY <1>17 DEF WriteFrame
<1>18. ASSUME BaseTakes \/ BaseMain PROVE InputFlag'
  BY <1>18 DEF BaseTakes, BaseMain, BaseWaits, BaseReads, threadVars
<1>19. CASE UNCHANGED vars
  BY <1>19 DEF vars
<1> QED
  BY <1>1, <1>2, <1>3, <1>4, <1>5, <1>6, <1>7, <1>8, <1>9, <1>10, <1>11, <1>12, <1>13,
     <1>14, <1>15, <1>16, <1>17, <1>18, <1>19
  DEF Next, Caller, CallerContinues, RecordingFn

LEMMA StopsStep == CountInv /\ [Next]_vars => StopsPaidFor'
<1> SUFFICES ASSUME CountInv, [Next]_vars PROVE StopsPaidFor'
  OBVIOUS
<1> USE BoundsAreNat, ErrorRetryIsNat, ReadResultsKnown
    DEF CountInv, FlowInv, Types, FlagTypes, CountTypes, MutexFollows, CallsAlternate,
        InputFlag, StopsPaidFor, WakeUpUnspent, Heard, callerVars, sharedVars, localVars,
        readVars, inputVars, streamVars
<1>1. ASSUME StartInput PROVE StopsPaidFor'
  BY <1>1 DEF StartInput, MayCall, NoteSpacing, Settled
<1>2. ASSUME StartRecording PROVE StopsPaidFor'
  BY <1>2 DEF StartRecording, Notify
<1>3. ASSUME StopStream PROVE StopsPaidFor'
  BY <1>3 DEF StopStream, MayCall, NoteSpacing, Settled
<1>4. ASSUME Pause PROVE StopsPaidFor'
  BY <1>4 DEF Pause
<1>5. ASSUME Stop PROVE StopsPaidFor'
  BY <1>5 DEF Stop, NoteSpacing, Settled
<1>6. ASSUME StopNotify PROVE StopsPaidFor'
  BY <1>6 DEF StopNotify, Notify
<1>7. ASSUME Delete PROVE StopsPaidFor'
  BY <1>7 DEF Delete
<1>8. ASSUME TermCheck PROVE StopsPaidFor'
  BY <1>8 DEF TermCheck, StopInput
<1>9. ASSUME LockStart PROVE StopsPaidFor'
  BY <1>9 DEF LockStart
<1>10. ASSUME TestStart PROVE StopsPaidFor'
  BY <1>10 DEF TestStart, StopInput
<1>11. ASSUME EnterWait PROVE StopsPaidFor'
  BY <1>11 DEF EnterWait
<1>12. ASSUME WakeUp PROVE StopsPaidFor'
  BY <1>12 DEF WakeUp
<1>13. ASSUME AfterWait PROVE StopsPaidFor'
  BY <1>13 DEF AfterWait
<1>14. ASSUME TermTest PROVE StopsPaidFor'
  BY <1>14 DEF TermTest
<1>15. ASSUME ReadInput PROVE StopsPaidFor'
  BY <1>15 DEF ReadInput
<1>16. ASSUME HandleRead PROVE StopsPaidFor'
  BY <1>16 DEF HandleRead
<1>17. ASSUME WriteFrame PROVE StopsPaidFor'
  BY <1>17 DEF WriteFrame
<1>18. ASSUME BaseTakes \/ BaseMain PROVE StopsPaidFor'
  BY <1>18 DEF BaseTakes, BaseMain, BaseWaits, BaseReads, threadVars
<1>19. CASE UNCHANGED vars
  BY <1>19 DEF vars
<1> QED
  BY <1>1, <1>2, <1>3, <1>4, <1>5, <1>6, <1>7, <1>8, <1>9, <1>10, <1>11, <1>12, <1>13,
     <1>14, <1>15, <1>16, <1>17, <1>18, <1>19
  DEF Next, Caller, CallerContinues, RecordingFn

LEMMA UndisturbedStep == IInv /\ [Next]_vars => UndisturbedInv'
<1> SUFFICES ASSUME IInv, [Next]_vars PROVE UndisturbedInv'
  OBVIOUS
<1> USE BoundsAreNat, ErrorRetryIsNat, ReadResultsKnown
    DEF IInv, CountInv, FlowInv, Types, FlagTypes, CountTypes, MutexFollows, CallsAlternate, InputFlag,
        UndisturbedInv, Undisturbed, StreamOpen, StreamEnds, InputAlternates, OnStream,
        OffStream, callerVars, sharedVars, localVars,
        readVars, inputVars, streamVars
<1>1. ASSUME StartInput PROVE UndisturbedInv'
  <2>1. ASSUME Undisturbed' PROVE Undisturbed /\ rf = "asleep" /\ ~open /\ ~notified
    <3>1. Undisturbed /\ Settled /\ ~recordingTerm
      BY <1>1, <2>1 DEF StartInput, MayCall, NoteSpacing
    <3>2. ~recordingStart /\ caller = "idle"
      BY <1>1 DEF StartInput, MayCall
    <3> QED
      BY <3>1, <3>2 DEF Settled
  <2>2. ASSUME Undisturbed' PROVE InputAlternates'
    BY <1>1, <2>1, <2>2 DEF StartInput
  <2>3. ASSUME Undisturbed' PROVE StreamOpen' /\ StreamEnds'
    BY <1>1, <2>1, <2>3 DEF StartInput, MayCall
  <2> QED
    BY <2>2, <2>3 DEF UndisturbedInv
<1>2. ASSUME StartRecording PROVE UndisturbedInv'
  BY <1>2 DEF StartRecording, Notify
<1>3. ASSUME StopStream PROVE UndisturbedInv'
  <2>1. ASSUME Undisturbed' PROVE Undisturbed /\ recordingStart /\ rf \in {"read", "handle", "write"}
    <3>1. Undisturbed /\ Settled
      BY <1>3, <2>1 DEF StopStream, NoteSpacing
    <3>2. recordingStart /\ caller = "idle"
      BY <1>3 DEF StopStream, MayCall
    <3> QED
      BY <3>1, <3>2 DEF Settled
  <2>2. ASSUME Undisturbed' PROVE InputAlternates'
    BY <1>3, <2>1, <2>2 DEF StopStream
  <2>3. ASSUME Undisturbed' PROVE StreamOpen' /\ StreamEnds'
    BY <1>3, <2>1, <2>3 DEF StopStream, MayCall
  <2> QED
    BY <2>2, <2>3 DEF UndisturbedInv
<1>4. ASSUME Pause PROVE UndisturbedInv'
  <2>1. ASSUME Undisturbed' PROVE Undisturbed
    BY <1>4, <2>1 DEF Pause
  <2>2. ASSUME Undisturbed' PROVE InputAlternates'
    BY <1>4, <2>1, <2>2 DEF Pause
  <2>3. ASSUME Undisturbed' PROVE StreamOpen' /\ StreamEnds'
    BY <1>4, <2>1, <2>3 DEF Pause
  <2> QED
    BY <2>2, <2>3 DEF UndisturbedInv
<1>5. ASSUME Stop PROVE UndisturbedInv'
  BY <1>5 DEF Stop, NoteSpacing, Settled
<1>6. ASSUME StopNotify PROVE UndisturbedInv'
  BY <1>6 DEF StopNotify, Notify
<1>7. ASSUME Delete PROVE UndisturbedInv'
  BY <1>7 DEF Delete
<1>8. ASSUME TermCheck PROVE UndisturbedInv'
  BY <1>8 DEF TermCheck, StopInput
<1>9. ASSUME LockStart PROVE UndisturbedInv'
  BY <1>9 DEF LockStart
<1>10. ASSUME TestStart PROVE UndisturbedInv'
  BY <1>10 DEF TestStart, StopInput
<1>11. ASSUME EnterWait PROVE UndisturbedInv'
  BY <1>11 DEF EnterWait
<1>12. ASSUME WakeUp PROVE UndisturbedInv'
  <2>1. ASSUME Undisturbed' PROVE Undisturbed /\ notified
    BY <1>12, <2>1 DEF WakeUp
  <2>2. ASSUME Undisturbed' PROVE InputAlternates'
    BY <1>12, <2>1, <2>2 DEF WakeUp
  <2>3. ASSUME Undisturbed' PROVE StreamOpen' /\ StreamEnds'
    BY <1>12, <2>1, <2>3 DEF WakeUp
  <2> QED
    BY <2>2, <2>3 DEF UndisturbedInv
<1>13. ASSUME AfterWait PROVE UndisturbedInv'
  BY <1>13 DEF AfterWait
<1>14. ASSUME TermTest PROVE UndisturbedInv'
  BY <1>14 DEF TermTest
<1>15. ASSUME ReadInput PROVE UndisturbedInv'
  BY <1>15 DEF ReadInput
<1>16. ASSUME HandleRead PROVE UndisturbedInv'
  BY <1>16 DEF HandleRead
<1>17. ASSUME WriteFrame PROVE UndisturbedInv'
  BY <1>17 DEF WriteFrame
<1>18. ASSUME BaseTakes \/ BaseMain PROVE UndisturbedInv'
  <2>1. UNCHANGED threadVars
    BY <1>18 DEF BaseTakes, BaseMain, BaseWaits, BaseReads
  <2> QED
    BY <2>1 DEF threadVars
<1>19. CASE UNCHANGED vars
  BY <1>19 DEF vars
<1> QED
  BY <1>1, <1>2, <1>3, <1>4, <1>5, <1>6, <1>7, <1>8, <1>9, <1>10, <1>11, <1>12, <1>13,
     <1>14, <1>15, <1>16, <1>17, <1>18, <1>19
  DEF Next, Caller, CallerContinues, RecordingFn

\* What the two theorems below are proved from.
THEOREM Invariance == Spec => []IInv
<1>1. IInv /\ [Next]_vars => IInv'
  BY FlagTypesStep, CountTypesStep, StreamTypesStep, MutexStep, CallsStep, RetriesStep, FlagStep,
     StopsStep, UndisturbedStep
  DEF IInv, CountInv, FlowInv, Types
<1> QED
  BY InitIInv, <1>1, PTL DEF Spec

\* The types and the bounds: stop_input is called at most once per call and stray
\* wake-up (recordingFn's loop), and on_err_input at the latest when errorRetry + 1 reads
\* in a row have failed.
THEOREM TypeCorrect == Spec => []TypeOK
<1>1. IInv => TypeOK
  BY BoundsAreNat, ErrorRetryIsNat
  DEF IInv, CountInv, FlowInv, Types, FlagTypes, CountTypes, StreamTypes, CallsAlternate, RetriesCounted,
      StopsPaidFor, Heard, TypeOK
<1> QED
  BY Invariance, <1>1, PTL

\* While every call waits until the thread has settled, read_input is called on an open
\* input only and start_input and stop_input alternate, however long the session.
THEOREM InputIsOpenWhenRead == Spec => []ReadsOpenIfUndisturbed
<1>1. IInv => ReadsOpenIfUndisturbed
  <2> SUFFICES ASSUME IInv, Undisturbed PROVE (rf = "read" => open) /\ InputAlternates
    BY DEF ReadsOpenIfUndisturbed, InputAlternates
  <2>1. StreamOpen /\ StreamEnds /\ InputAlternates
    BY DEF IInv, UndisturbedInv
  <2>2. caller \in {"idle", "starting", "pausing"} \/ recordingTerm
    BY DEF IInv, CountInv, FlowInv, Types, FlagTypes, InputFlag
  <2>3. CASE recordingTerm
    BY <2>1, <2>3 DEF StreamEnds
  <2>4. CASE ~recordingTerm
    BY <2>1, <2>2, <2>4 DEF StreamOpen, OnStream, OffStream, IInv, CountInv, FlowInv,
       CallsAlternate
  <2> QED
    BY <2>1, <2>3, <2>4
<1> QED
  BY Invariance, <1>1, PTL
=============================================================================
