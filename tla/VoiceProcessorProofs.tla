------------------------ MODULE VoiceProcessorProofs ------------------------
(***************************************************************************)
(* Proofs about VoiceProcessor: with alg_vt_enable set, as every shipped   *)
(* configuration has it, and memory that was clear under m_bPre, the six   *)
(* safety properties hold for every sequence of words, segments and state  *)
(* changes.  They share one inductive invariant, which says stage by stage *)
(* how the flags of ProcessState, the encoder and the output that the      *)
(* application has seen so far fit together.                               *)
(***************************************************************************)
EXTENDS VoiceProcessor, TLAPS

VtEnabled == Configs \subseteq [vt : {TRUE}, vad : BOOLEAN]
FreshPreClear == FreshPre \subseteq {FALSE}

\* Between the start of a word and the start of its segment the flags are in
\* transition: resetASR may leave dataOutput set.
InTransition == (stage = "vad" /\ Pre) \/ stage = "begin"

\* The wrapper's m_bPre is what the engine thinks; a verdict settles the word.
EngineAgrees ==
  /\ vbv.m_bPre = vbv.pending
  /\ vbv.result \cap Verdicts # {} => ~vbv.pending

TransitionIsSilent ==
  /\ InTransition => asrMsgCheckFlag = 0
  /\ stage = "vad" /\ Pre => vad.state = 0
  /\ stage = "begin" => vad.state = 1 \/ vad.edge = "end"

\* The application has seen an open VAD_START exactly when output is not held back.
FlagMatches ==
  ~InTransition =>
    asrMsgCheckFlag = IF state.dataOutput /\ ~state.canceled THEN 1 ELSE 0

\* Output belongs to a segment, and the segment to the engine's.
OutputInSegment ==
  /\ ~InTransition => (state.dataOutput => state.vadStart)
  /\ ~InTransition /\ state.vadStart => (state.canceled => state.dataOutput)
  /\ stage \in {"idle", "word", "vad", "deliver"} /\ ~InTransition =>
       (state.vadStart => vad.state = 1)
  /\ stage \in {"verdict", "output", "cancel", "resume", "send", "end"} =>
       (state.vadStart => vad.state = 1 \/ vad.edge = "end")

\* The encoder is paused only while output is held back.
EncoderFollows ==
  ~InTransition /\ state.vadStart =>
    /\ ~state.canceled => ~cod.paused
    /\ cod.sent => state.dataOutput
    /\ cod.again => state.canceled /\ (cod.tooLong \/ ~state.awke)

WordBeforeOutput ==
  ~InTransition /\ ~(stage = "word" /\ Pre) =>
    (state.dataOutput /\ state.awke => ~vbv.pending)

\* What each stage may rely on.
StageFacts ==
  /\ stage = "output" => state.vadStart
  /\ stage = "cancel" => state.dataOutput
  /\ stage = "resume" => state.dataOutput \/ (state.canceled /\ ~alg.vad)
  /\ stage = "send" => state.dataOutput /\ ~state.canceled
  /\ stage \in {"resume", "send", "end", "deliver"} =>
       AsrFlag \/ state.awke \/ asrMsgCheckFlag = 0

IInv ==
  /\ TypeOK
  /\ alg.vt
  /\ AssertionsHold
  /\ VadProtocolKept
  /\ EngineAgrees
  /\ TransitionIsSilent
  /\ FlagMatches
  /\ OutputInSegment
  /\ EncoderFollows
  /\ WordBeforeOutput
  /\ StageFacts

-----------------------------------------------------------------------------
(* The operators the actions are made of *)

\* Feeding the encoder moves neither its pause nor its cursor, and a segment that
\* is too long stays so: r2mem_cod::process only appends.
LEMMA FedFacts ==
  ASSUME cod \in Encoder, NEW c \in Fed
  PROVE  /\ c \in Encoder
         /\ c.paused = cod.paused /\ c.sent = cod.sent /\ c.again = cod.again
         /\ cod.tooLong => c.tooLong
<1>1. PICK f \in Sounds, t \in BOOLEAN, l \in BOOLEAN : c = Feed(f, t, l)
  BY DEF Fed
<1>2. f \in BOOLEAN
  BY DEF Sounds
<1> DEFINE fresh == cod.fresh \/ f
           tooLong == cod.tooLong \/ (f /\ t)
           longPause == cod.longPause \/ (f /\ cod.paused /\ l)
<1>3. c = [cod EXCEPT !.fresh = fresh, !.tooLong = tooLong, !.longPause = longPause]
  BY <1>1 DEF Encoder, Feed
<1>4. fresh \in BOOLEAN /\ tooLong \in BOOLEAN /\ longPause \in BOOLEAN
  OBVIOUS
<1>5. cod.tooLong => tooLong
  OBVIOUS
<1> HIDE DEF fresh, tooLong, longPause
<1> QED
  BY <1>3, <1>4, <1>5 DEF Encoder

\* pause: the cursor goes back, nothing else about the segment changes.
LEMMA PausedFacts ==
  ASSUME NEW c \in Encoder
  PROVE  /\ Paused(c) \in Encoder
         /\ Paused(c).sent = c.sent /\ Paused(c).tooLong = c.tooLong
         /\ Paused(c).again = (c.again \/ c.sent)
<1>1. (c.fresh \/ c.sent) \in BOOLEAN /\ (c.again \/ c.sent) \in BOOLEAN
  OBVIOUS
<1> QED
  BY <1>1 DEF Encoder, Paused

LEMMA ResumedFacts ==
  ASSUME NEW c \in Encoder
  PROVE  /\ Resumed(c) \in Encoder /\ ~Resumed(c).paused
         /\ Resumed(c).sent = c.sent /\ Resumed(c).again = c.again
         /\ Resumed(c).tooLong = c.tooLong
  BY DEF Encoder, Resumed

LEMMA DrainedFacts ==
  ASSUME NEW c \in Encoder
  PROVE  /\ Drained(c) \in Encoder /\ ~Drained(c).again
         /\ Drained(c).paused = c.paused /\ Drained(c).tooLong = c.tooLong
  BY DEF Encoder, Drained

LEMMA NewEncoderFacts ==
  /\ NewEncoder \in Encoder
  /\ ~NewEncoder.paused /\ ~NewEncoder.sent /\ ~NewEncoder.again
  BY DEF NewEncoder, Encoder

\* As long as m_bPre agrees with the engine no assertion on it fails, it goes on
\* agreeing, and only a word that process() takes for begun stays pending.
LEMMA HeardFacts ==
  ASSUME TypeOK, EngineAgrees, NEW result \in EngineResults, NEW word \in WordTypes
  PROVE  /\ EngineAsserts(result)
         /\ Heard(result, word) \in
              [pending : BOOLEAN, m_bPre : BOOLEAN, word : WordTypes \cup {"NULL"},
               result : SUBSET (Verdicts \cup {"PRE"})]
         /\ Heard(result, word).m_bPre = Heard(result, word).pending
         /\ result \cap Verdicts # {} => ~Heard(result, word).pending
         /\ Heard(result, word).result = result
         /\ ~("PRE" \in result /\ "CANCEL" \notin result) =>
              (Heard(result, word).pending => vbv.pending)
<1>1. result \in SUBSET (Verdicts \cup {"PRE"})
  BY DEF EngineResults, Verdicts
<1>2. vbv.pending => "PRE" \notin result
  BY DEF EngineResults
<1>3. ~vbv.pending => (result \cap Verdicts # {} => "PRE" \in result)
  BY DEF EngineResults, Verdicts
<1>4. vbv.pending \in BOOLEAN /\ vbv.m_bPre \in BOOLEAN
      /\ vbv.word \in WordTypes \cup {"NULL"}
  BY DEF TypeOK
<1>5. ~vbv.pending /\ "PRE" \in result /\ "CANCEL" \in result =>
        result \cap Verdicts # {}
  BY DEF Verdicts
<1> QED
  BY <1>1, <1>2, <1>3, <1>4, <1>5 DEF EngineAsserts, EngineAgrees, Heard

LEMMA EmitFacts ==
  ASSUME TypeOK, NEW events \in SUBSET Events, Emit(events)
  PROVE  out' \subseteq Events /\ asrMsgCheckFlag' \in {0, 1} /\ flagErrors' \in BOOLEAN
  BY DEF TypeOK, Emit
-----------------------------------------------------------------------------
(* The invariant *)

LEMMA TypePreserved ==
  ASSUME TypeOK, EngineAgrees, [Next]_vars
  PROVE  TypeOK'
<1> USE DEF Go, Silent
<1>1. ASSUME NEW s \in {"awake", "sleep"}, SetState(s) PROVE TypeOK'
  <2>1. state' \in ProcessState
    BY <1>1 DEF TypeOK, SetState, ProcessState
  <2> QED
    BY <1>1, <2>1 DEF TypeOK, SetState
<1>2. CASE StartFrame
  <2>1. PICK result \in EngineResults, word \in WordTypes :
          /\ vbv' = Heard(result, word)
          /\ stage' \in {"word", "aborted"}
    BY <1>2 DEF StartFrame
  <2>2. state' \in ProcessState
    BY <1>2 DEF TypeOK, StartFrame, ProcessState
  <2> QED
    BY <1>2, <2>1, <2>2, HeardFacts DEF TypeOK, StartFrame
<1>3. CASE ResetASR
  <2>1. out' \subseteq Events /\ asrMsgCheckFlag' \in {0, 1} /\ flagErrors' \in BOOLEAN
    BY <1>3, EmitFacts DEF ResetASR, Events, VadEvents
  <2>2. state' \in ProcessState
    BY <1>3 DEF ResetASR, ProcessState
  <2> QED
    BY <1>3, <2>1, <2>2, NewEncoderFacts DEF TypeOK, ResetASR
<1>4. CASE NoWord
  BY <1>4 DEF TypeOK, NoWord
<1>5. CASE SegmentBegins
  BY <1>5 DEF TypeOK, SegmentBegins
<1>6. CASE SegmentEnds
  BY <1>6 DEF TypeOK, SegmentEnds
<1>7. CASE NoEdge
  BY <1>7 DEF TypeOK, NoEdge
<1>8. CASE Begin
  <2>1. out' \subseteq Events /\ asrMsgCheckFlag' \in {0, 1} /\ flagErrors' \in BOOLEAN
    BY <1>8, EmitFacts DEF Begin, Events
  <2>2. state' \in ProcessState
    BY <1>8 DEF Begin, ProcessState, AsrFlag, AwakePre, Pre
  <2> QED
    BY <1>8, <2>1, <2>2, NewEncoderFacts DEF TypeOK, Begin
<1>9. CASE Verdict
  <2>1. out' \subseteq Events /\ asrMsgCheckFlag' \in {0, 1} /\ flagErrors' \in BOOLEAN
    BY <1>9, EmitFacts DEF Verdict, Events
  <2> QED
    BY <1>9, <2>1 DEF TypeOK, Verdict
<1>10. CASE OpenOnWord
  <2>1. out' \subseteq Events /\ asrMsgCheckFlag' \in {0, 1} /\ flagErrors' \in BOOLEAN
    BY <1>10, EmitFacts DEF OpenOnWord, Events, VadEvents
  <2>2. cod' \in Encoder
    BY <1>10, FedFacts, PausedFacts DEF TypeOK, OpenOnWord
  <2>3. state' \in ProcessState
    BY <1>10 DEF TypeOK, OpenOnWord, ProcessState, Cmd, Detected
  <2> QED
    BY <1>10, <2>1, <2>2, <2>3 DEF TypeOK, OpenOnWord
<1>11. CASE OpenOnAsr
  <2>1. out' \subseteq Events /\ asrMsgCheckFlag' \in {0, 1} /\ flagErrors' \in BOOLEAN
    BY <1>11, EmitFacts DEF OpenOnAsr, Events, VadEvents
  <2> QED
    BY <1>11, <2>1, FedFacts DEF TypeOK, OpenOnAsr, ProcessState
<1>12. CASE KeepShut
  BY <1>12, FedFacts DEF TypeOK, KeepShut
<1>13. CASE KeepOpen
  BY <1>13, FedFacts DEF TypeOK, KeepOpen
<1>14. CASE CancelOutput
  <2>1. out' \subseteq Events /\ asrMsgCheckFlag' \in {0, 1} /\ flagErrors' \in BOOLEAN
    BY <1>14, EmitFacts DEF CancelOutput, Events, VadEvents
  <2>2. alg.vad \in BOOLEAN
    BY ConfigsAreFlags DEF TypeOK
  <2>3. state' \in ProcessState
    BY <1>14, <2>2 DEF TypeOK, CancelOutput, ProcessState
  <2> QED
    BY <1>14, <2>1, <2>3, PausedFacts DEF TypeOK, CancelOutput
<1>15. CASE KeepOutput
  BY <1>15 DEF TypeOK, KeepOutput
<1>16. CASE ResumeOutput
  <2>1. out' \subseteq Events /\ asrMsgCheckFlag' \in {0, 1} /\ flagErrors' \in BOOLEAN
    BY <1>16, EmitFacts DEF ResumeOutput, Events, VadEvents
  <2> QED
    BY <1>16, <2>1, ResumedFacts DEF TypeOK, ResumeOutput, ProcessState
<1>17. CASE NoResume
  BY <1>17 DEF TypeOK, NoResume
<1>18. CASE SendData
  <2>1. out' \subseteq Events /\ asrMsgCheckFlag' \in {0, 1} /\ flagErrors' \in BOOLEAN
    BY <1>18, EmitFacts DEF SendData, Events, VadEvents
  <2> QED
    BY <1>18, <2>1, DrainedFacts DEF TypeOK, SendData
<1>19. CASE EndSegment
  <2>1. out' \subseteq Events /\ asrMsgCheckFlag' \in {0, 1} /\ flagErrors' \in BOOLEAN
    BY <1>19, EmitFacts DEF EndSegment, Events, VadEvents
  <2>2. state' \in ProcessState
    BY <1>19 DEF TypeOK, EndSegment, ProcessState
  <2>3. cod' \in Encoder
    BY <1>19, PausedFacts, ResumedFacts DEF TypeOK, EndSegment
  <2> QED
    BY <1>19, <2>1, <2>2, <2>3 DEF TypeOK, EndSegment
<1>20. CASE SegmentGoesOn
  BY <1>20 DEF TypeOK, SegmentGoesOn
<1>21. CASE Deliver
  <2>1. state' \in ProcessState
    BY <1>21 DEF TypeOK, Deliver, ProcessState
  <2> QED
    BY <1>21, <2>1 DEF TypeOK, Deliver
<1>22. CASE UNCHANGED vars
  BY <1>22 DEF TypeOK, vars
<1> QED
  BY <1>1, <1>2, <1>3, <1>4, <1>5, <1>6, <1>7, <1>8, <1>9, <1>10, <1>11, <1>12,
     <1>13, <1>14, <1>15, <1>16, <1>17, <1>18, <1>19, <1>20, <1>21, <1>22
  DEF Next, Word, Voice, Output

LEMMA InitEstablishes ==
  ASSUME VtEnabled, FreshPreClear, Init
  PROVE  IInv
<1>1. TypeOK
  <2>1. PICK b \in FreshPre :
          vbv = [pending |-> FALSE, m_bPre |-> b, word |-> "NULL", result |-> {}]
    BY DEF Init
  <2>2. b \in BOOLEAN
    BY FreshPreIsFlag
  <2>3. state \in ProcessState
    BY DEF Init, ProcessState
  <2> QED
    BY <2>1, <2>2, <2>3, NewEncoderFacts DEF Init, TypeOK
<1>2. alg.vt
  BY DEF Init, VtEnabled
<1>3. vbv.pending = FALSE /\ vbv.m_bPre = FALSE /\ vbv.result = {}
  <2>1. PICK b \in FreshPre :
          vbv = [pending |-> FALSE, m_bPre |-> b, word |-> "NULL", result |-> {}]
    BY DEF Init
  <2>2. b = FALSE
    BY DEF FreshPreClear
  <2> QED
    BY <2>1, <2>2
<1>4. /\ stage = "idle" /\ asrMsgCheckFlag = 0 /\ flagErrors = FALSE
      /\ state.dataOutput = FALSE /\ state.vadStart = FALSE
  BY DEF Init
<1> QED
  BY <1>1, <1>2, <1>3, <1>4
     DEF IInv, AssertionsHold, VadProtocolKept, EngineAgrees,
         TransitionIsSilent, FlagMatches, OutputInSegment, EncoderFollows,
         WordBeforeOutput, StageFacts, InTransition

LEMMA StepPreserves ==
  ASSUME IInv, [Next]_vars
  PROVE  IInv'
<1>0. TypeOK /\ TypeOK'
  BY TypePreserved DEF IInv
<1> USE <1>0
<1> USE DEF Go, Silent, TypeOK, ProcessState, Pre, AsrFlag, IInv, AssertionsHold,
            VadProtocolKept, EngineAgrees, TransitionIsSilent, FlagMatches,
            OutputInSegment, EncoderFollows, WordBeforeOutput, StageFacts, InTransition
<1>1. ASSUME NEW s \in {"awake", "sleep"}, SetState(s) PROVE IInv'
  BY <1>1 DEF SetState
<1>2. CASE StartFrame
  BY <1>2, HeardFacts DEF StartFrame, Verdicts
<1>3. CASE ResetASR
  BY <1>3, NewEncoderFacts DEF ResetASR, Emit
<1>4. CASE NoWord
  BY <1>4 DEF NoWord
<1>5. CASE SegmentBegins
  BY <1>5 DEF SegmentBegins
<1>6. CASE SegmentEnds
  BY <1>6 DEF SegmentEnds
<1>7. CASE NoEdge
  BY <1>7 DEF NoEdge
<1>8. CASE Begin
  BY <1>8, NewEncoderFacts DEF Begin, Emit
<1>9. CASE Verdict
  BY <1>9 DEF Verdict, Emit
<1>10. CASE OpenOnWord
  BY <1>10, FedFacts, PausedFacts DEF OpenOnWord, Emit, Cmd, NoCmd, Detected
<1>11. CASE OpenOnAsr
  BY <1>11, FedFacts DEF OpenOnAsr, Emit
<1>12. CASE KeepShut
  BY <1>12, FedFacts DEF KeepShut
<1>13. CASE KeepOpen
  BY <1>13, FedFacts DEF KeepOpen
<1>14. CASE CancelOutput
  BY <1>14, PausedFacts DEF CancelOutput, Emit, TooLong, NoAsrFlag
<1>15. CASE KeepOutput
  BY <1>15 DEF KeepOutput, NoAsrFlag
<1>16. CASE ResumeOutput
  BY <1>16, ResumedFacts DEF ResumeOutput, Emit, MayResume, IsNeedResume
<1>17. CASE NoResume
  BY <1>17 DEF NoResume, MayResume
<1>18. CASE SendData
  BY <1>18, DrainedFacts DEF SendData, Emit
<1>19. CASE EndSegment
  BY <1>19 DEF EndSegment, Emit
<1>20. CASE SegmentGoesOn
  BY <1>20 DEF SegmentGoesOn
<1>21. CASE Deliver
  BY <1>21 DEF Deliver
<1>22. CASE UNCHANGED vars
  BY <1>22 DEF vars
<1> QED
  BY <1>1, <1>2, <1>3, <1>4, <1>5, <1>6, <1>7, <1>8, <1>9, <1>10, <1>11, <1>12,
     <1>13, <1>14, <1>15, <1>16, <1>17, <1>18, <1>19, <1>20, <1>21, <1>22
  DEF Next, Word, Voice, Output

LEMMA AlwaysIInv ==
  ASSUME VtEnabled, FreshPreClear
  PROVE  Spec => []IInv
<1>1. Init => IInv
  BY InitEstablishes
<1>2. IInv /\ [Next]_vars => IInv'
  BY StepPreserves
<1> QED
  BY <1>1, <1>2, PTL DEF Spec

-----------------------------------------------------------------------------
\* The processor's variables keep their types, in every shipped configuration.
THEOREM TypeCorrect ==
  ASSUME VtEnabled, FreshPreClear
  PROVE  Spec => []TypeOK
<1>1. IInv => TypeOK
  BY DEF IInv
<1> QED
  BY <1>1, AlwaysIInv, PTL

\* assert(!m_bPaused) of r2mem_cod::processdata and the assertions on m_bPre in
\* r2mem_vbv3::Process hold whatever is heard and whatever the application sets.
THEOREM EncoderIsNeverAskedWhilePaused ==
  ASSUME VtEnabled, FreshPreClear
  PROVE  Spec => []AssertionsHold
<1>1. IInv => AssertionsHold
  BY DEF IInv
<1> QED
  BY <1>1, AlwaysIInv, PTL

\* dumpMsg never finds its flag wrong: VAD_START, VAD_DATA, VAD_END and VAD_CANCEL
\* reach the application as a protocol.
THEOREM AsrFlagErrorIsNeverLogged ==
  ASSUME VtEnabled, FreshPreClear
  PROVE  Spec => []VadProtocolKept
<1>1. IInv => VadProtocolKept
  BY DEF IInv
<1> QED
  BY <1>1, AlwaysIInv, PTL

\* pause rewinds the encoder, but nothing is resumed of which a part was sent.
THEOREM NoAudioIsSentTwice ==
  ASSUME VtEnabled, FreshPreClear
  PROVE  Spec => []AudioSentOnce
<1>1. IInv => AudioSentOnce
  BY DEF IInv, AudioSentOnce, TypeOK, EncoderFollows, OutputInSegment, StageFacts, InTransition
<1> QED
  BY <1>1, AlwaysIInv, PTL

\* Output that the application was told of lies inside a segment, was confirmed if a
\* wake word began it, and ends with the first frame handled asleep and without a word.
THEOREM OutputIsJustified ==
  ASSUME VtEnabled, FreshPreClear
  PROVE  Spec => []OutputHasItsReason
<1>1. IInv => OutputHasItsReason
  <2> SUFFICES ASSUME IInv PROVE OutputHasItsReason
    OBVIOUS
  <2>1. stage = "idle" /\ vad.state = 0 => asrMsgCheckFlag = 0
    BY DEF IInv, TypeOK, FlagMatches, OutputInSegment, InTransition
  <2>2. stage = "idle" /\ state.awke /\ asrMsgCheckFlag = 1 => ~vbv.pending
    BY DEF IInv, TypeOK, FlagMatches, WordBeforeOutput, InTransition
  <2>3. stage = "deliver" /\ ~AsrFlag /\ ~state.awke => asrMsgCheckFlag = 0
    BY DEF IInv, TypeOK, StageFacts
  <2> QED
    BY <2>1, <2>2, <2>3 DEF OutputHasItsReason
<1> QED
  BY <1>1, AlwaysIInv, PTL
=============================================================================
