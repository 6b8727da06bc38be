--------------------------- MODULE VoiceProcessor ---------------------------
(***************************************************************************)
(* SirenProcessorImpl::process of src/siren_processor.cpp with the adapter *)
(* around it (SirenAudioVBVProcessor) and the loop of the base's process   *)
(* thread that sends what it produces: the decisions that turn wake-word   *)
(* verdicts and voice-activity edges into the event stream of the API.     *)
(*                                                                         *)
(* One frame runs through the stages below without interruption, because   *)
(* the process thread alone touches this state; between two frames it may  *)
(* carry out a set_siren_state.  Signals are left out.  The two closed     *)
(* engines, wake word and voice activity, answer as the assertions of      *)
(* their adapters require; the amount of audio in the encoder's buffer is  *)
(* kept as the comparisons the code makes with it.                         *)
(***************************************************************************)
EXTENDS Integers

CONSTANTS
  Configs,   \* settings of alg_vt_enable and alg_vad_enable to start from
  FreshPre   \* what m_bPre, never initialised, may hold in a new r2mem_vbv3

ASSUME ConfigsAreFlags == Configs \subseteq [vt : BOOLEAN, vad : BOOLEAN]
ASSUME FreshPreIsFlag == FreshPre \subseteq BOOLEAN

VARIABLES
  alg,             \* the configuration, fixed at the start
  stage,           \* what is next in the handling of a frame
  r2v_state,       \* SirenAudioVBVProcessor: awake or asleep
  vbv,             \* wake word: engine has a word pending, m_bPre, word, result
  vad,             \* voice activity: m_iVadState and the edge in this frame
  state,           \* ProcessState
  cod,             \* the encoder's buffer
  out,             \* the kinds of message this frame has produced
  asrMsgCheckFlag, \* ProcessState: a VAD_START has not been ended yet
  flagErrors       \* dumpMsg logged "asrflag error"

vars == <<alg, stage, r2v_state, vbv, vad, state, cod, out, asrMsgCheckFlag,
          flagErrors>>

Verdicts == {"CANCEL", "CMD", "NOCMD"}
WordTypes == {"WORD_AWAKE", "WORD_SLEEP", "WORD_HOTWORD"}
VadEvents == {"vad_start", "vad_data", "vad_end", "vad_cancel"}
Events == VadEvents \cup {"awake_pre", "debug_audio", "awake_nocmd", "awake_cmd", "sleep"}

ProcessState ==
  [asr : BOOLEAN, vadStart : BOOLEAN, dataOutput : BOOLEAN, canceled : BOOLEAN,
   awke : BOOLEAN]

\* fresh: bytes can be had behind the read cursor; sent: bytes of this segment have
\* been sent; again: the cursor was put back before such bytes; tooLong, longPause:
\* istoolong, and what isneedresume asks of the time since pause.
Encoder ==
  [paused : BOOLEAN, fresh : BOOLEAN, sent : BOOLEAN, again : BOOLEAN,
   tooLong : BOOLEAN, longPause : BOOLEAN]

TypeOK ==
  /\ alg \in Configs
  /\ stage \in {"idle", "word", "vad", "begin", "verdict", "output", "cancel",
                "resume", "send", "end", "deliver", "aborted"}
  /\ r2v_state \in {"awake", "sleep"}
  /\ vbv \in [pending : BOOLEAN, m_bPre : BOOLEAN, word : WordTypes \cup {"NULL"},
              result : SUBSET (Verdicts \cup {"PRE"})]
  /\ vad \in [state : {0, 1}, edge : {"none", "begin", "end"}]
  /\ state \in ProcessState
  /\ cod \in Encoder
  /\ out \subseteq Events
  /\ asrMsgCheckFlag \in {0, 1}
  /\ flagErrors \in BOOLEAN

NewEncoder ==
  [paused |-> FALSE, fresh |-> FALSE, sent |-> FALSE, again |-> FALSE,
   tooLong |-> FALSE, longPause |-> FALSE]

Init ==
  /\ alg \in Configs
  /\ stage = "idle"
  /\ r2v_state = "sleep"
  /\ \E b \in FreshPre :
       vbv = [pending |-> FALSE, m_bPre |-> b, word |-> "NULL", result |-> {}]
  /\ vad = [state |-> 0, edge |-> "none"]
  /\ state = [asr |-> FALSE, vadStart |-> FALSE, dataOutput |-> FALSE,
              canceled |-> FALSE, awke |-> FALSE]
  /\ cod = NewEncoder
  /\ out = {}
  /\ asrMsgCheckFlag = 0
  /\ flagErrors = FALSE

Go(next) == stage' = next

\* addMsg, of at most one VAD event.  getMsgs dumps the messages of a frame in the
\* order they were added, so dumpMsg's flag is kept here: it follows starts, ends
\* and cancels, data and ends are expected with the flag set, starts without.
Emit(events) ==
  /\ out' = out \cup events
  /\ asrMsgCheckFlag' = IF "vad_start" \in events THEN 1
                        ELSE IF events \cap {"vad_end", "vad_cancel"} # {} THEN 0
                        ELSE asrMsgCheckFlag
  /\ flagErrors' = \/ flagErrors
                   \/ "vad_start" \in events /\ asrMsgCheckFlag # 0
                   \/ events \cap {"vad_data", "vad_end"} # {} /\ asrMsgCheckFlag # 1
Silent == UNCHANGED <<out, asrMsgCheckFlag, flagErrors>>

\* r2mem_cod.  pause puts the read cursor back to the start of the segment.
Paused(c) == [c EXCEPT !.paused = TRUE, !.longPause = FALSE,
                       !.fresh = @ \/ c.sent, !.again = @ \/ c.sent]
Resumed(c) == [c EXCEPT !.paused = FALSE]
Drained(c) == [c EXCEPT !.fresh = FALSE, !.again = FALSE, !.sent = TRUE]
IsNeedResume(c) == c.paused /\ ~c.tooLong /\ c.longPause

-----------------------------------------------------------------------------
(* The wake word *)

\* The flags that process() is called with: awake is always set, hot word never.
AsrFlag == r2v_state = "awake"
Pre == "PRE" \in vbv.result /\ "CANCEL" \notin vbv.result
AwakePre == Pre /\ vbv.word = "WORD_AWAKE"
Detected(verdict) ==
  /\ verdict \in vbv.result
  /\ vbv.word \in {"WORD_AWAKE"} \cup (IF AsrFlag THEN {"WORD_SLEEP"} ELSE {})
Cmd == Detected("CMD")
NoCmd == Detected("NOCMD")

\* What r2_vbv_process may answer: a word is first announced and then, in the same
\* frame or a later one, confirmed; it is taken back at once or not at all.
EngineResults ==
  IF vbv.pending THEN {{}, {"CMD"}, {"NOCMD"}}
  ELSE {{}, {"PRE"}} \cup {{"PRE", v} : v \in Verdicts}

\* assert(!m_bPre) on PRE, assert(m_bPre) on every verdict.
EngineAsserts(result) ==
  /\ "PRE" \in result => ~vbv.m_bPre
  /\ result \cap Verdicts # {} => vbv.m_bPre \/ "PRE" \in result

Heard(result, word) ==
  [pending |-> (vbv.pending \/ "PRE" \in result) /\ result \cap Verdicts = {},
   m_bPre |-> (vbv.m_bPre \/ "PRE" \in result) /\ result \cap Verdicts = {},
   word |-> IF "PRE" \in result THEN word
            ELSE IF vbv.m_bPre THEN vbv.word ELSE "NULL",
   result |-> result]

\* process, up to and including the wake-word engine.
StartFrame ==
  /\ stage = "idle"
  /\ out' = {}
  /\ state' = [state EXCEPT !.asr = @ \/ AsrFlag]
  /\ \E result \in EngineResults, word \in WordTypes :
       /\ vbv' = Heard(result, word)
       /\ Go(IF EngineAsserts(result) THEN "word" ELSE "aborted")
  /\ UNCHANGED <<alg, r2v_state, vad, cod, asrMsgCheckFlag, flagErrors>>

\* Mutant of ResetASR: the running output is dropped without a word.
ResetASRSilently ==
  /\ stage = "word" /\ Pre
  /\ state' = [asr |-> FALSE, vadStart |-> FALSE, canceled |-> FALSE, awke |-> FALSE,
               dataOutput |-> state.dataOutput /\ ~alg.vad]
  /\ vad' = [vad EXCEPT !.state = 0]
  /\ cod' = NewEncoder
  /\ Go("vad")
  /\ UNCHANGED <<alg, r2v_state, vbv>>
  /\ Silent

\* A word that begins takes the place of the output that was running.
ResetASR ==
  /\ stage = "word" /\ Pre
  /\ Emit(IF state.dataOutput /\ ~state.canceled THEN {"vad_cancel"} ELSE {})
  /\ state' = [asr |-> FALSE, vadStart |-> FALSE, canceled |-> FALSE, awke |-> FALSE,
               dataOutput |-> state.dataOutput /\ ~alg.vad]
  /\ vad' = [vad EXCEPT !.state = 0]
  /\ cod' = NewEncoder
  /\ Go("vad")
  /\ UNCHANGED <<alg, r2v_state, vbv>>

NoWord ==
  /\ stage = "word" /\ ~Pre
  /\ Go("vad")
  /\ UNCHANGED <<alg, r2v_state, vbv, vad, state, cod>>
  /\ Silent

-----------------------------------------------------------------------------
(* Voice activity *)

\* Mutant of SegmentBegins: begins are counted, with one already open too.
SegmentBeginsNested ==
  /\ stage = "vad"
  /\ vad' = [state |-> vad.state + 1, edge |-> "begin"]
  /\ Go("begin")
  /\ UNCHANGED <<alg, r2v_state, vbv, state, cod>>
  /\ Silent

\* A segment begins when the engine says so or when a word forces it to; one that a
\* word forced may not end in the same call: assert(m_iVadState == 1).
SegmentBegins ==
  /\ stage = "vad" /\ vad.state = 0
  /\ \/ vad' = [state |-> 1, edge |-> "begin"]
     \/ ~Pre /\ vad' = [state |-> 0, edge |-> "end"]
  /\ Go("begin")
  /\ UNCHANGED <<alg, r2v_state, vbv, state, cod>>
  /\ Silent

SegmentEnds ==
  /\ stage = "vad" /\ vad.state = 1
  /\ vad' = [state |-> 0, edge |-> "end"]
  /\ Go("verdict")
  /\ UNCHANGED <<alg, r2v_state, vbv, state, cod>>
  /\ Silent

NoEdge ==
  /\ stage = "vad" /\ ~Pre
  /\ vad' = [vad EXCEPT !.edge = "none"]
  /\ Go("verdict")
  /\ UNCHANGED <<alg, r2v_state, vbv, state, cod>>
  /\ Silent

\* Mutant of Begin: the encoder keeps what the last segment left in it.
BeginKeepingEncoder ==
  /\ stage = "begin"
  /\ state' = [asr |-> AsrFlag, vadStart |-> TRUE, dataOutput |-> FALSE,
               canceled |-> FALSE, awke |-> AwakePre]
  /\ Emit(IF AwakePre THEN {"awake_pre", "debug_audio"} ELSE {})
  /\ Go("verdict")
  /\ UNCHANGED <<alg, r2v_state, vbv, vad, cod>>

Begin ==
  /\ stage = "begin"
  /\ state' = [asr |-> AsrFlag, vadStart |-> TRUE, dataOutput |-> FALSE,
               canceled |-> FALSE, awke |-> AwakePre]
  /\ cod' = NewEncoder
  /\ Emit(IF AwakePre THEN {"awake_pre", "debug_audio"} ELSE {})
  /\ Go("verdict")
  /\ UNCHANGED <<alg, r2v_state, vbv, vad>>

\* The messages of a confirmed word.  They come whether or not a segment is open.
Verdict ==
  /\ stage = "verdict"
  /\ Emit(CASE NoCmd /\ vbv.word = "WORD_SLEEP" -> {"sleep"}
            [] NoCmd /\ vbv.word = "WORD_AWAKE" -> {"awake_nocmd"}
            [] Cmd /\ vbv.word = "WORD_AWAKE" -> {"awake_cmd"}
            [] OTHER -> {})
  /\ Go(IF state.vadStart THEN "output" ELSE "end")
  /\ UNCHANGED <<alg, r2v_state, vbv, vad, state, cod>>

-----------------------------------------------------------------------------
(* Output, while a segment is open *)

\* m_pMem_cod->process: only an open segment yields audio.
Sounds == IF vad.state = 1 \/ vad.edge = "end" THEN BOOLEAN ELSE {FALSE}
Feed(audio, t, l) ==
  [cod EXCEPT !.fresh = @ \/ audio, !.tooLong = @ \/ (audio /\ t),
              !.longPause = @ \/ (audio /\ cod.paused /\ l)]
Fed == {Feed(audio, t, l) : audio \in Sounds, t \in BOOLEAN, l \in BOOLEAN}

\* A word with a command behind it opens the output, one without holds it back.
OpenOnWord ==
  /\ stage = "output" /\ ~state.dataOutput /\ (Cmd \/ NoCmd)
  /\ \E c \in Fed : cod' = IF Cmd THEN c ELSE Paused(c)
  /\ state' = [state EXCEPT !.dataOutput = TRUE, !.canceled = @ \/ ~Cmd]
  /\ Emit(IF Cmd THEN {"vad_start"} ELSE {})
  /\ Go("cancel")
  /\ UNCHANGED <<alg, r2v_state, vbv, vad>>

\* Mutant of OpenOnAsr: a segment that a wake word began does not wait for the
\* verdict on the word.
OpenOnAsrEager ==
  /\ stage = "output" /\ ~state.dataOutput /\ ~(Cmd \/ NoCmd)
  /\ state.asr
  /\ cod' \in Fed
  /\ state' = [state EXCEPT !.dataOutput = TRUE]
  /\ Emit({"vad_start"})
  /\ Go("cancel")
  /\ UNCHANGED <<alg, r2v_state, vbv, vad>>

OpenOnAsr ==
  /\ stage = "output" /\ ~state.dataOutput /\ ~(Cmd \/ NoCmd)
  /\ state.asr /\ ~state.awke
  /\ cod' \in Fed
  /\ state' = [state EXCEPT !.dataOutput = TRUE]
  /\ Emit({"vad_start"})
  /\ Go("cancel")
  /\ UNCHANGED <<alg, r2v_state, vbv, vad>>

KeepShut ==
  /\ stage = "output" /\ ~state.dataOutput /\ ~(Cmd \/ NoCmd)
  /\ ~state.asr \/ state.awke
  /\ cod' \in Fed
  /\ Go("end")
  /\ UNCHANGED <<alg, r2v_state, vbv, vad, state>>
  /\ Silent

KeepOpen ==
  /\ stage = "output" /\ state.dataOutput
  /\ cod' \in Fed
  /\ Go("cancel")
  /\ UNCHANGED <<alg, r2v_state, vbv, vad, state>>
  /\ Silent

TooLong == alg.vad /\ cod.tooLong

NoAsrFlag == ~state.awke /\ ~AsrFlag

\* Without alg_vad_enable the segment is given up as well.
CancelOutput ==
  /\ stage = "cancel"
  /\ ~state.canceled /\ (TooLong \/ NoAsrFlag)
  /\ cod' = Paused(cod)
  /\ Emit({"vad_cancel"})
  /\ state' = [state EXCEPT !.canceled = TRUE,
                            !.vadStart = @ /\ alg.vad, !.dataOutput = alg.vad]
  /\ Go("resume")
  /\ UNCHANGED <<alg, r2v_state, vbv, vad>>

KeepOutput ==
  /\ stage = "cancel"
  /\ state.canceled \/ ~(TooLong \/ NoAsrFlag)
  /\ Go("resume")
  /\ UNCHANGED <<alg, r2v_state, vbv, vad, state, cod>>
  /\ Silent

MayResume == alg.vad /\ state.canceled /\ state.awke

\* Mutant of ResumeOutput: isneedresume does not look at the length of the segment.
ResumeOutputAnyLength ==
  /\ stage = "resume"
  /\ MayResume /\ cod.paused /\ cod.longPause
  /\ cod' = Resumed(cod)
  /\ state' = [state EXCEPT !.canceled = FALSE]
  /\ Emit({"vad_start"})
  /\ Go("send")
  /\ UNCHANGED <<alg, r2v_state, vbv, vad>>

\* The speaker goes on after a word without a command: the output opens after all,
\* with the audio that was held back.
ResumeOutput ==
  /\ stage = "resume"
  /\ MayResume /\ IsNeedResume(cod)
  /\ cod' = Resumed(cod)
  /\ state' = [state EXCEPT !.canceled = FALSE]
  /\ Emit({"vad_start"})
  /\ Go("send")
  /\ UNCHANGED <<alg, r2v_state, vbv, vad>>

NoResume ==
  /\ stage = "resume"
  /\ ~(MayResume /\ IsNeedResume(cod))
  /\ Go(IF state.canceled THEN "end" ELSE "send")
  /\ UNCHANGED <<alg, r2v_state, vbv, vad, state, cod>>
  /\ Silent

\* getdatalen and getdata2 encode what is there, which assert(!m_bPaused) guards; a
\* block is sent when there is enough of it, or what there is when the segment ends.
SendData ==
  /\ stage = "send"
  /\ \E sent \in IF cod.fresh /\ ~cod.paused THEN BOOLEAN ELSE {FALSE} :
       /\ Emit(IF sent THEN {"vad_data"} ELSE {})
       /\ cod' = IF sent THEN Drained(cod) ELSE cod
  /\ Go(IF cod.paused THEN "aborted" ELSE "end")
  /\ UNCHANGED <<alg, r2v_state, vbv, vad, state>>

EndSegment ==
  /\ stage = "end" /\ vad.edge = "end"
  /\ Emit(IF state.dataOutput /\ ~state.canceled THEN {"vad_end"} ELSE {})
  /\ cod' = IF state.awke THEN Resumed(Paused(cod)) ELSE cod
  /\ state' = [asr |-> state.asr /\ ~alg.vt, vadStart |-> state.vadStart /\ ~alg.vt,
               dataOutput |-> state.dataOutput /\ ~alg.vt, canceled |-> FALSE,
               awke |-> FALSE]
  /\ Go("deliver")
  /\ UNCHANGED <<alg, r2v_state, vbv, vad>>

SegmentGoesOn ==
  /\ stage = "end" /\ vad.edge # "end"
  /\ Go("deliver")
  /\ UNCHANGED <<alg, r2v_state, vbv, vad, state, cod>>
  /\ Silent

-----------------------------------------------------------------------------
(* What becomes of the messages *)

\* The state that SirenAudioVBVProcessor::process takes from the messages, and the
\* base's setSysState(SIREN_STATE_SLEEP, false) on a sleep event.
Deliver ==
  /\ stage = "deliver"
  /\ r2v_state' = IF "sleep" \in out THEN "sleep"
                  ELSE IF "awake_cmd" \in out THEN "awake" ELSE r2v_state
  /\ state' = [state EXCEPT !.awke = @ /\ "sleep" \notin out]
  /\ Go("idle")
  /\ UNCHANGED <<alg, vbv, vad, cod>>
  /\ Silent

\* setSysState for a set_siren_state of the application.
SetState(s) ==
  /\ stage = "idle"
  /\ r2v_state' = s
  /\ state' = [state EXCEPT !.awke = @ /\ s # "sleep"]
  /\ UNCHANGED <<alg, stage, vbv, vad, cod>>
  /\ Silent

Word == StartFrame \/ ResetASR \/ NoWord
Voice == SegmentBegins \/ SegmentEnds \/ NoEdge \/ Begin \/ Verdict
Output ==
  \/ OpenOnWord \/ OpenOnAsr \/ KeepShut \/ KeepOpen
  \/ CancelOutput \/ KeepOutput \/ ResumeOutput \/ NoResume
  \/ SendData

Next ==
  \/ \E s \in {"awake", "sleep"} : SetState(s)
  \/ Word \/ Voice \/ Output \/ EndSegment \/ SegmentGoesOn \/ Deliver

Spec == Init /\ [][Next]_vars

-----------------------------------------------------------------------------
(* Safety *)

\* No assertion of the adapters of the engines and the encoder fails: the encoder
\* is never asked for bytes while it is paused, through any sequence of words,
\* segments and state changes.
AssertionsHold == stage # "aborted"

\* What dumpMsg takes for granted and only logs: the application sees every
\* VAD_START ended by a VAD_END or VAD_CANCEL before the next, and VAD_DATA only
\* between them.
VadProtocolKept == ~flagErrors

\* pause puts the encoder's cursor back to the start of the segment; no audio that
\* was sent before goes out a second time for it.
AudioSentOnce == stage = "send" /\ cod.fresh => ~cod.again

\* An output that the application was told of has its reason.  None outlives its
\* segment: between frames, with no segment open in the engine, every VAD_START has
\* been answered.  A segment that a wake word began sends nothing until the engine has
\* given its verdict on the word.  Asleep, only a wake word keeps an output open: the
\* first frame handled otherwise ends it, so no more of what is said leaves the device.
OutputHasItsReason ==
  /\ stage = "idle" /\ vad.state = 0 => asrMsgCheckFlag = 0
  /\ stage = "idle" /\ state.awke /\ asrMsgCheckFlag = 1 => ~vbv.pending
  /\ stage = "deliver" /\ ~AsrFlag /\ ~state.awke => asrMsgCheckFlag = 0
=============================================================================
