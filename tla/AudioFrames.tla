------------------------------ MODULE AudioFrames ------------------------------
(***************************************************************************)
(* The way of the recorded samples through the base: the data socket, the  *)
(* main thread that reads frames from it and runs the preprocessor         *)
(* (r2mem_i, rs2, rdc, aec, o, buff), processQueue, and the head of the    *)
(* voice processor up to its beam former.  Each stage works in a length of *)
(* its own and carries what is left over to the next call.                 *)
(*                                                                         *)
(* A sample is its number in the recording, counted after the resampling   *)
(* to 16 kHz (a library, taken to be one to one and without delay); what   *)
(* the stages do to its value is left out, but for the mark that the       *)
(* preprocessor writes over the first one.  The lengths are constants: in  *)
(* the code 160 samples for a frame of 10 ms, 16000 for the calibration,   *)
(* 256 for the echo canceller, 160 for what it puts out, and 160 or 128    *)
(* for the beam former.  What else goes through processQueue, the requests *)
(* of the proxy, is in SirenBase and WordList.                             *)
(***************************************************************************)
EXTENDS Integers, Sequences, Ring

CONSTANTS
  FrameLen,     \* samples in frameBuffer
  CalLen,       \* r2mem_rdc::m_iMaxLen: samples it takes for the calibration
  AecLen,       \* r2mem_aec::m_iFrmLen_Aec
  OutLen,       \* r2mem_aec::m_iFrmLen_Out
  BfLen,        \* r2mem_bf::m_iFrmSize
  Pieces,       \* what the kernel may copy of a frame at a time
  WireRoom,     \* samples the data socket holds
  QueueLen,     \* slots of processQueue
  MaxFrames     \* bound: frames recorded

ASSUME LengthsPositive == {FrameLen, CalLen, AecLen, OutLen, BfLen} \subseteq Nat \ {0}
ASSUME PiecesType == Pieces \subseteq 1..FrameLen
ASSUME RoomPositive == WireRoom \in Nat /\ QueueLen \in Nat \ {0} /\ MaxFrames \in Nat

VARIABLES
  piece,          \* the piece in this run: FrameLen if the socket buffer holds a frame
  recorded,       \* samples the recorder has written
  wire,           \* samples in the data socket
  recordingStart, \* SirenBase::recordingStart
  mpc,            \* where the main thread is in loopRecording
  frameBuffer,    \* SirenBase::frameBuffer
  calLeft,        \* samples the calibration still takes
  aecIn,          \* r2mem_aec::m_pData_In: microphone and reference sample
  aecOut,         \* r2mem_aec::m_pData_Out, m_iLen_Out samples of it
  firstFrm,       \* SirenPreprocessorImpl::firstFrm
  package,        \* the package the main thread is about to push
  queue,          \* processQueue, as Ring has it: its tickets from the oldest on
  processorFirst, \* SirenProcessorImpl's state.firstFrm
  judged,         \* what the microphones were judged by
  bfIn,           \* r2mem_bf::m_pData_In
  delivered,      \* history: samples the beam former has taken
  taken,          \* history: samples the main thread has read
  skewed,         \* history: microphone samples paired with another reference
  short,          \* history: a read came back short
  lost,           \* history: a package met a full processQueue
  late            \* history: frames read since the stream was stopped

wireVars == <<piece, recorded, wire>>
stageVars == <<frameBuffer, calLeft, aecIn, aecOut, firstFrm, taken, skewed, short>>
processorVars == <<processorFirst, judged, bfIn, delivered>>
vars == <<wireVars, recordingStart, mpc, stageVars, package, queue, processorVars,
          lost, late>>

\* What frameBuffer holds before the first read; the mark of a good microphone.
Junk == -1
Mark == 0

\* What a pop returns at a ticket of an overflow: the null pointer.
NoPackage == <<>>

Samples == Nat \cup {Junk}
Smaller(a, b) == IF a < b THEN a ELSE b
Upto(s, n) == SubSeq(s, 1, n)
From(s, n) == SubSeq(s, n + 1, Len(s))
Whole(n, len) == (n \div len) * len

TypeOK ==
  /\ piece \in Pieces
  /\ recorded \in Nat
  /\ wire \in Seq(Samples) /\ Len(wire) <= WireRoom
  /\ recordingStart \in BOOLEAN
  /\ mpc \in {"wait", "read", "push"}
  /\ frameBuffer \in Seq(Samples) /\ Len(frameBuffer) = FrameLen
  /\ calLeft \in 0..CalLen
  /\ aecIn \in Seq([mic : Samples, ref : Samples]) /\ Len(aecIn) < AecLen
  /\ aecOut \in Seq(Samples)
  /\ firstFrm \in BOOLEAN
  /\ package \in Seq(Samples) /\ (mpc = "push" => package # <<>>)
  /\ queue \in Seq(Seq(Samples))
  /\ processorFirst \in BOOLEAN
  /\ judged \in {"nothing", "mark", "sample"}
  /\ bfIn \in Seq(Samples) /\ Len(bfIn) < BfLen
  /\ delivered \in Seq(Samples)
  /\ taken \in Nat /\ skewed \subseteq Samples
  /\ short \in BOOLEAN /\ lost \in BOOLEAN
  /\ late \in Nat

Init ==
  /\ piece \in Pieces
  /\ recorded = 0 /\ wire = <<>>
  /\ recordingStart = FALSE
  /\ mpc = "wait"
  /\ frameBuffer = [i \in 1..FrameLen |-> Junk]
  /\ calLeft = CalLen
  /\ aecIn = <<>> /\ aecOut = <<>>
  /\ firstFrm = TRUE
  /\ package = <<>>
  /\ queue = <<>>
  /\ processorFirst = TRUE /\ judged = "nothing"
  /\ bfIn = <<>> /\ delivered = <<>>
  /\ taken = 0 /\ skewed = {}
  /\ short = FALSE /\ lost = FALSE
  /\ late = 0

-----------------------------------------------------------------------------
(* The recorder and the stream's state *)

\* The recorder's write copies the next piece of a frame into the socket.
Record ==
  LET n == Smaller(piece, FrameLen - (recorded % FrameLen))
  IN  /\ recorded < MaxFrames * FrameLen
      /\ Len(wire) + n <= WireRoom
      /\ wire' = wire \o [i \in 1..n |-> recorded + i]
      /\ recorded' = recorded + n
      /\ UNCHANGED <<piece, recordingStart, mpc, stageVars, package, queue,
                     processorVars, lost, late>>

\* The base's response thread takes START or STOP_PROCESS_STREAM.
SetRecording(on) ==
  /\ recordingStart' = on
  /\ late' = IF on THEN 0 ELSE late
  /\ UNCHANGED <<wireVars, mpc, stageVars, package, queue, processorVars, lost>>

-----------------------------------------------------------------------------
(* SirenBase::loopRecording and the preprocessor *)

\* Mutant of MainWait: the condition is waited for once, before the loop.
MainGoesOn ==
  /\ mpc = "wait"
  /\ recordingStart \/ taken > 0
  /\ mpc' = "read"
  /\ UNCHANGED <<wireVars, recordingStart, stageVars, package, queue, processorVars,
                 lost, late>>

\* recordingCond.wait returns.
MainWait ==
  /\ mpc = "wait"
  /\ recordingStart
  /\ mpc' = "read"
  /\ UNCHANGED <<wireVars, recordingStart, stageVars, package, queue, processorVars,
                 lost, late>>

\* r2mem_rdc: the calibration swallows its samples at the head of the frame.  The
\* microphones' samples move up to the front; those of the reference do not.
Calibrated(frame, c) ==
  [i \in 1..(Len(frame) - c) |-> [mic |-> frame[i + c], ref |-> frame[i]]]

\* Mutant of CalNeeds: a calibration that ends inside a frame never ends.
CalNeedsWhole(c) == IF c < FrameLen THEN calLeft ELSE calLeft - c

\* Samples the calibration needs after it has taken c more.
CalNeeds(c) == calLeft - c

\* Mutant of AecFull: a frame is worked on when the one after it begins.
AecFullLate(n) == IF n = 0 THEN 0 ELSE Whole(n - 1, AecLen)

\* Samples that fill frames of the canceller, and are worked on.
AecFull(n) == Whole(n, AecLen)

\* What r2mem_aec kept of its output from the call before.
AecKept == From(aecOut, Whole(Len(aecOut), OutLen))

\* Mutant of Marked: the mark is spent on the first call, output or none.
MarkedAtOnce(out) == [now |-> firstFrm /\ out # <<>>, left |-> FALSE]

\* The mark goes over the first sample that is ever put out.
Marked(out) ==
  [now |-> firstFrm /\ out # <<>>, left |-> firstFrm /\ out = <<>>]

\* SirenPreprocessorImpl::processData on a frame: what comes out, maybe nothing, is
\* the package.
Preprocess(frame) ==
  LET c == Smaller(calLeft, FrameLen)
      pairs == Calibrated(frame, c)
      all == aecIn \o pairs
      whole == AecFull(Len(all))
      out == AecKept \o [i \in 1..whole |-> all[i].mic]
      ready == Upto(out, Whole(Len(out), OutLen))
      mark == Marked(ready)
  IN  /\ calLeft' = CalNeeds(c)
      /\ aecIn' = From(all, whole)
      /\ aecOut' = out
      /\ firstFrm' = mark.left
      /\ package' = IF mark.now THEN [ready EXCEPT ![1] = Mark] ELSE ready
      /\ skewed' = skewed \cup
           {pairs[i].mic : i \in {j \in DOMAIN pairs : pairs[j].mic # pairs[j].ref}}

\* read returns what is in the socket, a frame at the most.  Whatever it returned,
\* the whole of frameBuffer is taken for the frame.
MainRead ==
  LET k == Smaller(FrameLen, Len(wire))
      frame == Upto(wire, k) \o From(frameBuffer, k)
  IN  /\ mpc = "read"
      /\ wire # <<>>
      /\ wire' = From(wire, k)
      /\ frameBuffer' = frame
      /\ taken' = taken + k
      /\ short' = (short \/ k < FrameLen)
      /\ Preprocess(frame)
      /\ mpc' = IF package' = <<>> THEN "wait" ELSE "push"
      /\ late' = IF recordingStart THEN late ELSE late + 1
      /\ UNCHANGED <<piece, recorded, recordingStart, queue, processorVars, lost>>

\* processQueue.push.  A full queue drops the package and keeps its ticket, at which an
\* older one will be popped (Ring).
MainPush ==
  /\ mpc = "push"
  /\ mpc' = "wait"
  /\ package' = <<>>
  /\ queue' = PushTo(queue, package, QueueLen, NoPackage)
  /\ lost' = (lost \/ Len(queue) >= QueueLen)
  /\ UNCHANGED <<wireVars, recordingStart, stageVars, processorVars, late>>

-----------------------------------------------------------------------------
(* The process thread and the head of SirenProcessorImpl::process *)

\* A pop that returns null: the thread goes back for the next.
ProcessNull ==
  /\ queue # <<>> /\ Head(queue) = NoPackage
  /\ queue' = Tail(queue)
  /\ UNCHANGED <<wireVars, recordingStart, mpc, stageVars, package, processorVars,
                 lost, late>>

\* Mutant of BeamForm: what does not fill a frame is thrown away.
BeamFormDrops(s) ==
  LET all == bfIn \o s
      whole == Whole(Len(all), BfLen)
  IN  bfIn' = <<>> /\ delivered' = delivered \o Upto(all, whole)

\* r2mem_bf works on whole frames and keeps the rest.
BeamForm(s) ==
  LET all == bfIn \o s
      whole == Whole(Len(all), BfLen)
  IN  bfIn' = From(all, whole) /\ delivered' = delivered \o Upto(all, whole)

\* A package: the first one of all tells good microphones from bad by its first
\* sample.
Process ==
  /\ queue # <<>> /\ Head(queue) # NoPackage
  /\ queue' = Tail(queue)
  /\ processorFirst' = FALSE
  /\ judged' = IF processorFirst
                 THEN IF Head(queue)[1] = Mark THEN "mark" ELSE "sample"
                 ELSE judged
  /\ BeamForm(Head(queue))
  /\ UNCHANGED <<wireVars, recordingStart, mpc, stageVars, package, lost, late>>

Main == MainWait \/ MainRead \/ MainPush

Next ==
  \/ Record
  \/ \E on \in BOOLEAN : SetRecording(on)
  \/ Main
  \/ ProcessNull
  \/ Process

Spec == Init /\ [][Next]_vars

-----------------------------------------------------------------------------
(* Properties *)

\* A read that came back short, or a package lost, breaks the sequence for good.
Undisturbed == ~short /\ ~lost

\* Five stages of different lengths, each carrying its rest, hand on every sample
\* after the calibration once and in order, and the first of them as the mark.
SamplesInOrder ==
  Undisturbed =>
    \A i \in DOMAIN delivered :
      delivered[i] = IF i = 1 THEN Mark ELSE CalLen + i

\* The echo canceller sees each microphone sample with the reference of the same
\* instant, but for the frame in which the calibration ends: r2mem_rdc moves up
\* the microphones there and not the references.
ReferenceAligned ==
  Undisturbed =>
    \A m \in skewed : (m - 1) \div FrameLen = (CalLen - 1) \div FrameLen

\* The microphones are judged by the mark, never by a sample of sound that happens
\* to be quiet, if processQueue has not overflowed when the first package is taken.  It
\* holds of the step that judges: an overflow after that one excuses nothing.
JudgedByMark == judged = "sample" => lost

\* A stopped stream lets through the one frame the main thread is reading, no more.
OneLateFrame == ~recordingStart => late <= 1
=============================================================================
