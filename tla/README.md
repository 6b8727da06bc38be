# BlackSiren in TLA+

BlackSiren is the voice front end of a smart speaker. An application links the
library, hands it a microphone interface and receives wake-word and
voice-activity events. `init_siren` forks: the parent keeps the API (the *proxy*),
the child (the *base*) runs the signal processing. The two talk over two socket
channels (requests, responses) and a socket for the recorded frames. Between them
they have seven threads, two futex queues, four mutexes with condition variables
and a frame-by-frame state machine; the specifications here are about those.

The modules were translated from the source; `PROJECT.json` maps every definition
to its lines, and lists every hazard of the code beside the properties that would
catch it.

## 1. Inventory

| component | state it keeps | operations | talks to | what is hard | what makes it correct |
|---|---|---|---|---|---|
| futex ring queue `lfqueue.cpp` | tickets, per slot a counter, waiters, a pointer | `push`, `pop` | futex; used as `requestQueue` (32 entries) and `processQueue` (4096) | unlocked interleavings, lost wake-ups, overflow, overtaking | counters match pointers, no lost wake-up, nothing lost or doubled but by overflow, order |
| socket channels `siren_channel.cpp` | two socket pairs, an epoll descriptor, `writeGuard` | `writeMessage`, `pollMessage` | proxy and base, their signals and deaths | blocking and short writes, bodies in pieces, end of file, who closes what | whole messages, once and in order; what was written is read; a call comes back |
| proxy `siren_proxy.cpp` | flags of the handshakes, callbacks, streams | the API, request thread, response thread | `requestQueue`, channels, the application's callbacks | one flag for many acknowledgements, timeouts, tear-down | requests arrive in order, a call returns on its own answer, events find a callback, destroy returns |
| recording thread `siren_proxy.cpp` | `recordingStart`, `recordingTerm` | `start`, `pause`, `stop`, `recordingFn` | the input interface, data socket | flags written without the mutex, waits without a predicate, a write that blocks when the base stops reading | reads only an open input, stops end it |
| base `siren_base.cpp` | init flags, `recordingStart`, `recordingExit` | three thread bodies | channels, data socket, `processQueue` | handshake of the init, two producers, joins | the answer comes first, no request is left behind |
| voice processor `siren_processor.cpp`, adapter `siren_alg.cpp` | `ProcessState`, awake or asleep | `process`, `setState`, `syncVTWord` | closed engines for words and voice activity, the encoder | long sequences of events of three independent sources | VAD events well bracketed, assertions hold, no audio twice or unconfirmed |
| encoder and engine wrappers `legacy/r2mem_*.cpp` | cursors, pause, `m_bPre` | `pause`, `resume`, `getdatalen`, ... | the processor | call protocols guarded by `assert` | the assertions |
| preprocessor `siren_preprocessor.cpp`, its stages `legacy/r2mem_{i,rs2,rdc,aec,o,bf}.cpp` | per stage what is left over of a frame, the calibration, `firstFrm` | `init`, `preprocess` | recorder over the data socket, base's main thread, `processQueue` | five lengths of frames, a mark written over a sample, short reads, a frame read after the stop | every sample once, in order, with its echo reference |
| word list `siren_proxy.cpp:621-746`, codec `siren_channel.cpp:62-270` | `vt_words`, the engine's `m_pWordLst` | `add_vt_word`, `remove_vt_word`, `syncVTWord` | both queues, the request channel | lists dropped without a word, lengths and offsets | the engine listens for the proxy's words, names stay apart, no list overtakes another |
| configuration `siren_config.cpp` | parsed values, the size of a frame | `parseConfigFile`, `loadConfigFromJSON`; both stages' `init` | user's file, backup, recorder, base | files that fail half-way, divisions, empty lists | one file's values or none; whole samples in a frame; a base that listens cancels echo |
| monitor `siren_net.cpp` | a UDP socket, a promise | `start_siren_monitor` | network | a promise nobody sets | the call returns |
| signals `sutils.cpp`, logging `os_unix.cpp`, phoneme table, JNI binding | - | - | - | `SIGCHLD` of a base that died | - |

## 2. Modules

    LFQueue             push and pop, atomic instruction by atomic instruction
      MCLFQueue         its small instances          LFQueueProofs  its proofs
    Ring                what a push does to the tickets that wait
      RingQueue         what the queue promises one producer and one consumer
        LFQueueRing     LFQueue implements it        (proved in LFQueueProofs)
    SirenChannels       messages, both channels, the data socket
      SirenProxy        the parent: application, request and response threads
      SirenBase         the child: main, process and response threads
        SirenSession    both together: Spec, fairness, the end-to-end properties
          MCSirenSession                             SirenSessionProofs
    MessageChannel      what both processes rely on: whole messages, once, in order
      SocketChannel     writeMessage and pollMessage over a socket; implements it
        MCSocketChannel                              SocketChannelProofs
    RecordingThread     recordingFn against start, pause, stop and delete
      MCRecordingThread                              RecordingThreadProofs
    VoiceProcessor      a frame through process(), encoder and adapter
      MCVoiceProcessor                               VoiceProcessorProofs
    WordCodec           phonemes, scores and the packed message of a word list
      WordList          from add_vt_word to the engine
        MCWordList                                   WordListProofs
    AudioFrames         the samples from the recorder to the beam former
      MCAudioFrames                                  AudioFramesProofs
    ConfigKeys          the keys of the configuration in the order they are read
    SirenConfig         parsing, the backup, the set-up to the first frame
      MCSirenConfig     both                         SirenConfigProofs

**LFQueue.** `ppc`/`cpc` say where a producer or consumer is inside `push`/`pop`;
each action is one atomic instruction or system call: drawing the ticket, the
compare-and-swap of `inc_if_le0` and `dec_if_gt0`, `++waiters`, the test of `val`
that the kernel makes before it sleeps, and so on. Items are pushed once, as every
caller pushes a fresh allocation. Left out, because no caller reaches them: the
time-out branches, the blocking push, `remain()` and `reset()`.

**RingQueue, LFQueueRing.** The abstract queue: `Push` and `Pop` are one step each, and
`PushTo` (Ring) says what a push does when `Size` tickets wait. The new item is lost, its
ticket stays, and the *old* item of that slot is now popped at that ticket, behind
whatever was pushed in between; the ticket it came with pops null. In the refinement
mapping a push takes effect when it raises the slot's counter, a pop when it lowers it;
`WaitingTickets` reads the queue off the counters, `Taken` is what the consumer has been
promised and not yet taken. That holds for one producer: with two, one that stalls
between its ticket and the counter can be lapped. `requestQueue` of SirenProxy and the
queues of WordList are built on `PushTo`.

**SirenSession.** Program counters `api`, `rq`, `rs`, `rec` (proxy) and `bm`, `bp`,
`br` (base) stand for the threads; one action is the code between two points where
another thread can see a difference. A section under a mutex is one step; writes
made *without* the mutex are steps of their own, which is what loses the wake-up of
`SessionInitWakeup`. Calls are numbered, so histories (`issued`, `handled`,
`applied`, `seen`) can be compared. `RespCap` is the number of responses that fit in
the socket buffer before `write` blocks. Three accidents of the platform are
parameters: what a freed message holds (`FreedReads`, siren_proxy.cpp:373), whether
a closed descriptor number is reused (`FdReuse`, siren_channel.cpp:407), whether
three seconds can pass (`TimeoutsHappen`).

**RecordingThread.** The detail that SirenSession's `rec` hides: who holds
`startMutex`, test and wait of `startCond`, the local flags of `recordingFn`, the
retry counter, and the history of the calls to the input interface. A good frame is
written to the data socket (`WriteFrame`), which blocks while the socket is full; so the
base is there as far as it makes room: START and STOP on their way to it (`toBase`,
taken by `BaseTakes`), its `recordingStart`, and its main thread, which waits for that flag and
then reads one frame (`BaseWaits`, `BaseReads`).

**VoiceProcessor.** `stage` walks one frame through `process()`: wake word, voice
activity, begin, verdict, opening, cancelling, resuming, sending, end, delivery.
The engines are closed libraries: they answer anything their wrappers' assertions
allow. Audio is kept as the comparisons the code makes with it: is there something
behind the read cursor (`fresh`), was something sent (`sent`), was the cursor put
back before it (`again`), is the segment too long, was the pause long enough. The
messages of a frame are a set, their order is the order of the stages.
`asrMsgCheckFlag` and `flagErrors` are what `dumpMsg` computes and logs.
In SirenBase a frame may make the processor say anything in `Results`;
VoiceProcessor says what that is.

**SocketChannel.** One direction of the connection; `kind` says which, and with it
who writes, how often a poll may fail and whether signals come (only the application
has a handler). The stream is counted in units, `HeaderLen` of them a header: a full
socket stops a write between any two units of a body and bodies arrive in pieces. A header is
written and read at once, as `sizeof(Message)` bytes are. The reader takes `HeaderLen` units from wherever
it stands: after a cut it may stand inside a header or a body, takes what is there for a
header (`PollHeader`), and has its magic refused or, if the bytes happen to be "aabb", accepted with a
length nobody wrote (`PollStray`). `WriteInterrupted` is `write` ended by a signal, which returns `EINTR` or a short count
that the code logs and reports as done. `PollEndOfFile` is the `read` whose result
nobody looks at (siren_channel.cpp:362): the header keeps the magic its constructor
gave it and what an earlier call left on the stack. `WriterDies` and `ReaderDies` may
happen at any point. `MessageChannel` is the promise (`Accept`, `Receive`) with the
two ways it ends, `Close` and `Cut`; `ChannelSpec` is that SocketChannel implements it with
`open <- writerUp` and `intact <- (cuts = 0)`. SirenChannels, which SirenSession
uses, is this promise with a bound on what the socket holds.

**AudioFrames.** A sample is its number. `Record` writes a frame to the data socket,
whole or in pieces, `MainRead` takes what is there *for* a frame, as the code does,
and runs the stages: `Calibrated` (r2mem_rdc swallows the first second), the echo
canceller's frames (`AecFull`) and what it carries over (`AecKept`), the mark of the
good microphones (`Marked`). `MainPush` is the push to `processQueue`, a ring of Ring: when the
queue is full the new package is lost, the oldest comes out behind the others, and the pop at
its old place returns null, which `ProcessNull` passes over. `Process` is the head of the voice
processor: it judges the microphones by the first package and feeds the beam former (`BeamForm`).

**SirenConfig.** A value is the file it came from, so that a mixture can be seen; only
the numbers the frame size depends on are numbers. ConfigKeys lists every key with what its block
does when it is missing, and `ReadKey` is such a block: what earlier blocks stored
stays when one fails. From `MakeFrameBuffers` on it is the start of both processes as
far as it depends on the configuration: divisions, lists that may be empty and the
null pointers made of them, and the assertions of the first frame.

**WordList.** `Fill` is the application writing its `siren_vt_word`; `AddVTWord`
and `RemoveVTWord` are the calls, which push the whole list; `RequestWrite`,
`BaseTake` and `ProcessSync` are the threads that carry it; `FrameArrives` is the
other producer of `processQueue`. The calls do not lock `vt_words`, so one thread is
taken to make them. `serial` numbers the lists, `shown` is the number of the one the
engine has. The message is laid out byte by byte in WordCodec, because lengths and
offsets are what can be wrong with it; a packed structure is one entry at the first
of its 37 bytes. Pushes and pops do not overlap here, so a queue is a ring of Ring, and
`Surplus` is the null that an overflow leaves. What a thread has popped and not yet written counts in the channel.

## 3. Runs

Each run finishes within two minutes on two workers; the largest are `audioFrames` with 2.1 million states and
`sessionRequests` with 1.3 million.

| run | instance | shows |
|---|---|---|
| `lfQueueShared` | 2 producers, 2 consumers, 4 items, 2 slots; symmetry | the safety properties of the queue, order included |
| `lfQueueRing` | 1 producer, 1 consumer, 5 items, 2 slots, fair threads | LFQueue implements RingQueue, overflow included; what is pushed and not dropped is received |
| `sessionRequests` | 3 calls of five kinds, a frame with up to two events, starts and inits that fail, timeouts, freed reads, `RespCap = 1`, `RequestSlots = 2` | order and completeness end to end, the handshake of the init, which acknowledgement ends a call and which events find a callback |
| `sessionLive` | healthy session, 3 calls and the DESTROY through a request queue of 2, 1 frame with up to two events, fair threads | a synchronous call returns, what is lost when the queue is full and nothing else, `destroy_siren` returns unless its own request was lost |
| `recorderCalls` | 5 calls, 2 retries, 1 spurious wake-up, a data socket of one frame, fair threads | the input interface is used as it may expect; a start is heard; after pause and stop the input closes and the thread ends, but for the named cases |
| `voiceFrames` | both shipped configurations, unbounded | the event stream, the encoder, the assertions |
| `wordListSync` | 6 structures, 2 names, 4 calls, 1 frame, queues of 2 | what the engine listens for, through every overflow of either queue |
| `socketChannel` | both directions, 2 writers in the base, 5 writes of two lengths, headers of 2 units, 2 signals, 1 false magic, both deaths, fair threads | the channel implements MessageChannel; a cut spoils at most one message that is returned; messages arrive, calls return |
| `audioFrames` | 8 frames, socket of two frames, queue of two packages | samples in order, references aligned, the mark read as one until the queue overflows, one late frame |
| `configLoad` | every key missing, every list empty, 11 boards, as user's file and as backup | one file's values or none, frames of whole samples, no base without echo references |
| `sessionInitWakeup` | both inits succeed, fair threads | **violation** `InitReturns` |
| `voiceNoVt` | `alg_vt_enable` off | **violation** `AssertionsHold` |

Together the passing runs fire every action of every module. Every property of a
passing run has a mutant of the code it is about (operators named in
`PROJECT.json`, each written just before the definition it changes) that violates it.

### Bounds and why they suffice

* **Queue.** Two slots is the smallest ring with a wrap and two independent
  futexes. Four items overflow it, go round a second lap and let a stalled producer be
  lapped, and two consumers may sleep on one slot while two producers fill it; five
  items from one producer count a slot up to three. The program's queues have one
  consumer each; two are needed to meet on a slot, which `PopWake` is for. The proofs
  hold for every number of threads, items and slots.
* **`MaxCalls`.** Two calls are needed for an acknowledgement to meet the wrong
  call, three for one more in between.
* **`States`** holds the one value "sleep", which the code treats apart: a change is told from another by
  its call. That an acknowledgement carries the state asked for is proved for any states (`RoundTrip`).
* **`RequestSlots`** stands for 32. At 2 the third call may be lost, with two that change
  places behind it, and the DESTROY as the fourth; at 4 (`sessionInitWakeup`) nothing is ever lost.
* **`MaxFrames`** is 1: an event in the socket while the stream is stopped
  needs one. Each frame may produce
  up to two events, the second of which falls asleep.
* **`RespCap`** is 8 where the buffer is meant never to fill (more than all the
  responses of the run) and 1 where it is.
* **Recorder.** Five calls are two and a half rounds of start and pause: stop can
  come after either, and the retry counter can survive one round. `MaxSpurious = 1`
  is one stray wake-up, which already separates the wait from one with a predicate.
  `WireRoom = 1`: one frame fills the socket, the next write blocks. The base reads one frame
  per turn whatever the room is, so a larger one only lets the thread block later.
* **VoiceProcessor** has no bounds: its state space is finite.
* **Word list.** Queues of two stand for 32 and 4096: two lists and a third push, or
  two lists and a frame, overflow the queue and turn the order round. `ChannelRoom = 1`
  is a socket that takes a request when the base reads it, the longest a writer can
  block. Four calls let a list be dropped and another repair it. The six structures are
  two names, one with two spellings, a path, lengths below, at and above a multiple
  of eight, and one structure for each refusal. There is one frame: it takes a slot or
  finds it taken.
* **Socket channel.** `HeaderLen = 2` is the least length that one can be inside of. With
  `Room = 3` and a body of two units every long
  message is larger than the socket, so each of its writes blocks and can be cut with one to
  three units missing, and the reader that fills the body from the next message ends on a
  header, inside one, or past it. Five messages are a torn one, two that it swallows, and one
  either side. `StrayLens = {0, 2}` with `MaxStrays = 1`: a false header with a body or none.
  `BasePatience = 2` stands for 5, which is enough for a count that has to
  be reset. The refinement, the types and `TornOncePerCut` are proved for all values.
* **Audio frames.** The lengths are those of the code in units of 2 ms: 5, 8, 5, 4 for
  10, 16, 10 and 8 ms. The carries run through all their phases within `lcm(5, 8) / 5 = 8` frames.
  The calibration is 7 units instead of a second, so that it ends inside a frame; the
  code's 16000 samples do that only if the frame length does not divide a second.
  Pieces of 3 and 5: a frame in two parts or whole. `QueueLen = 2` stands for 4096: three packages
  before the first pop overflow it.
* **Configuration.** The fields are those of the code. A file has one thing wrong with
  it, since the parser stops at the first; two files can each have theirs.

Deadlock is checked for the queue and the voice processor. A session ends with
`destroy_siren`, a recorder with `stop`, so their runs say `CHECK_DEADLOCK FALSE`;
that they end *only* there is what the liveness properties are for. The runs of the word
list, the audio frames and the channel say so too: the application may stop calling,
the recorder stops after `MaxFrames`, a process may die. So does the configuration's: the start ends.

### Fairness

Weak fairness for each thread: the operating system runs what can run. A step is
enabled only when the call it stands for would return, so this does not assume
that a blocking call returns: the recorder's `write` does when the base has made room, a
response's when the proxy has. The application need not call anything, the
microphone need not deliver a frame, a spurious wake-up or signal need not come: no
fairness for those. Mutexes are not fair, so a caller is not promised `startMutex`
against a thread that takes it again and again (`CallerContinues` has only weak
fairness, `Caller` none). In SocketChannel a write under way and a reader with
something to read go on (`Write`, `Read`); calls, signals and deaths need not come.

## 4. Proofs

Eight modules are checked by TLAPS for every value of the constants that its `ASSUME`s allow,
one for each component with a state of its own. Every safety invariant of a passing run, every action property and the
refinement of MessageChannel are theorems; `PROJECT.json` lists them, each with what
it says. What follows is the argument of each: the inductive invariant, and
why it needs to be as strong as it is.

**LFQueue** assumes finite sets of threads, at least one slot and a null that is no
item. The argument goes in layers, each inductive with the ones before:

1. `TypeAndWaiters`: types, and `waiters[s]` counts exactly the consumers between
   `++waiters` and `--waiters`. Types alone are not inductive: `--waiters` would
   leave `Nat`.
2. `WakeupsKept`: no consumer sleeps on a positive `val` without a producer on its
   way to wake it. Needs layer 1: a producer that reads `waiters = 0` skips the
   system call, which is right only if nobody is waiting.
3. `CountersMatchPointers`: pointers stored and under way equal units stored and
   promised; `SpinsEnd` follows, because a pointer found where none should be, or
   none where one should be, has a counterpart under way.
4. `NoItemLostOrDoubled`: `OnceInv` weighs, for each item, the producers that hold it,
   the slots it is in, the times it was popped and whether it was dropped against its
   tickets, of which it has at most one (`OneTicket`, `AllBalanced`). `Repaid` is the ledger of the
   nulls: as many items were dropped as pops found null and as units are still spare. The
   spare units of all slots are `Surplus`, a recursive function over the slots, so a
   step that changes one slot is carried through the sum by induction.
5. `OrderKeptUntilDisturbed`: undisturbed, a slot has at most one unit (`OneUnit`),
   an item enters a slot only after the one before it was delivered (`SlotInOrder`), and the tickets
   that pops drew at a slot are the items it delivered and the consumers still at
   it (`PopsCounted`). So a later item can leave first only while
   a consumer is at the slot of the earlier one.
6. `RingImplemented` assumes one thread at each end (`OneOfEach`). `RingInv`: `val[s]` counts
   the tickets that wait for slot `s` (`Window`), and the two threads stand at the slots of the
   next tickets. With layer 3 every instruction is a push, a pop or no step
   of RingQueue. That is the safety half of `RingSpec`, `RingSafety`.

**VoiceProcessor** assumes `VtEnabled` (`alg_vt_enable` is set, as in every
configuration under `resource/`) and `FreshPreClear` (`m_bPre` starts as false). The
five properties of its run share the inductive invariant `IInv`:

* `FlagMatches`: outside the transition between a word and its segment, the
  application has an open VAD_START exactly when `dataOutput /\ ~canceled`. It is
  why `dumpMsg` never complains and what ties the messages to the flags.
* `OutputInSegment`: output implies `vadStart`, which implies that the engine's
  segment is open or ends in this frame. Between frames it yields
  the first conjunct of `OutputHasItsReason`; it is the one that fails without `alg_vt_enable`.
* `EncoderFollows`: the encoder is paused only while output is held back, and a
  cursor put back means held back *and* too long or not begun by a word, so that it
  is never resumed: `AssertionsHold` and `AudioSentOnce`.
* `WordBeforeOutput` and `EngineAgrees`: no output of a word segment while the
  engine has the word pending, and the wrapper's `m_bPre` follows the engine.
* `TransitionIsSilent` and `StageFacts`: what a stage may rely on, needed because a
  frame is not atomic here.

**WordList** assumes that the queues and the channel have at least one slot
(`SlotsAreCounted`), that the application's strings hold no NUL (`WordsAreWords`), and of the table
of phonemes that no entry is alphanumeric throughout or holds a NUL (`PhonemesAreMarked`, `PhonemesAreTexts`).
`EngineNeverGoesBack` rests on `InOrder`: within `packages`, `channel` and `requests`
the numbers rise, all of a queue lie below all of the queue behind it, and all lie
above `shown` and up to `serial`. The inductive invariant is `~overflowed =>
Orderly`; `overflowed` never falls, and while it is false `Push` is `Append`
(`PushAppends`). Each step is then a tail, an append, or both, for which there is one
lemma each (`TailKeeps`, `AppendKeeps`, `HeadKeeps`).

`EngineHasTheWords` needs what the lists hold. `MessageCarriesWords` is about the codec alone: for any
list of words the reader's offsets are those at which the writer put each
entry (`Laid`, `Placed`), so what is unpacked is what was packed. With it `Contents` is inductive: a
list with the newest number is on its way or with the engine (`NewestSomewhere`), each list
on its way with that number packs `vt_words` (`Faithful`), and so the engine has those words
once it has the number (`EngineHas`). Names stay apart because `add_vt_word`
looks for the name before it appends (`Distinct`).

**SocketChannel** assumes what its `ASSUME`s say: lengths are numbers, there is some
room, `NoThread` and `Torn` are nobody and nothing. `ChannelTypeOK` is inductive by
itself. `ChannelImplemented` (`Spec => ChannelSpec`) is a step simulation under `IInv`:

* `GuardInv`: `writeGuard` is held by the one thread inside a write, which is why
  there is at most one message `Partial`ly written, and `BegunInv`: the headers written
  are the messages accepted and that one.
* `StreamInv`: the units in the socket follow one another (`Follows`) from the unit the
  reader wants (`Wanted`) to the one written last (`Latest`); when there are none,
  reader and writer are at the same unit (`CaughtUp`). So what is read at its end
  is the message that was accepted next, or the partial one with only its last unit
  to come, which cannot have been read.
* `BodyInv`: inside a body, `cur` is the next message and `need` what is missing of it.

These hold while nothing was cut, the reader lives and no message was made up; each of
the three is a fact that stays, and after it the abstract channel allows what the
code does (`Cut` and `OutOfStep`, no more reads, `Echo`).

All of it uses `HeaderInv`: a header that is in the socket from its first unit on is there as a whole.

`CutSpoilsOne` is about what happens *after* a cut, where the rest of `IInv` says nothing. `TornInv` has two
sets as witnesses: the messages that were cut, `F`, and those of them that spoiled what was read, `C`. The
stream is a chain in which only a message of `F` ends early (`Linked`), though its first unit may be any
of a message, for the reader takes headers and bodies out of phase. Inside a body whose header was one, it
is at the body's continuation, or its message is in `F` and all that follows is of later ones
(`ReaderCut`). A torn result uses up a member of `F` that none used before, or a false magic
(`strays`). Nothing is claimed of how much is lost on the way.

**SirenConfig** assumes that no key is read twice, that the numbers are required keys,
and that files are files. A file is read only over an untouched configuration
(`ReadIntoClear`), because the backup is read only while the status is OK, and after a user's file
that failed it is not; with it, everything stored has one origin (`OneOrigin`), which is
`ConfigFromOneFile`, and a list has at most one entry. `ReadToTheEnd`: what was read so far is
stored or had a default, so an accepted configuration is complete. `FrameMade`: after
the frame size was computed the length was legal, which the types need (`FrameSizeIsNat`). `Checked` adds
what the stages' `init` has looked at. The assertion on the first frame is arithmetic: if
the milliseconds divide a second and the frames a second's samples, the quotient
`channels * rate * bytes / frames` is a multiple of `bytes * microphones` (`RegularFrame`).

**RecordingThread** assumes that the bounds and `ErrorRetry` are numbers, that the data socket holds a frame and that `read_input`
answers "ok" or "error". `CountInv` holds always: who has `startMutex`, which calls can have come
before, what the local flags mean, and `StopsPaidFor`: every `stop_input` has a wake-up of its own, a
call of `start` or a spurious one. `TypeOK` needs that count; the flags alone do not bound `stops`.
`UndisturbedInv` says what the thread is doing for each place the caller can be at, before
`stop` (`StreamOpen`) and after it (`StreamEnds`); an open input means a thread that works on the stream or
has been told to.

**SirenSession** assumes that bounds are numbers, that there is room for one response and one request, and
that inits, results and outcomes are among those the code knows. Layers:

* `AnswerInv`: types, `Startup` (what the application's place says of the base's),
  `Answers` (what was said and is still unread begins with the one answer) and
  `BaseStarts` (before the answer no thread that takes requests runs). It gives
  `AnswerFirst`: what keeps other messages back is the order in which main starts its threads, not a flag.
* `NothingDropped`: the requests the base took are those it has carried out and then, in order, those in
  `processQueue`; DESTROY is behind them all, and the process thread exits with none left. `ExitLosesNothing`.
* `RoundInv`: the state changes on the whole way round are one sequence, `Circle`, of seven
  legs from those the application saw (`Taken`) to those that wait in its queue (`Waiting`), and a step
  moves a message from the end of one leg to the start of the next, which leaves `Circle` as it is.
  A push to a full request queue permutes the last leg but keeps its members and number
  (`FullPushKeeps`). `RoundTrip`.
* `CallInv` adds two things to the first layer, for calls of every kind, timeouts and starts that
  fail. `NoEventYet`: as long as there is no callback and none was taken back (`revoked`), no frame is recorded and
  no event said. `FlagInv`: the changes `UnderWay` anywhere on the circle while a synchronous call waits
  are its own or in `overlap`, those that were under way when it cleared the flag, and what has raised the flag since is
  the acknowledgement of one of these. No step but the call's own puts a change on the circle, which is what
  the proof goes through the seven legs for (`UnderWayStep`). `FindTheirCall`.

**AudioFrames** assumes positive lengths, pieces no longer than a frame and room for
a package. The lengths need not divide one another. `TypeOK` is inductive with what the stages'
buffers can hold. `MarkInv`: until it is judged, the mark is ahead of everything unless a push has met a
full queue (`lost`). `LateInv`
counts the one frame. `OrderInv`: the socket holds the next samples (`WireHolds`), and undisturbed every stage
holds exactly those between what it was given and what it gave on (`Stages`; `Fed`, `Done`, `Gone`),
while the skewed samples lie in one frame (`SkewedInFrame`). Most of the
proof is the arithmetic of carries for any lengths.

**Induction over data.** What recursive functions compute (`Surplus`, the offsets of the codec, the syllables of a
phone) is proved through `WFMin`: a set of numbers that holds 0 and the successor of each of its members
is `Nat` (`NatSet`), and likewise for sequences (`SeqSet`). The library's induction theorems have an
operator as parameter, which the provers here cannot instantiate. No module has a
RECURSIVE operator.

**Only model-checked** is liveness, which with ENABLED is out of the prover's reach: `PushedIsReceived` and the
fairness in `RingSpec`, `SyncCompletes`, `OverflowLosesOnlyItsOwn`, `StartIsHeard`,
`PauseStopsInput`, `StopEndsThread`, `AcceptedIsReceived` and `WritesReturn`; and so are the two
violations. What such a property rests on is often proved: `WakeupsKept` and `SpinsEnd` say that
no thread of the queue waits for something nobody will do.

## 5. What the code does that one would not expect

Shown by a run:

1. The base's process thread publishes its init without `initMutex`; the main
   thread can sleep through it and `init_siren` never returns (`sessionInitWakeup`).
2. With `alg_vt_enable` off the encoder's assertion ends the base (`voiceNoVt`).

Met while modelling, with the setting that shows it:

* A synchronous `set_siren_state` returns on the acknowledgement of an earlier call, because one flag stands for
  all (599): of an asynchronous one, or of one that timed out. In `sessionRequests`, take `overlap` out of
  `ResponsesFindTheirCall`. What holds is that the earlier change was under way when the
  call began.
* `destroy_siren` does not return if the request queue is full (397): its DESTROY is
  dropped, and it joins a thread that waits for one: take `DestroyLost` out of
  `DestroyFinishes`. A synchronous call that is dropped is saved by its timeout.
* `destroy_siren` does not return when the base's process thread blocks on a socket
  whose reader has gone (519): `MaxFrames = 2`, `RespCap = 1` with `DestroyFinishes`.
* A start right after a pause leaves the recorder reading a stopped input (107): drop
  `Undisturbed` from `ReadsOpenIfUndisturbed`.
* `init_siren` keeps the status OK when the base failed (siren_proxy.cpp:323), and
  a later `destroy_siren` pushes to a request thread that has ended and waits in
  `waitpid` for a base that nobody told to go: `ProcessInits` all true, `PreprocessInits = {FALSE}` with `DestroyFinishes`.
* A voice processor that fails to initialise is never reported (siren_base.cpp:286
  sets the flag that lets nobody pass, 394): `ProcessInits = {FALSE}` with
  `InitReturns`.
* `proc_callback` is `nullptr` after a start whose `start_input` failed (554) while
  an event of the stream before is under way (492): in `sessionRequests`, take `revoked` out of
  `ResponsesFindTheirCall`.
* The request thread reads a message it has deleted (373): `FreedReads =
  {"clobbered"}` with `DestroyFinishes`.
* `LFQueue::push` answers 0 for an item it dropped (lfqueue.cpp:177), where
  siren_base.cpp:459 tests the answer and siren_proxy.cpp:353 waits for an overflow
  that `pop` never reports; so `add_vt_word` answers OK for a list that is lost.
* After an overflow the engine can go back to an older list and stay there, though
  every list arrived: take `~overflowed` out of `ListsOnlyGetNewer`, and a frame that
  is dropped brings back a word that had been removed.
* A `siren_vt_word` that was added holds phonemes afterwards (siren_proxy.cpp:679);
  adding it again after a removal fails. An empty phone is
  logged as an error and goes on (657), to be refused by `pinyin2Phoneme`.
* A word of seven tones or more gets the default scores of a short one, because the
  number of steps must be below 3 (siren_proxy.cpp:684).
* Removing the last word is sent as a message of length 0, which unpacks to the error
  -2, which siren_base.cpp:371 accepts. The base never answers a list.
* A second asynchronous call overwrites the callback of the first (596): what holds
  is that no acknowledgement reaches an earlier callback (`RequestsGoRound`), not "each call its callback".
* A stream that is stopped can leave the recorder in its `write` (214): STOP goes to the base before `pause`
  takes `startMutex`, the base stops reading, the thread fills the socket and blocks. It then does not call
  `stop_input` until the next start, contrary to "doc/siren api.md":145, and does not see `stop`.
  Nobody calls `getWriter`, so the application keeps its copy of the other end open (include/siren_proxy.h:41) and not even the
  end of the base frees the thread: take `Stuck` out of `PauseStopsInput` or `StopEndsThread`.
* A start and a pause that both come before the recorder's first wait leave the input open, as that wait skips
  `stop_input` (163): `NeverWoken` in `PauseStopsInput`. `stop` notifies without the mutex, and between the
  thread's test and its wait it is not heard (134): `missed` in `StopEndsThread`.
* The wait has no predicate (168), and the detached thread's object is deleted (772): `spurious` in `Undisturbed`, `deleted`
  in `StopEndsThread`. After a read error
  the thread reports and reads on; it does not start the input again as the
  documentation says (205).
* `m_bPre` is never initialised (legacy/r2mem_vbv3.cpp:60): `FreshPre = {TRUE,
  FALSE}` with `AssertionsHold`.
* A user's configuration that does not parse keeps the backup from being loaded, as its
  status is tested instead of the backup's, and `abort` ends the application
  (siren_config.cpp:1395, 1414). The path `"user"` fails, `OpenBackup`, `Judge` shows it.
* Empty `alg_aec_mics` or `alg_sl_mics` make the voice processor's `init` fail, which
  nobody is told (siren_processor.cpp:161-173; `"silent"`). Other empty lists, and
  `alg_aec` off, are logged as "no rs is need" or "disable aec" and dereferenced as null a
  few lines later (siren_preprocessor.cpp:47-105; `"crashed"`).
* A frame length of 0 or above 1000 ms divides by zero in the application; one of 16 ms makes
  frames that end inside a sample and trips the assertion on the first of them
  (siren_base.cpp:46; `"asserted"`). `mic_channel_num` other than `mic_num` is noticed only
  if the frame does not divide: 6 microphones of 8 channels pass, and each gets other
  microphones' samples.
* If `processQueue` overflows before the first pop, the pop of the package with the mark returns null, the next
  package is judged by the first samples of its microphones, and those that happen to be quiet are taken for broken
  (lfqueue.cpp:73, siren_preprocessor.cpp:186): take `lost` out of `JudgedByMark`.
* If the calibration ends inside a frame (the frame length does not divide a second) r2mem_rdc moves up the microphones and not the
  references (legacy/r2mem_rdc.cpp:98): take the frame of the calibration out of `ReferenceAligned`.
* A short read of the data socket is taken for a frame, with the rest of the frame before behind
  it (siren_base.cpp:434): drop `Undisturbed` from `SamplesInOrder`. A stopped stream
  still lets one frame through, and what is in the socket is read after the next start.
* At end of file `pollMessage` makes up messages, or loops in a body that never comes:
  the proxy's remark at siren_proxy.cpp:779 that its response thread leaves epoll and
  exits when the base is gone does not describe it (`Echo`).
* A write cut by a signal is reported as done (siren_channel.cpp:429-437). The reader fills the body from what
  follows, and may from then on read out of phase: `sizeof(Message)` bytes from the middle of a header or body, refused one
  by one until it meets a header or gives up (the proxy at the first). It can lose any number of whole messages, and
  takes "aabb" in a payload for the start of one: take `strays` out of `TornOncePerCut`. `epoll_wait` cut by a
  signal ends the proxy's response thread for good (siren_proxy.cpp:424), and with it every
  later callback; the base's writers then block with `writeGuard` held: take `rpc = "stopped"` out of `WritesReturn`.
* The handler of `SIGCHLD` is set without `SA_RESTART` and reaps every child
  (sutils.cpp:26), so `waitpid` in `destroy_siren` may find none. `SIGPIPE` is not ignored: a
  write to a base that died can end the application.

## 6. Not modelled

Signal processing and the closed engines; what a *session* does when its base dies (each
channel by itself is modelled); the UDP monitor and broadcast, which share no state with
the rest; JNI, a stub; logging; the microphone of `neo/`, a test input. In the
voice processor: direction, `fixErrorMic` on the first frame, the time-out
parameters given to the engine (the engine may end a segment at any time), the AD2
build (`CONFIG_USE_AD2`), and a list that arrives while a word is pending. In the word
list: `get_vt_word`, which only reads, null arguments, allocations that fail, two
threads that change the list at once. In AudioFrames: the values of the samples, the delay
of the resampler, the raw stream. In SirenConfig: keys that are missing *and* lists that
are empty in one file. `CPU` affinity and priorities are left out: nothing is said about time.

Of the 74800 lines of C and C++ in the repository about 61000 are headers of third parties
(`thirdparty/support/include`) and a table of phonemes (`include/phoneme.h`); they hold no behaviour of
this program. The modules stand for most of what is left and is not signal processing.

## 7. Plan

Done: LFQueue and its ring, SirenSession, RecordingThread, VoiceProcessor, WordList, SocketChannel,
AudioFrames, SirenConfig, their runs, and the proofs above. Next, in this order:

1. *Base crash in a session*: the deaths of SocketChannel as actions of SirenSession, with
   what each of the proxy's threads does after them; `AnswerInv` and `RoundInv` then
   hold up to the death.
2. *Abstract queue for two producers*: RingQueue with tickets drawn before they are
   filled, which is what `processQueue` needs, and the refinement of LFQueue for it: layers 3 to 5
   above hold for any number of threads already.
3. *A word list that arrives while a word is pending*: VoiceProcessor and WordList joined.
4. *Monitor.*
5. *Proofs*: that SirenChannels' two FIFOs implement MessageChannel, so that SirenSession's
   theorems rest on SocketChannel's; that a push of `Ring` to a full queue is what SirenProxy and WordList
   take it to be, as one shared lemma.
