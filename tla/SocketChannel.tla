----------------------------- MODULE SocketChannel -----------------------------
(***************************************************************************)
(* One direction of the connection between the application and the base:   *)
(* SirenSocketWriter::writeMessage and SirenSocketReader::pollMessage of   *)
(* src/siren_channel.cpp over one end of a socketpair, with the two        *)
(* processes that may die and the signals that may interrupt a call.       *)
(*                                                                         *)
(* The stream is counted in bytes, few of them: HeaderLen for the struct   *)
(* Message and BodyLen[m] after it.  A header goes into the socket at once *)
(* (the kernel copies at least a page at a time), but nothing marks where  *)
(* one starts: a read takes the bytes that are next, so after a write that *)
(* was cut short the reader may run into a header and out of phase.        *)
(*                                                                         *)
(* "request" is the channel the application writes and the base reads,     *)
(* "response" the other one.  Only the application has a signal handler    *)
(* (SIGCHLD, set without SA_RESTART), so only its calls are interrupted.   *)
(***************************************************************************)
EXTENDS Naturals, Sequences, FiniteSets

CONSTANTS
  RequestThread,  \* the one thread that writes requests
  BaseThreads,    \* the threads of the base that write responses
  Messages,       \* what a message says
  HeaderLen,      \* units of a header, sizeof(Message)
  BodyLen,        \* BodyLen[m]: units of m after its header, Message::len
  Room,           \* units in the socket at which a write blocks
  StrayLens,      \* the lengths that bytes which are no header may state
  ProxyPatience,  \* failed polls before the proxy's thread returns: 1
  BasePatience,   \* failed polls in a row before the base's thread returns: 5
  NoThread,       \* nobody holds writeGuard
  Torn,           \* a message made of pieces of several
  MaxMessages,    \* bound: writes
  MaxSignals,     \* bound: interrupted calls
  MaxStrays,      \* bound: bytes taken for a header that are none
  MaxEchoes       \* bound: messages made up at end of file

Threads == BaseThreads \cup {RequestThread}

ASSUME BodyLenType == BodyLen \in [Messages -> Nat]
ASSUME HeaderPositive == HeaderLen \in Nat \ {0}
ASSUME RoomPositive == Room \in Nat \ {0}
ASSUME StrayLensType == StrayLens \subseteq Nat
ASSUME PatiencePositive ==
  ProxyPatience \in Nat \ {0} /\ BasePatience \in Nat \ {0}
ASSUME NobodyIsNoThread == NoThread \notin Threads
ASSUME TornIsNoMessage == Torn \notin Messages

VARIABLES
  kind,         \* which of the two channels this is
  sending,      \* sending[t]: the call of writeMessage thread t is in
  writeGuard,   \* the thread that holds SirenSocketWriter::writeGuard
  stream,       \* units in the socket
  begun,        \* history: messages whose header was written
  accepted,     \* history: messages written to their end
  rpc,          \* where the reading thread is in pollMessage
  cur,          \* the header it has read
  need,         \* readlen: units of the body still to read
  whole,        \* history: the units read so far are those of cur
  received,     \* history: what pollMessage returned
  errors,       \* retry: failed polls in a row
  writerUp,     \* the writing process lives
  readerUp,     \* the reading process lives
  signals,      \* history: calls interrupted
  cuts,         \* history: messages cut short
  strays,       \* history: bytes taken for a header that were none
  echoes        \* history: messages made up at end of file

writerVars == <<sending, writeGuard, begun, accepted, cuts>>
readerVars == <<rpc, cur, need, whole, received, errors, echoes, strays>>
vars == <<kind, writerVars, stream, readerVars, writerUp, readerUp, signals>>

Units == [n : Nat, k : Nat, msg : Messages]
NotSending == [active |-> FALSE]
Calls == {NotSending} \cup [active : {TRUE}, msg : Messages, at : Nat]
NoUnit == [n |-> 0]

\* The last unit of message m; units 0..HeaderLen-1 are its header.
Last(m) == HeaderLen - 1 + BodyLen[m]

\* The threads that write to this channel, and the reader's patience with it.
Callers == IF kind = "request" THEN {RequestThread} ELSE BaseThreads
Patience == IF kind = "request" THEN BasePatience ELSE ProxyPatience

TypeOK ==
  /\ kind \in {"request", "response"}
  /\ sending \in [Threads -> Calls]
  /\ writeGuard \in Threads \cup {NoThread}
  /\ stream \in Seq(Units)
  /\ Len(stream) < Room + HeaderLen
  /\ begun \in Nat
  /\ accepted \in Seq(Messages)
  /\ rpc \in {"poll", "body", "stopped"}
  /\ cur \in Units \cup {NoUnit}
  /\ rpc = "body" => cur \in Units
  /\ need \in Nat
  /\ whole \in BOOLEAN
  /\ received \in Seq(Messages \cup {Torn})
  /\ errors \in 0..Patience
  /\ rpc # "stopped" => errors < Patience
  /\ writerUp \in BOOLEAN /\ readerUp \in BOOLEAN
  /\ signals \in Nat /\ cuts \in Nat /\ echoes \in Nat /\ strays \in Nat

Init ==
  /\ kind \in {"request", "response"}
  /\ sending = [t \in Threads |-> NotSending]
  /\ writeGuard = NoThread
  /\ stream = <<>>
  /\ begun = 0
  /\ accepted = <<>>
  /\ rpc = "poll"
  /\ cur = NoUnit
  /\ need = 0
  /\ whole = TRUE
  /\ received = <<>>
  /\ errors = 0
  /\ writerUp = TRUE /\ readerUp = TRUE
  /\ signals = 0 /\ cuts = 0 /\ echoes = 0 /\ strays = 0

-----------------------------------------------------------------------------
(* SirenSocketWriter::writeMessage *)

\* Mutant of WriteMessage: no lock_guard, every caller writes at once.
WriteMessageUnguarded(t, m) ==
  /\ writerUp
  /\ ~sending[t].active
  /\ begun < MaxMessages
  /\ writeGuard' = t
  /\ sending' = [sending EXCEPT ![t] = [active |-> TRUE, msg |-> m, at |-> 0]]
  /\ UNCHANGED <<kind, stream, begun, accepted, cuts, readerVars, writerUp,
                 readerUp, signals>>

\* The caller takes writeGuard.
WriteMessage(t, m) ==
  /\ writerUp
  /\ ~sending[t].active
  /\ writeGuard = NoThread
  /\ begun < MaxMessages
  /\ writeGuard' = t
  /\ sending' = [sending EXCEPT ![t] = [active |-> TRUE, msg |-> m, at |-> 0]]
  /\ UNCHANGED <<kind, stream, begun, accepted, cuts, readerVars, writerUp,
                 readerUp, signals>>

\* writeMessage returns, and says SIREN_CHANNEL_OK whatever write returned.
Return(t) ==
  /\ sending' = [sending EXCEPT ![t] = NotSending]
  /\ writeGuard' = NoThread

\* What write copies next: the header at once, then the body bit by bit.
Piece(t) ==
  LET s == sending[t]
      n == IF s.at = 0 THEN begun + 1 ELSE begun
  IN  [i \in 1..(IF s.at = 0 THEN HeaderLen ELSE 1) |->
         [n |-> n, k |-> s.at + i - 1, msg |-> s.msg]]

\* write copies on while there is room, and returns after the last unit.
WriteUnit(t) ==
  LET s == sending[t]
      next == s.at + Len(Piece(t))
  IN  /\ writerUp /\ readerUp
      /\ s.active
      /\ Len(stream) < Room
      /\ stream' = stream \o Piece(t)
      /\ begun' = IF s.at = 0 THEN begun + 1 ELSE begun
      /\ \/ /\ next > Last(s.msg)
            /\ accepted' = Append(accepted, s.msg)
            /\ Return(t)
         \/ /\ next <= Last(s.msg)
            /\ sending' = [sending EXCEPT
                             ![t] = [active |-> TRUE, msg |-> s.msg, at |-> next]]
            /\ UNCHANGED <<writeGuard, accepted>>
      /\ UNCHANGED <<kind, cuts, readerVars, writerUp, readerUp, signals>>

\* A signal interrupts a write that waits for room.  Nothing written yet: EINTR,
\* and the message is lost.  Something written: a short count, and the message
\* is cut.  Both are only logged.
WriteInterrupted(t) ==
  LET s == sending[t]
  IN  /\ writerUp /\ readerUp
      /\ kind = "request"
      /\ s.active
      /\ Len(stream) >= Room
      /\ signals < MaxSignals
      /\ signals' = signals + 1
      /\ cuts' = IF s.at > 0 THEN cuts + 1 ELSE cuts
      /\ Return(t)
      /\ UNCHANGED <<kind, stream, begun, accepted, readerVars, writerUp, readerUp>>

\* Mutant of WriteBroken: the writer's process has kept its copy of the other end
\* open, so a write to nobody waits for room like any other.
WriteUnnoticed(t) ==
  /\ writerUp /\ ~readerUp
  /\ sending[t].active
  /\ Len(stream) < Room
  /\ Return(t)
  /\ UNCHANGED <<kind, stream, begun, accepted, cuts, readerVars, writerUp, readerUp,
                 signals>>

\* Nobody can read any more: EPIPE.  SIGPIPE kills the writing process unless
\* the program it is part of ignores that signal.
WriteBroken(t) ==
  /\ writerUp /\ ~readerUp
  /\ sending[t].active
  /\ \/ Return(t) /\ UNCHANGED writerUp
     \/ writerUp' = FALSE /\ UNCHANGED <<sending, writeGuard>>
  /\ UNCHANGED <<kind, stream, begun, accepted, cuts, readerVars, readerUp, signals>>

-----------------------------------------------------------------------------
(* SirenSocketReader::pollMessage and the loop that calls it *)

\* pollMessage returns a message.
Deliver(m) ==
  /\ received' = Append(received, m)
  /\ rpc' = "poll"
  /\ errors' = 0

\* Mutant of PollFails: the loop allows one failure too many.
PollFailsOnceMore ==
  /\ errors' = errors + 1
  /\ rpc' = IF errors + 1 > Patience THEN "stopped" ELSE "poll"
  /\ UNCHANGED <<cur, need, whole, received, echoes, strays>>

\* pollMessage fails: the loop counts it and gives up in the end.
PollFails ==
  /\ errors' = errors + 1
  /\ rpc' = IF errors + 1 >= Patience THEN "stopped" ELSE "poll"
  /\ UNCHANGED <<cur, need, whole, received, echoes, strays>>

\* A header has the magic, and its message a body or none.
TakeHeader(u) ==
  /\ cur' = u
  /\ need' = BodyLen[u.msg]
  /\ whole' = TRUE
  /\ \/ BodyLen[u.msg] = 0 /\ Deliver(u.msg)
     \/ BodyLen[u.msg] > 0 /\ rpc' = "body" /\ UNCHANGED <<received, errors>>

\* What is left in the socket when a header has been read from it: read takes
\* HeaderLen units, or what there is.
PastHeader == SubSeq(stream, HeaderLen + 1, Len(stream))

\* Mutant of PollHeader: checkMagic is not called.
PollHeaderUnchecked ==
  LET u == Head(stream)
  IN  /\ readerUp
      /\ rpc = "poll"
      /\ stream # <<>>
      /\ stream' = PastHeader
      /\ \/ u.k = 0 /\ TakeHeader(u)
         \/ u.k > 0 /\ Deliver(Torn) /\ UNCHANGED <<cur, need, whole>>
      /\ UNCHANGED <<kind, writerVars, writerUp, readerUp, signals, echoes, strays>>

\* read takes the next bytes for a header.  They are one, or they lack the magic.
PollHeader ==
  LET u == Head(stream)
  IN  /\ readerUp
      /\ rpc = "poll"
      /\ stream # <<>>
      /\ stream' = PastHeader
      /\ \/ u.k = 0 /\ TakeHeader(u) /\ UNCHANGED <<echoes, strays>>
         \/ u.k > 0 /\ PollFails
      /\ UNCHANGED <<kind, writerVars, writerUp, readerUp, signals>>

\* Bytes that are no header happen to begin with the magic: what follows them is
\* the length and the kind of a message nobody wrote.
PollStray(len) ==
  LET u == Head(stream)
  IN  /\ readerUp
      /\ rpc = "poll"
      /\ stream # <<>> /\ u.k > 0
      /\ strays < MaxStrays
      /\ strays' = strays + 1
      /\ stream' = PastHeader
      /\ cur' = u
      /\ need' = len
      /\ whole' = FALSE
      /\ \/ len = 0 /\ Deliver(Torn)
         \/ len > 0 /\ rpc' = "body" /\ UNCHANGED <<received, errors>>
      /\ UNCHANGED <<kind, writerVars, writerUp, readerUp, signals, echoes>>

\* Mutant of ReadBody: readlen is not reduced by what was read.
ReadBodyUncounted ==
  /\ readerUp
  /\ rpc = "body"
  /\ stream # <<>>
  /\ stream' = Tail(stream)
  /\ \/ need = 1 /\ Deliver(cur.msg)
     \/ need > 1 /\ UNCHANGED <<rpc, received, errors>>
  /\ UNCHANGED <<kind, writerVars, cur, need, whole, echoes, strays, writerUp, readerUp,
                 signals>>

\* read returns what is there, up to what the body still needs, and the loop
\* reads on: it has the message when need comes to 0, in the middle of the next
\* header perhaps.
ReadBody ==
  LET u == Head(stream)
      expected == [n |-> cur.n, k |-> Last(cur.msg) - need + 1, msg |-> cur.msg]
      good == whole /\ u = expected
  IN  /\ readerUp
      /\ rpc = "body"
      /\ stream # <<>>
      /\ stream' = Tail(stream)
      /\ need' = need - 1
      /\ whole' = good
      /\ \/ need = 1 /\ Deliver(IF good THEN cur.msg ELSE Torn)
         \/ need > 1 /\ UNCHANGED <<rpc, received, errors>>
      /\ UNCHANGED <<kind, writerVars, cur, echoes, strays, writerUp, readerUp, signals>>

\* End of file: the header keeps the magic its constructor put there, and the
\* rest of it is what an earlier call left on the stack.  With a body to read
\* the loop never ends.
PollEndOfFile(m) ==
  /\ readerUp /\ ~writerUp
  /\ rpc = "poll"
  /\ stream = <<>>
  /\ echoes < MaxEchoes
  /\ echoes' = echoes + 1
  /\ TakeHeader([n |-> 0, k |-> 0, msg |-> m])
  /\ UNCHANGED <<kind, writerVars, stream, writerUp, readerUp, signals, strays>>

\* A signal ends epoll_wait with EINTR, which is a failed poll like any other.
PollInterrupted ==
  /\ readerUp
  /\ kind = "response"
  /\ rpc = "poll"
  /\ stream = <<>>
  /\ signals < MaxSignals
  /\ signals' = signals + 1
  /\ PollFails
  /\ UNCHANGED <<kind, writerVars, stream, writerUp, readerUp>>

-----------------------------------------------------------------------------
(* The processes *)

\* The writing process exits or is killed, in the middle of a write perhaps.
WriterDies ==
  /\ writerUp
  /\ writerUp' = FALSE
  /\ UNCHANGED <<kind, writerVars, stream, readerVars, readerUp, signals>>

ReaderDies ==
  /\ readerUp
  /\ readerUp' = FALSE
  /\ UNCHANGED <<kind, writerVars, stream, readerVars, writerUp, signals>>

Write(t) == WriteUnit(t) \/ WriteBroken(t)
Read == PollHeader \/ ReadBody \/ \E len \in StrayLens : PollStray(len)

Next ==
  \/ \E t \in Callers, m \in Messages : WriteMessage(t, m)
  \/ \E t \in Callers : Write(t) \/ WriteInterrupted(t)
  \/ Read
  \/ \E m \in Messages : PollEndOfFile(m)
  \/ PollInterrupted \/ WriterDies \/ ReaderDies

Spec == Init /\ [][Next]_vars

\* A write in progress and a reading thread with something to read are left to
\* run; calls, signals and deaths may never come.
FairSpec ==
  /\ Spec
  /\ \A t \in Threads : WF_vars(Write(t))
  /\ WF_vars(Read)

-----------------------------------------------------------------------------
(* Properties *)

\* Until a write is cut short, the socket and its two ends keep the promise of
\* MessageChannel, whoever dies and whatever is interrupted: writeGuard keeps the
\* units of two callers apart, and a body that arrives in pieces is put together.
Channel == INSTANCE MessageChannel
  WITH open <- writerUp, intact <- (cuts = 0)
ChannelSpec == Channel!Spec

\* Each write cut short spoils at most one message that pollMessage returns, but for
\* those it makes up where bytes of a body look like a header.  Nothing is said of
\* what a cut loses: out of phase the reader may swallow the headers of any number
\* of messages, or give up.
TornOncePerCut ==
  Cardinality({i \in DOMAIN received : received[i] = Torn}) <= cuts + strays

\* A cut, a reader gone or one that gave up: what is still in the socket may stay.
Disturbed == cuts > 0 \/ ~readerUp \/ rpc = "stopped"

\* A message written to its end is read, also when the writer dies after that.
AcceptedIsReceived ==
  \A i \in 1..MaxMessages :
    Len(accepted) >= i ~> (Len(received) >= i \/ Disturbed)

\* A call of writeMessage comes back: writeGuard is held for ever only over a
\* socket whose reading thread returned and whose process lives on.
WritesReturn ==
  \A t \in Threads :
    sending[t].active ~> (~sending[t].active \/ ~writerUp \/ rpc = "stopped")
=============================================================================
