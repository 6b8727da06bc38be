-------------------------- MODULE SocketChannelProofs --------------------------
(***************************************************************************)
(* Proofs about SocketChannel: for any threads, messages, lengths of       *)
(* headers and bodies and room in the socket, it keeps the promise of      *)
(* MessageChannel until a write is cut short, and a cut spoils one message *)
(* at most, however far out of phase the reader is after it.               *)
(***************************************************************************)
EXTENDS SocketChannel, SequenceTheorems, FiniteSetTheorems, TLAPS

-----------------------------------------------------------------------------
(* The inductive invariant *)

\* writeGuard is held by the one thread that is in a write.
GuardInv ==
  /\ \A t \in Threads : sending[t].active <=> writeGuard = t
  /\ \A t \in Threads : sending[t].active => sending[t].at <= Last(sending[t].msg)

\* A message is in the socket up to some unit of its body, and not to its end.
Partial == writeGuard # NoThread /\ sending[writeGuard].at > 0

\* A header is in the socket as a whole, or not from its first unit on.
HeaderInv ==
  \A i \in 1..Len(stream) :
    stream[i].k = 0 =>
      \A j \in 0..(HeaderLen - 1) :
        /\ i + j \in 1..Len(stream)
        /\ stream[i + j].n = stream[i].n /\ stream[i + j].k = j
        /\ stream[i + j].msg = stream[i].msg

\* Every message but the partial one was written to its end.
BegunInv == begun = Len(accepted) + (IF Partial THEN 1 ELSE 0)

\* The n-th message.
Content(n) == IF n <= Len(accepted) THEN accepted[n] ELSE sending[writeGuard].msg

\* A unit that has been written.
Written(u) ==
  /\ u.n \in 1..begun
  /\ u.msg = Content(u.n)
  /\ u.k <= Last(u.msg)
  /\ u.n > Len(accepted) => u.k < sending[writeGuard].at

\* Unit v is the one after unit u.
Follows(u, v) ==
  IF u.k < Last(u.msg) THEN v.n = u.n /\ v.k = u.k + 1 ELSE v.n = u.n + 1 /\ v.k = 0

\* The reader wants unit u next; the writer has written unit u last.
Wanted(u) ==
  IF rpc = "body" THEN u.n = cur.n /\ u.k = Last(cur.msg) - need + 1
                  ELSE u.n = Len(received) + 1 /\ u.k = 0
Latest(u) ==
  /\ u.n = begun
  /\ IF Partial THEN u.k = sending[writeGuard].at - 1 ELSE u.k = Last(u.msg)

\* In the middle of a message the reader has its header and part of its body.
BodyInv ==
  rpc = "body" =>
    /\ cur.n = Len(received) + 1
    /\ cur.n \in 1..begun
    /\ cur.msg = Content(cur.n)
    /\ need \in 1..Last(cur.msg)
    /\ whole

\* Nothing in the socket: reader and writer are at the same unit.
CaughtUp ==
  IF rpc = "body"
    THEN Partial /\ cur.n = begun /\ Last(cur.msg) - need + 1 = sending[writeGuard].at
    ELSE ~Partial /\ Len(received) = begun

\* The socket holds the units from the reader's place to the writer's.
StreamInv ==
  /\ \A i \in 1..Len(stream) : Written(stream[i])
  /\ \A i \in 1..(Len(stream) - 1) : Follows(stream[i], stream[i + 1])
  /\ stream # <<>> => Wanted(stream[1]) /\ Latest(stream[Len(stream)])
  /\ stream = <<>> => CaughtUp

\* Messages are made up only at the end of file.
EchoInv == echoes > 0 => ~writerUp /\ stream = <<>> /\ Len(received) >= Len(accepted)

SoundInv == echoes = 0 => BodyInv /\ StreamInv

IntactInv == cuts = 0 /\ readerUp => BegunInv /\ EchoInv /\ SoundInv

IInv == TypeOK /\ GuardInv /\ HeaderInv /\ IntactInv

-----------------------------------------------------------------------------
(* Type correctness *)

LEMMA TypeInit == Init => TypeOK
  <1> SUFFICES ASSUME Init PROVE TypeOK
    OBVIOUS
  <1>1. stream \in Seq(Units) /\ accepted \in Seq(Messages)
        /\ received \in Seq(Messages \cup {Torn})
    BY DEF Init
  <1> QED BY <1>1, RoomPositive, HeaderPositive, PatiencePositive
          DEF Init, TypeOK, Calls, Patience

\* The last unit of a message, in figures.
LEMMA LastUnit ==
  ASSUME NEW m \in Messages
  PROVE  /\ Last(m) \in Nat /\ BodyLen[m] \in Nat /\ HeaderLen \in Nat /\ HeaderLen >= 1
         /\ Last(m) = HeaderLen - 1 + BodyLen[m]
  BY BodyLenType, HeaderPositive DEF Last

\* A call of writeMessage as a record.
LEMMA CallFields ==
  ASSUME TypeOK, NEW t \in Threads, sending[t].active
  PROVE  /\ sending[t].msg \in Messages
         /\ sending[t].at \in Nat
         /\ sending[t] = [active |-> TRUE, msg |-> sending[t].msg, at |-> sending[t].at]
         /\ Last(sending[t].msg) \in Nat
  <1>1. sending[t] \in Calls /\ sending[t] # NotSending
    BY DEF TypeOK, NotSending
  <1>2. sending[t] \in [active : {TRUE}, msg : Messages, at : Nat]
    BY <1>1 DEF Calls
  <1> QED BY <1>2, LastUnit

LEMMA TypeWriteMessage ==
  ASSUME TypeOK, NEW t \in Callers, NEW m \in Messages, WriteMessage(t, m)
  PROVE  TypeOK'
  <1>1. t \in Threads
    BY DEF Callers, Threads
  <1>2. [active |-> TRUE, msg |-> m, at |-> 0] \in Calls
    BY DEF Calls
  <1> QED BY <1>1, <1>2 DEF TypeOK, WriteMessage, readerVars, Patience

\* What thread t's return from writeMessage leaves behind.
LEMMA TypeReturn ==
  ASSUME TypeOK, NEW t \in Threads, Return(t)
  PROVE  sending' \in [Threads -> Calls] /\ writeGuard' = NoThread
  BY DEF TypeOK, Return, Calls

\* A function on 1..d is a sequence of length d.
LEMMA SeqOfLength ==
  ASSUME NEW S, NEW d \in Nat, d >= 1, NEW f \in [1..d -> S]
  PROVE  f \in Seq(S) /\ Len(f) = d
  <1>1. f \in Seq(S)
    BY SeqDef
  <1>2. Len(f) \in Nat /\ DOMAIN f = 1..Len(f)
    BY <1>1, LenProperties
  <1>3. DOMAIN f = 1..d
    OBVIOUS
  <1>p. PICK l \in Nat : l = Len(f)
    BY <1>2
  <1>4. 1..l = 1..d
    BY <1>2, <1>3, <1>p
  <1>5. d \in 1..l
    <2>1. d \in 1..d
      OBVIOUS
    <2> QED BY <1>4, <2>1
  <1>6. l \in 1..d
    <2>1. l \in 1..l
      BY <1>5
    <2> QED BY <1>4, <2>1
  <1> QED BY <1>1, <1>5, <1>6, <1>p

\* What one step of a write copies into the socket.
LEMMA PieceWritten ==
  ASSUME TypeOK, NEW t \in Threads, sending[t].active
  PROVE  /\ Piece(t) \in Seq(Units)
         /\ Len(Piece(t)) = IF sending[t].at = 0 THEN HeaderLen ELSE 1
         /\ Len(Piece(t)) \in Nat /\ Len(Piece(t)) >= 1 /\ Len(Piece(t)) <= HeaderLen
         /\ \A i \in 1..Len(Piece(t)) :
              /\ Piece(t)[i].n = IF sending[t].at = 0 THEN begun + 1 ELSE begun
              /\ Piece(t)[i].k = sending[t].at + i - 1
              /\ Piece(t)[i].msg = sending[t].msg
  <1> DEFINE s == sending[t]
             n == IF s.at = 0 THEN begun + 1 ELSE begun
             d == IF s.at = 0 THEN HeaderLen ELSE 1
             f == [i \in 1..d |-> [n |-> n, k |-> s.at + i - 1, msg |-> s.msg]]
  <1>1. s.msg \in Messages /\ s.at \in Nat /\ begun \in Nat
    BY CallFields DEF TypeOK
  <1>2. d \in Nat /\ d >= 1 /\ d <= HeaderLen /\ n \in Nat
    BY <1>1, HeaderPositive
  <1>3. ASSUME NEW i \in 1..d PROVE [n |-> n, k |-> s.at + i - 1, msg |-> s.msg] \in Units
    <2>1. s.at + i - 1 \in Nat
      BY <1>1, <1>2
    <2> QED BY <1>1, <1>2, <2>1 DEF Units
  <1>4. Piece(t) = f
    BY DEF Piece
  <1> HIDE DEF n, d
  <1>5. f \in Seq(Units) /\ Len(f) = d
    <2>p. PICK e \in Nat : e = d /\ e >= 1
      BY <1>2
    <2>1. f \in [1..e -> Units]
      BY <1>3, <2>p
    <2>2. f \in Seq(Units) /\ Len(f) = e
      <3> HIDE DEF f
      <3> QED BY <2>1, <2>p, SeqOfLength
    <2> QED BY <2>2, <2>p
  <1>6. \A i \in 1..d : f[i].n = n /\ f[i].k = s.at + i - 1 /\ f[i].msg = s.msg
    OBVIOUS
  <1> QED BY <1>2, <1>4, <1>5, <1>6 DEF n, d

LEMMA TypeWriteUnit ==
  ASSUME TypeOK, NEW t \in Threads, WriteUnit(t)
  PROVE  TypeOK'
  <1> DEFINE s == sending[t]
             n == IF s.at = 0 THEN begun + 1 ELSE begun
             next == s.at + Len(Piece(t))
  <1>1. s.active /\ Len(stream) < Room /\ stream' = stream \o Piece(t) /\ begun' = n
    BY DEF WriteUnit
  <1>2. s.msg \in Messages /\ s.at \in Nat
    BY <1>1, CallFields
  <1>3. n \in Nat /\ next \in Nat
    BY <1>1, <1>2, PieceWritten DEF TypeOK
  <1>4. stream' \in Seq(Units) /\ Len(stream') < Room + HeaderLen
    BY <1>1, PieceWritten, RoomPositive, HeaderPositive DEF TypeOK
  <1>5. CASE accepted' = Append(accepted, s.msg) /\ Return(t)
    <2>1. accepted' \in Seq(Messages)
      BY <1>2, <1>5 DEF TypeOK
    <2> QED BY <1>1, <1>3, <1>4, <1>5, <2>1, TypeReturn
            DEF TypeOK, WriteUnit, readerVars, Patience
  <1>6. CASE /\ sending' = [sending EXCEPT ![t] = [active |-> TRUE, msg |-> s.msg, at |-> next]]
             /\ UNCHANGED <<writeGuard, accepted>>
    <2>1. [active |-> TRUE, msg |-> s.msg, at |-> next] \in Calls
      BY <1>2, <1>3 DEF Calls
    <2>2. sending' \in [Threads -> Calls]
      BY <1>6, <2>1 DEF TypeOK
    <2> QED BY <1>1, <1>3, <1>4, <1>6, <2>2 DEF TypeOK, WriteUnit, readerVars, Patience
  <1> QED BY <1>5, <1>6 DEF WriteUnit

LEMMA TypeTakeHeader ==
  ASSUME TypeOK, NEW u \in Units, TakeHeader(u), kind' = kind, rpc # "stopped"
  PROVE  /\ rpc' \in {"poll", "body", "stopped"}
         /\ cur' \in Units
         /\ need' \in Nat
         /\ whole' \in BOOLEAN
         /\ received' \in Seq(Messages \cup {Torn})
         /\ errors' \in 0..Patience
         /\ rpc' # "stopped" => errors' < Patience
  <1>1. u.msg \in Messages /\ BodyLen[u.msg] \in Nat
    BY BodyLenType DEF Units
  <1>2. Patience \in Nat \ {0}
    BY PatiencePositive DEF Patience
  <1>3. Append(received, u.msg) \in Seq(Messages \cup {Torn})
    BY <1>1 DEF TypeOK
  <1>4. cur' \in Units /\ need' \in Nat /\ whole' \in BOOLEAN
    BY <1>1 DEF TakeHeader
  <1>5. Patience' = Patience
    BY DEF Patience
  <1>6. CASE Deliver(u.msg)
    BY <1>2, <1>3, <1>4, <1>5, <1>6 DEF Deliver
  <1>7. CASE rpc' = "body" /\ UNCHANGED <<received, errors>>
    BY <1>2, <1>4, <1>5, <1>7 DEF TypeOK
  <1> QED BY <1>6, <1>7 DEF TakeHeader

LEMMA TypePollFails ==
  ASSUME TypeOK, PollFails, kind' = kind, rpc = "poll"
  PROVE  /\ rpc' \in {"poll", "stopped"}
         /\ errors' \in 0..Patience
         /\ rpc' # "stopped" => errors' < Patience
  <1>1. Patience \in Nat \ {0}
    BY PatiencePositive DEF Patience
  <1> QED BY <1>1 DEF TypeOK, PollFails

LEMMA HeadInStream ==
  ASSUME TypeOK, stream # <<>>
  PROVE  Head(stream) \in Units /\ Head(stream) = stream[1] /\ 1 \in 1..Len(stream)
  BY DEF TypeOK

\* A read takes the first d units.
Taken(d) ==
  /\ stream' \in Seq(Units)
  /\ Len(stream') = Len(stream) - d
  /\ \A i \in 1..Len(stream') : i + d \in 1..Len(stream) /\ stream'[i] = stream[i + d]

\* A read of a header takes its units, or those there are; a read of a body goes on
\* unit by unit.
LEMMA ReadTakes ==
  ASSUME TypeOK, stream # <<>>
  PROVE  /\ stream' = PastHeader =>
              /\ HeaderLen <= Len(stream) => HeaderLen \in 1..Len(stream) /\ Taken(HeaderLen)
              /\ ~(HeaderLen <= Len(stream)) => Len(stream) \in 1..Len(stream)
                                               /\ Taken(Len(stream))
         /\ stream' = Tail(stream) => 1 \in 1..Len(stream) /\ Taken(1)
  <1>1. stream \in Seq(Units) /\ Len(stream) \in Nat /\ Len(stream) >= 1
    BY DEF TypeOK
  <1>2. HeaderLen \in Nat /\ HeaderLen >= 1
    BY HeaderPositive
  <1>3. ASSUME stream' = PastHeader, HeaderLen <= Len(stream) PROVE Taken(HeaderLen)
    <2>1. stream' = SubSeq(stream, HeaderLen + 1, Len(stream))
      BY <1>3 DEF PastHeader
    <2> QED BY <1>1, <1>2, <1>3, <2>1 DEF Taken
  <1>4. ASSUME stream' = PastHeader, ~(HeaderLen <= Len(stream)) PROVE Taken(Len(stream))
    <2>1. stream' = SubSeq(stream, HeaderLen + 1, Len(stream))
      BY <1>4 DEF PastHeader
    <2>2. stream' = <<>>
      BY <1>1, <1>2, <1>4, <2>1
    <2> QED BY <1>1, <2>2 DEF Taken
  <1>5. ASSUME stream' = Tail(stream) PROVE Taken(1)
    BY <1>1, <1>5 DEF Taken
  <1> QED BY <1>1, <1>2, <1>3, <1>4, <1>5

\* Whichever it is, units are taken from the front.
LEMMA SomeTaken ==
  ASSUME TypeOK, stream # <<>>, stream' = PastHeader \/ stream' = Tail(stream)
  PROVE  \E d \in 1..Len(stream) : Taken(d)
  BY ReadTakes

LEMMA TakenType ==
  ASSUME TypeOK, NEW d \in 1..Len(stream), Taken(d)
  PROVE  stream' \in Seq(Units) /\ Len(stream') < Room + HeaderLen
  BY RoomPositive, HeaderPositive DEF Taken, TypeOK

LEMMA TypePollHeader ==
  ASSUME TypeOK, PollHeader
  PROVE  TypeOK'
  <1>1. /\ Head(stream) \in Units /\ rpc = "poll" /\ kind' = kind
        /\ stream' \in Seq(Units) /\ Len(stream') < Room + HeaderLen
    BY HeadInStream, SomeTaken, TakenType DEF PollHeader
  <1>2. CASE TakeHeader(Head(stream)) /\ UNCHANGED <<echoes, strays>>
    BY <1>1, <1>2, TypeTakeHeader DEF TypeOK, PollHeader, writerVars, Patience
  <1>3. CASE PollFails
    <2>1. UNCHANGED <<cur, need, whole, received, echoes, strays>>
      BY <1>3 DEF PollFails
    <2> QED BY <1>1, <1>3, <2>1, TypePollFails DEF TypeOK, PollHeader, writerVars, Patience
  <1> QED BY <1>2, <1>3 DEF PollHeader

LEMMA TypePollStray ==
  ASSUME TypeOK, NEW len \in StrayLens, PollStray(len)
  PROVE  TypeOK'
  <1>1. /\ Head(stream) \in Units /\ rpc = "poll" /\ kind' = kind
        /\ stream' \in Seq(Units) /\ Len(stream') < Room + HeaderLen
    BY HeadInStream, SomeTaken, TakenType DEF PollStray
  <1>l. len \in Nat /\ strays \in Nat
    BY StrayLensType DEF TypeOK
  <1>2. cur' \in Units /\ need' \in Nat /\ whole' \in BOOLEAN /\ strays' \in Nat
    <2>1. cur' = Head(stream) /\ need' = len /\ whole' = FALSE /\ strays' = strays + 1
      BY DEF PollStray
    <2>2. strays + 1 \in Nat
      BY <1>l
    <2> QED BY <1>1, <1>l, <2>1, <2>2
  <1>3. Patience \in Nat \ {0}
    BY PatiencePositive DEF Patience
  <1>4. /\ received' \in Seq(Messages \cup {Torn})
        /\ rpc' \in {"poll", "body"} /\ errors' \in 0..Patience /\ errors' < Patience
    <2>1. CASE rpc' = "body" /\ received' = received /\ errors' = errors
      BY <2>1, <1>1, <1>3 DEF TypeOK
    <2>2. CASE Deliver(Torn)
      BY <2>2, <1>3 DEF Deliver, TypeOK
    <2> QED BY <2>1, <2>2 DEF PollStray
  <1> QED BY <1>1, <1>2, <1>4 DEF TypeOK, PollStray, writerVars, Patience

LEMMA TypeReadBody ==
  ASSUME TypeOK, ReadBody
  PROVE  TypeOK'
  <1>1. /\ stream' \in Seq(Units) /\ Len(stream') < Room + HeaderLen /\ kind' = kind
        /\ rpc = "body" /\ cur \in Units /\ cur.msg \in Messages
    BY SomeTaken, TakenType DEF ReadBody, TypeOK, Units
  <1>2. need' \in Nat /\ whole' \in BOOLEAN
    BY DEF ReadBody, TypeOK
  <1>3. Patience \in Nat \ {0}
    BY PatiencePositive DEF Patience
  <1>4. /\ received' \in Seq(Messages \cup {Torn})
        /\ rpc' \in {"poll", "body"} /\ errors' \in 0..Patience /\ errors' < Patience
    <2>1. CASE rpc' = rpc /\ received' = received /\ errors' = errors
      BY <2>1, <1>1, <1>3 DEF TypeOK
    <2>2. CASE \E m \in Messages \cup {Torn} : Deliver(m)
      BY <2>2, <1>3 DEF Deliver, TypeOK
    <2> QED BY <1>1, <2>1, <2>2 DEF ReadBody
  <1> QED BY <1>1, <1>2, <1>4 DEF TypeOK, ReadBody, writerVars, Patience

LEMMA TypePollEndOfFile ==
  ASSUME TypeOK, NEW m \in Messages, PollEndOfFile(m)
  PROVE  TypeOK'
  <1>1. [n |-> 0, k |-> 0, msg |-> m] \in Units
    BY DEF Units
  <1> QED BY <1>1, TypeTakeHeader DEF TypeOK, PollEndOfFile, writerVars, Patience

LEMMA TypeNext ==
  ASSUME TypeOK, [Next]_vars
  PROVE  TypeOK'
  <1>1. ASSUME NEW t \in Callers, NEW m \in Messages, WriteMessage(t, m) PROVE TypeOK'
    BY <1>1, TypeWriteMessage
  <1>2. ASSUME NEW t \in Callers, WriteUnit(t) PROVE TypeOK'
    BY <1>2, TypeWriteUnit DEF Callers, Threads
  <1>3. ASSUME NEW t \in Callers, WriteBroken(t) PROVE TypeOK'
    <2>1. t \in Threads
      BY DEF Callers, Threads
    <2> QED BY <1>3, <2>1, TypeReturn DEF TypeOK, WriteBroken, readerVars, Patience
  <1>4. ASSUME NEW t \in Callers, WriteInterrupted(t) PROVE TypeOK'
    <2>1. t \in Threads
      BY DEF Callers, Threads
    <2> QED BY <1>4, <2>1, TypeReturn DEF TypeOK, WriteInterrupted, readerVars, Patience
  <1>5. CASE PollHeader
    BY <1>5, TypePollHeader
  <1>6. CASE ReadBody
    BY <1>6, TypeReadBody
  <1>7. ASSUME NEW m \in Messages, PollEndOfFile(m) PROVE TypeOK'
    BY <1>7, TypePollEndOfFile
  <1>8. CASE PollInterrupted
    <2>1. UNCHANGED <<cur, need, whole, received, echoes, strays>>
      BY <1>8 DEF PollInterrupted, PollFails
    <2> QED BY <1>8, <2>1, TypePollFails DEF TypeOK, PollInterrupted, writerVars, Patience
  <1>9. CASE WriterDies \/ ReaderDies
    BY <1>9 DEF TypeOK, WriterDies, ReaderDies, writerVars, readerVars, Patience
  <1>10. CASE UNCHANGED vars
    BY <1>10 DEF TypeOK, vars, writerVars, readerVars, Patience
  <1>11. ASSUME NEW len \in StrayLens, PollStray(len) PROVE TypeOK'
    BY <1>11, TypePollStray
  <1> QED BY <1>1, <1>2, <1>3, <1>4, <1>5, <1>6, <1>7, <1>8, <1>9, <1>10, <1>11
          DEF Next, Write, Read

-----------------------------------------------------------------------------
(* writeGuard *)

LEMMA CallersAreThreads == Callers \subseteq Threads
  BY DEF Callers, Threads

\* A return releases the guard; nobody else is in a write.
LEMMA GuardReturn ==
  ASSUME TypeOK, GuardInv, NEW t \in Threads, sending[t].active, Return(t)
  PROVE  GuardInv'
  <1>1. /\ sending' = [sending EXCEPT ![t] = NotSending]
        /\ writeGuard' = NoThread /\ writeGuard = t
        /\ sending \in [Threads -> Calls]
    BY DEF Return, GuardInv, TypeOK
  <1>2. ASSUME NEW r \in Threads PROVE ~sending'[r].active
    <2>1. CASE r = t
      BY <1>1, <2>1 DEF NotSending
    <2>2. CASE r # t
      BY <1>1, <2>2 DEF GuardInv
    <2> QED BY <2>1, <2>2
  <1> QED BY <1>1, <1>2, NobodyIsNoThread DEF GuardInv

LEMMA GuardNext ==
  ASSUME TypeOK, GuardInv, [Next]_vars
  PROVE  GuardInv'
  <1> USE CallersAreThreads
  <1>1. ASSUME NEW t \in Callers, NEW m \in Messages, WriteMessage(t, m) PROVE GuardInv'
    <2>1. /\ sending' = [sending EXCEPT ![t] = [active |-> TRUE, msg |-> m, at |-> 0]]
          /\ writeGuard = NoThread /\ writeGuard' = t
          /\ sending \in [Threads -> Calls] /\ t \in Threads
          /\ Last(m) \in Nat
      BY <1>1, LastUnit DEF WriteMessage, TypeOK
    <2>2. ASSUME NEW r \in Threads, r # t PROVE ~sending[r].active /\ sending'[r] = sending[r]
      BY <2>1, <2>2, NobodyIsNoThread DEF GuardInv
    <2>3. sending'[t] = [active |-> TRUE, msg |-> m, at |-> 0]
      BY <2>1
    <2> QED BY <2>1, <2>2, <2>3 DEF GuardInv
  <1>2. ASSUME NEW t \in Callers, WriteUnit(t) PROVE GuardInv'
    <2>1. t \in Threads /\ sending[t].active
      BY <1>2 DEF WriteUnit
    <2>2. CASE Return(t)
      BY <2>1, <2>2, GuardReturn
    <2> DEFINE next == sending[t].at + Len(Piece(t))
    <2>3. CASE /\ next <= Last(sending[t].msg)
               /\ sending' = [sending EXCEPT ![t] = [active |-> TRUE, msg |-> sending[t].msg,
                                                     at |-> next]]
               /\ writeGuard' = writeGuard
      <3>1. sending'[t] = [active |-> TRUE, msg |-> sending[t].msg, at |-> next]
        BY <2>1, <2>3 DEF TypeOK
      <3>2. \A r \in Threads : r # t => sending'[r] = sending[r]
        BY <2>1, <2>3 DEF TypeOK
      <3> QED BY <2>1, <2>3, <3>1, <3>2 DEF GuardInv
    <2> QED BY <1>2, <2>2, <2>3 DEF WriteUnit
  <1>3. ASSUME NEW t \in Callers, WriteBroken(t) PROVE GuardInv'
    <2>1. t \in Threads /\ sending[t].active
      BY <1>3 DEF WriteBroken
    <2>2. CASE Return(t)
      BY <2>1, <2>2, GuardReturn
    <2>3. CASE UNCHANGED <<sending, writeGuard>>
      BY <2>3 DEF GuardInv
    <2> QED BY <1>3, <2>2, <2>3 DEF WriteBroken
  <1>4. ASSUME NEW t \in Callers, WriteInterrupted(t) PROVE GuardInv'
    BY <1>4, GuardReturn DEF WriteInterrupted
  <1>5. CASE UNCHANGED <<sending, writeGuard>>
    BY <1>5 DEF GuardInv
  <1>6. CASE \/ Read \/ PollInterrupted \/ WriterDies \/ ReaderDies
             \/ \E m \in Messages : PollEndOfFile(m)
    BY <1>5, <1>6 DEF Read, PollHeader, PollStray, ReadBody, PollInterrupted, WriterDies,
                  ReaderDies, PollEndOfFile, writerVars
  <1>7. CASE UNCHANGED vars
    BY <1>5, <1>7 DEF vars, writerVars
  <1> QED BY <1>1, <1>2, <1>3, <1>4, <1>6, <1>7 DEF Next, Write

-----------------------------------------------------------------------------
(* Headers in the socket *)

\* The socket after a write, unit by unit.
LEMMA Appended ==
  ASSUME TypeOK, NEW t \in Threads, WriteUnit(t)
  PROVE  /\ Len(stream) \in Nat /\ Len(stream') = Len(stream) + Len(Piece(t))
         /\ stream' # <<>>
         /\ \A i \in 1..Len(stream) : stream'[i] = stream[i] /\ stream[i] \in Units
         /\ \A i \in 1..Len(stream') : i \notin 1..Len(stream) =>
              i - Len(stream) \in 1..Len(Piece(t)) /\ stream'[i] = Piece(t)[i - Len(stream)]
  <1>1. sending[t].active /\ stream' = stream \o Piece(t)
    BY DEF WriteUnit
  <1>2. /\ Piece(t) \in Seq(Units) /\ Len(Piece(t)) \in Nat /\ Len(Piece(t)) >= 1
        /\ stream \in Seq(Units)
    BY <1>1, PieceWritten DEF TypeOK
  <1>p. PICK piece \in Seq(Units) : piece = Piece(t)
    BY <1>2
  <1>3. /\ Len(piece) \in Nat /\ Len(piece) >= 1 /\ stream' = stream \o piece
    BY <1>1, <1>2, <1>p
  <1>4. /\ Len(stream') = Len(stream) + Len(piece)
        /\ \A i \in 1..Len(stream) : stream'[i] = stream[i] /\ stream[i] \in Units
        /\ \A i \in 1..Len(stream') : i \notin 1..Len(stream) =>
             i - Len(stream) \in 1..Len(piece) /\ stream'[i] = piece[i - Len(stream)]
    BY <1>2, <1>3
  <1>5. stream' # <<>>
    BY <1>2, <1>3, <1>4
  <1> QED BY <1>2, <1>4, <1>5, <1>p

LEMMA HeaderWritten ==
  ASSUME TypeOK, HeaderInv, NEW t \in Threads, WriteUnit(t)
  PROVE  HeaderInv'
  <1>n. PICK n \in Nat : n = Len(stream)
    BY Appended
  <1>d. PICK d \in Nat : d = Len(Piece(t))
    BY PieceWritten DEF WriteUnit
  <1>a. PICK a \in Nat : a = sending[t].at
    BY CallFields DEF WriteUnit
  <1>1. Len(stream') = n + d /\ \A i \in 1..n : stream'[i] = stream[i]
    BY <1>d, <1>n, Appended
  <1>2. HeaderLen \in Nat /\ HeaderLen >= 1
    BY HeaderPositive
  <1>3. \A i \in 1..(n + d) : i \notin 1..n =>
           /\ stream'[i].n = IF a = 0 THEN begun + 1 ELSE begun
           /\ stream'[i].k = a + (i - n) - 1
           /\ stream'[i].msg = sending[t].msg
    <2>1. \A i \in 1..(n + d) : i \notin 1..n =>
             i - n \in 1..d /\ stream'[i] = Piece(t)[i - n]
      BY <1>1, <1>d, <1>n, Appended
    <2>2. \A e \in 1..d : /\ Piece(t)[e].n = IF a = 0 THEN begun + 1 ELSE begun
                          /\ Piece(t)[e].k = a + e - 1
                          /\ Piece(t)[e].msg = sending[t].msg
      BY <1>a, <1>d, PieceWritten DEF WriteUnit
    <2> QED BY <2>1, <2>2
  <1>4. a = 0 => d = HeaderLen
    BY <1>a, <1>d, PieceWritten DEF WriteUnit
  <1> SUFFICES ASSUME NEW i \in 1..(n + d), stream'[i].k = 0, NEW j \in 0..(HeaderLen - 1)
               PROVE  /\ i + j \in 1..(n + d)
                      /\ stream'[i + j].n = stream'[i].n /\ stream'[i + j].k = j
                      /\ stream'[i + j].msg = stream'[i].msg
    BY <1>1 DEF HeaderInv
  <1>5. CASE i \in 1..n
    <2>1. stream[i].k = 0
      BY <1>1, <1>5
    <2>2. /\ i + j \in 1..n
          /\ stream[i + j].n = stream[i].n /\ stream[i + j].k = j
          /\ stream[i + j].msg = stream[i].msg
      BY <1>5, <1>n, <2>1 DEF HeaderInv
    <2> QED BY <1>1, <1>5, <2>2
  <1>6. CASE i \notin 1..n
    <2>1. i \in Nat /\ i > n
      BY <1>6
    <2>2. a + (i - n) - 1 = 0
      BY <1>3, <1>6
    <2>3. a = 0 /\ i = n + 1
      BY <2>1, <2>2
    <2>4. i + j \in 1..(n + d) /\ i + j \notin 1..n /\ a + ((i + j) - n) - 1 = j
      BY <1>2, <1>4, <2>3
    <2> QED BY <1>3, <1>6, <2>4
  <1> QED BY <1>5, <1>6

LEMMA HeaderTaken ==
  ASSUME TypeOK, HeaderInv, NEW d \in 1..Len(stream), Taken(d)
  PROVE  HeaderInv'
  <1>1. /\ Len(stream) \in Nat /\ Len(stream') = Len(stream) - d
        /\ \A i \in 1..Len(stream') : i + d \in 1..Len(stream) /\ stream'[i] = stream[i + d]
    BY DEF Taken, TypeOK
  <1>2. HeaderLen \in Nat /\ HeaderLen >= 1
    BY HeaderPositive
  <1> SUFFICES ASSUME NEW i \in 1..Len(stream'), stream'[i].k = 0, NEW j \in 0..(HeaderLen - 1)
               PROVE  /\ i + j \in 1..Len(stream')
                      /\ stream'[i + j].n = stream'[i].n /\ stream'[i + j].k = j
                      /\ stream'[i + j].msg = stream'[i].msg
    BY DEF HeaderInv
  <1>3. /\ (i + d) + j \in 1..Len(stream)
        /\ stream[(i + d) + j].n = stream[i + d].n /\ stream[(i + d) + j].k = j
        /\ stream[(i + d) + j].msg = stream[i + d].msg
    BY <1>1 DEF HeaderInv
  <1>4. i + j \in 1..Len(stream') /\ (i + j) + d = (i + d) + j
    <2>1. i \in Nat /\ i >= 1 /\ j \in Nat /\ d \in Nat /\ Len(stream') \in Nat
      BY <1>1, <1>2
    <2>2. (i + d) + j <= Len(stream)
      BY <1>3
    <2> HIDE DEF HeaderInv
    <2> QED BY <1>1, <2>1, <2>2
  <1> QED BY <1>1, <1>3, <1>4

LEMMA HeaderNext ==
  ASSUME TypeOK, HeaderInv, [Next]_vars
  PROVE  HeaderInv'
  <1>1. CASE UNCHANGED stream
    BY <1>1 DEF HeaderInv
  <1>2. ASSUME NEW t \in Callers, WriteUnit(t) PROVE HeaderInv'
    BY <1>2, HeaderWritten, CallersAreThreads
  <1>3. CASE Read
    <2>1. stream # <<>> /\ (stream' = PastHeader \/ stream' = Tail(stream))
      BY <1>3 DEF Read, PollHeader, PollStray, ReadBody
    <2> QED BY <2>1, SomeTaken, HeaderTaken
  <1>4. ASSUME NEW t \in Callers, WriteBroken(t) \/ WriteInterrupted(t) PROVE HeaderInv'
    BY <1>1, <1>4 DEF WriteBroken, WriteInterrupted
  <1>5. CASE \/ \E t \in Callers, m \in Messages : WriteMessage(t, m)
             \/ \E m \in Messages : PollEndOfFile(m)
             \/ PollInterrupted \/ WriterDies \/ ReaderDies \/ UNCHANGED vars
    BY <1>1, <1>5 DEF WriteMessage, PollEndOfFile, PollInterrupted, WriterDies, ReaderDies, vars
  <1> QED BY <1>2, <1>3, <1>4, <1>5 DEF Next, Write

-----------------------------------------------------------------------------
(* Writing a unit *)

\* The facts about the writer that hold until a write is cut short.
WriterInv == TypeOK /\ GuardInv /\ HeaderInv /\ BegunInv

\* The message that is being written, when part of it is in the socket.
LEMMA PartialMessage ==
  ASSUME WriterInv, Partial
  PROVE  /\ writeGuard \in Threads
         /\ sending[writeGuard].active
         /\ sending[writeGuard].msg \in Messages
         /\ sending[writeGuard].at \in 1..Last(sending[writeGuard].msg)
         /\ Last(sending[writeGuard].msg) \in Nat
  <1>1. writeGuard \in Threads /\ sending[writeGuard].active
    BY DEF WriterInv, TypeOK, GuardInv, Partial
  <1>2. /\ sending[writeGuard].msg \in Messages /\ sending[writeGuard].at \in Nat
        /\ Last(sending[writeGuard].msg) \in Nat
    BY <1>1, CallFields DEF WriterInv
  <1>3. sending[writeGuard].at > 0 /\ sending[writeGuard].at <= Last(sending[writeGuard].msg)
    BY <1>1 DEF WriterInv, GuardInv, Partial
  <1> QED BY <1>1, <1>2, <1>3

\* A unit in the socket, in figures.
LEMMA WrittenUnit ==
  ASSUME WriterInv, NEW u \in Units, Written(u)
  PROVE  /\ u.n \in Nat /\ u.n >= 1 /\ u.n <= begun
         /\ u.k \in Nat /\ u.msg \in Messages
         /\ Last(u.msg) \in Nat /\ u.k <= Last(u.msg)
         /\ u.n > Len(accepted) => /\ Partial /\ u.n = begun
                                   /\ u.msg = sending[writeGuard].msg
                                   /\ u.k < sending[writeGuard].at
  <1>1. u.n \in Nat /\ u.k \in Nat /\ u.msg \in Messages /\ Last(u.msg) \in Nat
    BY LastUnit DEF Units
  <1>2. begun \in Nat /\ Len(accepted) \in Nat
    BY DEF WriterInv, TypeOK
  <1>3. u.n \in 1..begun /\ u.k <= Last(u.msg)
    BY DEF Written
  <1>4. ASSUME u.n > Len(accepted) PROVE /\ Partial /\ u.n = begun
                                         /\ u.msg = sending[writeGuard].msg
                                         /\ u.k < sending[writeGuard].at
    BY <1>1, <1>2, <1>3, <1>4 DEF WriterInv, BegunInv, Written, Content
  <1> QED BY <1>1, <1>2, <1>3, <1>4

\* The last unit of a message is in the socket only once its write is over.
LEMMA LastUnitAccepted ==
  ASSUME WriterInv, NEW u \in Units, Written(u), u.k = Last(u.msg)
  PROVE  u.n \in 1..Len(accepted) /\ u.msg = accepted[u.n]
  <1>1. ~(u.n > Len(accepted))
    BY WrittenUnit, PartialMessage
  <1>2. Len(accepted) \in Nat
    BY DEF WriterInv, TypeOK
  <1>3. u.n \in Nat /\ u.n >= 1 /\ u.msg = Content(u.n)
    BY WrittenUnit DEF Written
  <1> QED BY <1>1, <1>2, <1>3 DEF Content

\* Writing on keeps what is known of the units written before.
LEMMA WriteUnitKeeps ==
  ASSUME WriterInv, StreamInv, BodyInv, NEW t \in Threads, WriteUnit(t)
  PROVE  /\ BegunInv'
         /\ StreamInv'
         /\ BodyInv'
         /\ \/ UNCHANGED accepted
            \/ accepted' = Append(accepted, sending[t].msg) /\ sending[t].msg \in Messages
  <1> DEFINE s == sending[t]
             n == Len(accepted) + 1
             l == Len(stream)
  <1>1. /\ s.active /\ s.msg \in Messages /\ s.at \in Nat /\ Last(s.msg) \in Nat
        /\ s.at <= Last(s.msg)
        /\ writeGuard = t /\ writeGuard # NoThread
    BY CallFields, NobodyIsNoThread DEF WriteUnit, WriterInv, GuardInv
  <1>2. /\ Len(accepted) \in Nat /\ begun \in Nat /\ stream \in Seq(Units)
        /\ accepted \in Seq(Messages) /\ l \in Nat
    BY DEF WriterInv, TypeOK
  <1>a. PICK a \in Nat : a = s.at
    BY <1>1
  <1>3. /\ Partial <=> a > 0
        /\ begun = IF a = 0 THEN Len(accepted) ELSE n
    BY <1>1, <1>a, <1>2 DEF Partial, WriterInv, BegunInv
  <1>d. PICK d \in Nat : d = Len(Piece(t))
    BY <1>1, <1>a, PieceWritten DEF WriterInv
  \* The step writes units a to a + d - 1 of message n.
  <1>4. begun' = n /\ UNCHANGED readerVars
    BY <1>1, <1>a, <1>2, <1>3 DEF WriteUnit
  <1>u. /\ d >= 1 /\ Len(stream') = l + d /\ stream' # <<>>
        /\ \A i \in 1..l : stream'[i] = stream[i] /\ stream[i] \in Units
        /\ \A i \in 1..(l + d) : i \notin 1..l =>
             stream'[i].n = n /\ stream'[i].k = a + (i - l) - 1 /\ stream'[i].msg = s.msg
    <2>1. /\ \A i \in 1..l : stream'[i] = stream[i] /\ stream[i] \in Units
          /\ \A i \in 1..(l + d) : i \notin 1..l =>
               i - l \in 1..d /\ stream'[i] = Piece(t)[i - l]
          /\ Len(stream') = l + d /\ stream' # <<>>
      BY <1>d, Appended DEF WriterInv
    <2>2. /\ d >= 1
          /\ \A i \in 1..d : /\ Piece(t)[i].n = n
                             /\ Piece(t)[i].k = a + i - 1 /\ Piece(t)[i].msg = s.msg
      BY <1>1, <1>a, <1>2, <1>3, <1>d, PieceWritten DEF WriterInv
    <2> QED BY <2>1, <2>2
  <1>5. \/ /\ a + d = Last(s.msg) + 1 /\ accepted' = Append(accepted, s.msg)
           /\ Len(accepted') = n /\ ~Partial'
        \/ /\ a + d <= Last(s.msg) /\ accepted' = accepted
           /\ sending'[t] = [active |-> TRUE, msg |-> s.msg, at |-> a + d]
           /\ writeGuard' = t /\ Partial'
    <2>1. CASE a + d > Last(s.msg) /\ accepted' = Append(accepted, s.msg) /\ Return(t)
      <3>1. a + d <= Last(s.msg) + 1
        <4>1. d = IF a = 0 THEN HeaderLen ELSE 1
          BY <1>1, <1>a, <1>d, PieceWritten DEF WriterInv
        <4> QED BY <1>1, <1>a, <4>1, LastUnit
      <3>2. a + d = Last(s.msg) + 1
        BY <1>1, <1>a, <2>1, <3>1
      <3> QED BY <1>2, <2>1, <3>2 DEF Return, Partial
    <2>2. CASE /\ a + d <= Last(s.msg)
               /\ sending' = [sending EXCEPT ![t] = [active |-> TRUE, msg |-> s.msg,
                                                     at |-> a + d]]
               /\ UNCHANGED <<writeGuard, accepted>>
      <3>1. sending'[t] = [active |-> TRUE, msg |-> s.msg, at |-> a + d]
        BY <2>2 DEF WriterInv, TypeOK
      <3> QED BY <1>1, <1>a, <1>u, <2>2, <3>1 DEF Partial
    <2> QED BY <1>a, <1>d, <2>1, <2>2 DEF WriteUnit
  <1>m. a + d - 1 <= Last(s.msg)
    <2>1. CASE a + d = Last(s.msg) + 1
      BY <1>1, <2>1
    <2>2. CASE a + d <= Last(s.msg)
      BY <1>1, <2>2
    <2> QED BY <1>5, <2>1, <2>2
  <1>6. BegunInv'
    <2>1. CASE Len(accepted') = n /\ ~Partial'
      BY <1>2, <1>4, <2>1 DEF BegunInv
    <2>2. CASE accepted' = accepted /\ Partial'
      BY <1>4, <2>2 DEF BegunInv
    <2> QED BY <1>5, <2>1, <2>2
  <1>7. ASSUME NEW i \in 1..n PROVE Content(i)' = IF i = n THEN s.msg ELSE Content(i)
    <2>1. CASE i = n
      BY <1>1, <1>a, <1>2, <1>5, <2>1 DEF Content
    <2>2. CASE i # n
      BY <1>2, <1>5, <2>2 DEF Content
    <2> QED BY <2>1, <2>2
  <1>8. ASSUME NEW v \in Units, Written(v) PROVE Written(v)'
    <2>1. v.n \in 1..n /\ (v.n = n => v.msg = s.msg /\ v.k < a)
      BY <1>1, <1>a, <1>2, <1>3, <1>8, WrittenUnit
    <2>2. v.msg = Content(v.n)'
      BY <1>7, <1>8, <2>1 DEF Written
    <2>3. v.n > Len(accepted') => v.k < sending'[writeGuard'].at
      BY <1>1, <1>a, <1>2, <1>5, <1>u, <2>1 DEF Units
    <2> QED BY <1>4, <1>8, <2>1, <2>2, <2>3 DEF Written
  <1>9. ASSUME NEW v, NEW j \in 1..d, v.n = n, v.k = a + j - 1, v.msg = s.msg
        PROVE  Written(v)'
    <2>1. n \in 1..n
      BY <1>2
    <2>2. v.msg = Content(v.n)'
      BY <1>7, <1>9, <2>1
    <2>3. v.n > Len(accepted') => v.k < sending'[writeGuard'].at
      <3>1. CASE Len(accepted') = n
        BY <1>2, <1>9, <3>1
      <3>2. CASE sending'[writeGuard'].at = a + d
        <4>1. a + j - 1 < a + d
          OBVIOUS
        <4> QED BY <1>9, <3>2, <4>1
      <3>3. writeGuard' = t /\ sending'[t].at = a + d => sending'[writeGuard'].at = a + d
        OBVIOUS
      <3> QED BY <1>5, <3>1, <3>2, <3>3
    <2>4. v.k <= Last(v.msg)
      <3>1. a + j - 1 <= Last(s.msg)
        BY <1>1, <1>m
      <3> QED BY <1>9, <3>1
    <2> QED BY <1>4, <1>9, <2>1, <2>2, <2>3, <2>4 DEF Written
  <1>10. ASSUME NEW v, v.n = n, v.k = a + d - 1, v.msg = s.msg PROVE Latest(v)'
    <2>1. CASE a + d = Last(s.msg) + 1 /\ ~Partial'
      <3>1. v.k = Last(v.msg)
        <4>1. a + d - 1 = Last(s.msg)
          BY <1>1, <1>a, <2>1
        <4> QED BY <1>10, <4>1
      <3> QED BY <1>4, <1>10, <2>1, <3>1 DEF Latest
    <2>2. CASE Partial' /\ sending'[writeGuard'].at = a + d
      <3>1. sending'[writeGuard'].at = a + d
        BY <1>a, <2>2
      <3>2. v.k = sending'[writeGuard'].at - 1
        BY <1>10, <3>1
      <3> QED BY <1>4, <1>10, <2>2, <3>2 DEF Latest
    <2> QED BY <1>5, <2>1, <2>2
  <1>11. ASSUME stream # <<>>, NEW u, u.n = n, u.k = a PROVE Follows(stream[l], u)
    <2> DEFINE v == stream[l]
    <2>1. v \in Units /\ Written(v) /\ Latest(v)
      BY <1>2, <1>11 DEF StreamInv
    <2>2. v.n = begun /\ (IF Partial THEN v.k = a - 1 ELSE v.k = Last(v.msg))
      BY <1>1, <1>a, <2>1 DEF Latest
    <2>3. Partial => v.msg = s.msg
      BY <1>1, <1>a, <1>2, <1>3, <2>1, <2>2, WrittenUnit
    <2>4. Last(v.msg) \in Nat
      BY <2>1, WrittenUnit
    <2>5. CASE Partial
      <3>1. v.n = n /\ v.k = a - 1 /\ v.msg = s.msg
        BY <1>3, <2>2, <2>3, <2>5
      <3>2. a - 1 < Last(s.msg) /\ (a - 1) + 1 = a
        BY <1>1, <1>a
      <3> QED BY <1>11, <3>1, <3>2 DEF Follows
    <2>6. CASE ~Partial
      <3>1. v.n + 1 = n /\ v.k = Last(v.msg) /\ a = 0
        BY <1>3, <2>2, <2>6
      <3>2. ~(v.k < Last(v.msg))
        BY <2>4, <3>1
      <3> QED BY <1>11, <3>1, <3>2 DEF Follows
    <2> QED BY <2>5, <2>6
  <1>12. ASSUME NEW v, Wanted(v) PROVE Wanted(v)'
    BY <1>4, <1>12 DEF Wanted, readerVars
  <1>13. ASSUME stream = <<>>, NEW u, u.n = n, u.k = a PROVE Wanted(u)
    BY <1>1, <1>a, <1>2, <1>3, <1>13 DEF StreamInv, CaughtUp, Wanted, WriterInv, TypeOK
  <1>14. StreamInv'
    <2>1. ASSUME NEW i \in 1..(l + d) PROVE Written(stream[i])'
      <3>1. PICK v : v = stream'[i] /\ Written(v)'
        <4>1. CASE i \in 1..l
          <5>1. Written(stream[i]) /\ stream[i] \in Units /\ stream'[i] = stream[i]
            BY <1>u, <4>1 DEF StreamInv
          <5> QED BY <1>8, <5>1
        <4>2. CASE i \notin 1..l
          <5>1. i - l \in 1..d /\ stream'[i].n = n /\ stream'[i].k = a + (i - l) - 1
                /\ stream'[i].msg = s.msg
            BY <1>2, <1>u, <4>2
          <5> QED BY <1>9, <5>1
        <4> QED BY <4>1, <4>2
      <3> QED BY <3>1 DEF Written, Content
    <2>2. ASSUME NEW i \in 1..(l + d - 1) PROVE Follows(stream'[i], stream'[i + 1])
      <3>1. CASE i \in 1..(l - 1)
        <4>1. i \in 1..l /\ i + 1 \in 1..l
          BY <1>2, <3>1
        <4> QED BY <1>u, <3>1, <4>1 DEF StreamInv
      <3>2. CASE i = l
        <4>1. i + 1 \in 1..(l + d) /\ i + 1 \notin 1..l /\ i \in 1..l
          BY <1>2, <1>u, <3>2
        <4>2. stream'[i + 1].n = n /\ stream'[i + 1].k = a /\ stream'[i] = stream[l]
          BY <1>1, <1>a, <1>2, <1>u, <3>2, <4>1
        <4>3. stream # <<>>
          BY <1>2, <3>2
        <4> QED BY <1>11, <4>2, <4>3
      <3>3. CASE i > l
        <4>1. /\ i \in 1..(l + d) /\ i \notin 1..l
              /\ i + 1 \in 1..(l + d) /\ i + 1 \notin 1..l
          BY <1>2, <1>u, <3>3
        <4>2. /\ stream'[i].n = n /\ stream'[i].k = a + (i - l) - 1
              /\ stream'[i].msg = s.msg
              /\ stream'[i + 1].n = n /\ stream'[i + 1].k = a + ((i + 1) - l) - 1
          BY <1>u, <4>1
        <4>p. PICK e \in Nat : e = i - l /\ e + 1 <= d /\ (i + 1) - l = e + 1
          <5>1. /\ i - l \in Nat /\ (i - l) + 1 <= d /\ (i + 1) - l = (i - l) + 1
            BY <1>2, <3>3
          <5> QED BY <5>1
        <4>3. stream'[i].k < Last(s.msg) /\ stream'[i + 1].k = stream'[i].k + 1
          <5>1. a + e - 1 < Last(s.msg) /\ a + (e + 1) - 1 = (a + e - 1) + 1
            BY <1>1, <1>m, <4>p
          <5> QED BY <4>2, <4>p, <5>1
        <4> QED BY <4>2, <4>3 DEF Follows
      <3> QED BY <1>2, <3>1, <3>2, <3>3
    <2>3. Wanted(stream[1])'
      <3>1. PICK v : v = stream'[1] /\ Wanted(v)
        <4>1. CASE stream # <<>>
          <5>1. 1 \in 1..l
            BY <1>2, <4>1
          <5> QED BY <1>u, <4>1, <5>1 DEF StreamInv
        <4>2. CASE stream = <<>>
          <5>1. l = 0 /\ 1 \in 1..(l + d) /\ 1 \notin 1..l
            BY <1>u, <4>2
          <5>2. stream'[1].n = n /\ stream'[1].k = a
            BY <1>1, <1>a, <1>u, <5>1
          <5> QED BY <1>13, <4>2, <5>2
        <4> QED BY <4>1, <4>2
      <3> QED BY <1>12, <3>1 DEF Wanted
    <2>4. Latest(stream[Len(stream)])'
      <3>1. l + d \in 1..(l + d) /\ l + d \notin 1..l /\ (l + d) - l = d
        BY <1>2, <1>u
      <3>2. /\ stream'[l + d].n = n /\ stream'[l + d].k = a + d - 1
            /\ stream'[l + d].msg = s.msg
        BY <1>a, <1>u, <3>1
      <3>3. PICK v : v = stream'[l + d] /\ Latest(v)'
        BY <1>10, <3>2
      <3> QED BY <1>u, <3>3 DEF Latest, Partial
    <2>5. \A i \in 1..(Len(stream') - 1) : Follows(stream[i], stream[i + 1])'
      BY <1>u, <2>2 DEF Follows
    <2>6. \A i \in 1..Len(stream') : Written(stream[i])'
      BY <1>u, <2>1
    <2> QED BY <1>u, <2>3, <2>4, <2>5, <2>6 DEF StreamInv
  <1>15. BodyInv'
    <2>1. CASE rpc = "body"
      <3>1. cur.n \in 1..begun /\ cur.msg = Content(cur.n) /\ cur \in Units
        BY <2>1 DEF BodyInv, WriterInv, TypeOK
      <3>2. cur.n \in 1..n /\ (cur.n = n => a > 0)
        BY <1>1, <1>a, <1>2, <1>3, <3>1
      <3>3. PICK c : c = cur.n
        OBVIOUS
      <3>4. cur.msg = Content(c)'
        BY <1>1, <1>a, <1>2, <1>7, <3>1, <3>2, <3>3 DEF Content
      <3> QED BY <1>4, <2>1, <3>2, <3>3, <3>4 DEF BodyInv, readerVars, Content
    <2>2. CASE rpc # "body"
      BY <1>4, <2>2 DEF BodyInv, readerVars
    <2> QED BY <2>1, <2>2
  <1> QED BY <1>1, <1>a, <1>5, <1>6, <1>14, <1>15

-----------------------------------------------------------------------------
(* Reading in an intact stream *)

\* Where the reader is once it has read unit u.
After(u) ==
  IF u.k < Last(u.msg)
    THEN /\ rpc' = "body" /\ cur'.n = u.n /\ cur'.msg = u.msg
         /\ need' = Last(u.msg) - u.k
    ELSE /\ rpc' # "body" /\ Len(received') = u.n

\* Reading up to unit d leaves the socket between the reader and the writer.
LEMMA ReadUnitKeeps ==
  ASSUME WriterInv, StreamInv, NEW d \in 1..Len(stream), Taken(d), After(stream[d]),
         UNCHANGED writerVars
  PROVE  StreamInv'
  <1>1. stream \in Seq(Units) /\ Len(stream) \in Nat /\ begun \in Nat
    BY DEF WriterInv, TypeOK
  <1>2. /\ stream' \in Seq(Units) /\ Len(stream') = Len(stream) - d
        /\ \A i \in 1..Len(stream') : i + d \in 1..Len(stream) /\ stream'[i] = stream[i + d]
    BY DEF Taken
  <1>u. PICK u \in Units : u = stream[d] /\ Written(u)
    BY <1>1 DEF StreamInv
  <1>3. /\ u.n \in Nat /\ u.k \in Nat /\ Last(u.msg) \in Nat
        /\ u.k <= Last(u.msg)
    BY <1>u, WrittenUnit DEF WriterInv
  <1>4. ASSUME NEW i \in 1..Len(stream') PROVE Written(stream[i])'
    <2>1. PICK v : v = stream'[i] /\ Written(v)
      BY <1>1, <1>2 DEF StreamInv
    <2> QED BY <2>1 DEF Written, Content, writerVars
  <1>5. ASSUME NEW i \in 1..(Len(stream') - 1) PROVE Follows(stream[i], stream[i + 1])'
    <2>1. /\ i \in 1..Len(stream') /\ i + 1 \in 1..Len(stream')
          /\ i + d \in 1..(Len(stream) - 1) /\ (i + 1) + d = (i + d) + 1
      BY <1>1, <1>2
    <2>2. Follows(stream[i + d], stream[(i + d) + 1])
      BY <2>1 DEF StreamInv
    <2>3. stream'[i] = stream[i + d] /\ stream'[i + 1] = stream[(i + 1) + d]
      BY <1>2, <2>1
    <2> QED BY <2>1, <2>2, <2>3 DEF Follows
  <1>6. CASE stream' # <<>>
    <2>1. /\ d \in 1..(Len(stream) - 1) /\ 1 \in 1..Len(stream')
          /\ Len(stream') \in 1..Len(stream') /\ Len(stream') + d = Len(stream)
          /\ 1 + d = d + 1 /\ stream # <<>>
      BY <1>1, <1>2, <1>6
    <2>t. stream'[1] = stream[d + 1] /\ stream'[Len(stream')] = stream[Len(stream)]
      BY <1>2, <2>1
    <2>2. PICK v \in Units : v = stream'[1] /\ Follows(u, v)
      <3>1. Follows(stream[d], stream[d + 1])
        BY <2>1 DEF StreamInv
      <3> QED BY <1>2, <1>u, <2>1, <2>t, <3>1
    <2>3. Wanted(v)'
      <3>1. CASE u.k < Last(u.msg)
        <4>1. /\ rpc' = "body" /\ cur'.n = u.n /\ cur'.msg = u.msg
              /\ need' = Last(u.msg) - u.k
          BY <1>u, <3>1 DEF After
        <4>2. v.n = u.n /\ v.k = u.k + 1
          BY <2>2, <3>1 DEF Follows
        <4>3. u.k + 1 = Last(cur'.msg) - need' + 1
          BY <1>3, <4>1
        <4> QED BY <4>1, <4>2, <4>3 DEF Wanted
      <3>2. CASE ~(u.k < Last(u.msg))
        BY <1>3, <1>u, <2>2, <3>2 DEF Follows, Wanted, After
      <3> QED BY <3>1, <3>2
    <2>4. Wanted(stream[1])'
      BY <2>2, <2>3 DEF Wanted
    <2>5. PICK w : w = stream'[Len(stream')] /\ Latest(w)
      BY <2>1, <2>t DEF StreamInv
    <2>6. Latest(stream[Len(stream)])'
      BY <2>5 DEF Latest, Partial, writerVars
    <2> QED BY <1>4, <1>5, <1>6, <2>4, <2>6 DEF StreamInv
  <1>7. CASE stream' = <<>>
    <2>1. Len(stream) = d /\ stream # <<>>
      <3>1. Len(stream') = 0
        BY <1>2, <1>7, EmptySeq
      <3> QED BY <1>1, <1>2, <3>1
    <2>2. Latest(u)
      BY <1>u, <2>1 DEF StreamInv
    <2>3. Partial' <=> Partial
      BY DEF Partial, writerVars
    <2>4. CASE Partial
      <3>1. /\ sending[writeGuard].at \in 1..Last(sending[writeGuard].msg)
            /\ Last(sending[writeGuard].msg) \in Nat
        BY <2>4, PartialMessage
      <3>2. u.msg = sending[writeGuard].msg
        BY <1>1, <1>u, <2>2, <2>4, WrittenUnit DEF WriterInv, BegunInv, TypeOK, Latest
      <3>3. u.n = begun /\ u.k = sending[writeGuard].at - 1 /\ u.k < Last(u.msg)
        BY <2>2, <2>4, <3>1, <3>2 DEF Latest
      <3>4. CaughtUp'
        <4>1. /\ rpc' = "body" /\ cur'.n = u.n /\ cur'.msg = u.msg
              /\ need' = Last(u.msg) - u.k
          BY <1>u, <3>3 DEF After
        <4>2. Last(cur'.msg) - need' + 1 = u.k + 1
          BY <1>3, <4>1
        <4>3. u.k + 1 = sending[writeGuard].at
          BY <3>1, <3>3
        <4> QED BY <2>3, <2>4, <3>3, <4>1, <4>2, <4>3 DEF CaughtUp, writerVars
      <3> QED BY <1>4, <1>5, <1>7, <3>4 DEF StreamInv
    <2>5. CASE ~Partial
      <3>1. u.n = begun /\ u.k = Last(u.msg)
        BY <2>2, <2>5 DEF Latest
      <3>2. CaughtUp'
        <4>1. rpc' # "body" /\ Len(received') = u.n
          BY <1>3, <1>u, <3>1 DEF After
        <4> QED BY <2>3, <2>5, <3>1, <4>1 DEF CaughtUp, writerVars
      <3> QED BY <1>4, <1>5, <1>7, <3>2 DEF StreamInv
    <2> QED BY <2>4, <2>5
  <1> QED BY <1>6, <1>7

\* pollMessage returns the next message of the channel.
Received ==
  /\ Len(received) < Len(accepted)
  /\ received' = Append(received, accepted[Len(received) + 1])

\* The header at the front of the socket, and where reading it leads.
LEMMA HeaderAtFront ==
  ASSUME TypeOK, HeaderInv, stream # <<>>, stream[1].k = 0, stream' = PastHeader
  PROVE  /\ HeaderLen \in 1..Len(stream) /\ Taken(HeaderLen)
         /\ stream[HeaderLen].n = stream[1].n /\ stream[HeaderLen].k = HeaderLen - 1
         /\ stream[HeaderLen].msg = stream[1].msg
  <1>1. 1 \in 1..Len(stream) /\ Len(stream) \in Nat
    BY HeadInStream DEF TypeOK
  <1>2. HeaderLen \in Nat /\ HeaderLen >= 1
    BY HeaderPositive
  <1>3. HeaderLen - 1 \in 0..(HeaderLen - 1) /\ 1 + (HeaderLen - 1) = HeaderLen
    BY <1>2
  <1>4. /\ 1 + (HeaderLen - 1) \in 1..Len(stream)
        /\ stream[1 + (HeaderLen - 1)].n = stream[1].n
        /\ stream[1 + (HeaderLen - 1)].k = HeaderLen - 1
        /\ stream[1 + (HeaderLen - 1)].msg = stream[1].msg
    BY <1>1, <1>3 DEF HeaderInv
  <1>5. HeaderLen <= Len(stream)
    BY <1>1, <1>2, <1>3, <1>4
  <1> QED BY <1>3, <1>4, <1>5, ReadTakes

\* A read in an intact stream goes on with a message or returns the next one.
LEMMA PollHeaderKeeps ==
  ASSUME WriterInv, StreamInv, PollHeader
  PROVE  /\ StreamInv' /\ BodyInv'
         /\ received' = received \/ Received
  <1>1. /\ rpc = "poll" /\ stream # <<>> /\ stream' = PastHeader
        /\ UNCHANGED writerVars
    BY DEF PollHeader
  <1>u. PICK u \in Units : u = stream[1] /\ u = Head(stream) /\ Written(u)
    BY <1>1, HeadInStream DEF StreamInv, WriterInv, TypeOK
  <1>2. u.n = Len(received) + 1 /\ u.k = 0
    BY <1>1, <1>u DEF StreamInv, Wanted
  <1>3. TakeHeader(u)
    BY <1>u, <1>2 DEF PollHeader
  <1>4. /\ u.n \in Nat /\ Last(u.msg) \in Nat /\ Len(received) \in Nat
        /\ u.msg \in Messages /\ received \in Seq(Messages \cup {Torn})
        /\ accepted \in Seq(Messages)
        /\ BodyLen[u.msg] \in Nat /\ HeaderLen \in Nat /\ HeaderLen >= 1
        /\ Last(u.msg) = HeaderLen - 1 + BodyLen[u.msg]
    BY <1>u, WrittenUnit, LastUnit DEF WriterInv, TypeOK
  <1>w. /\ HeaderLen \in 1..Len(stream) /\ Taken(HeaderLen)
        /\ stream[HeaderLen].n = u.n /\ stream[HeaderLen].k = HeaderLen - 1
        /\ stream[HeaderLen].msg = u.msg
    BY <1>1, <1>2, <1>u, HeaderAtFront DEF WriterInv
  <1>x. PICK w \in Units : w = stream[HeaderLen] /\ Written(w)
    BY <1>w DEF StreamInv, WriterInv, TypeOK
  <1>5. CASE BodyLen[u.msg] = 0 /\ Deliver(u.msg)
    <2>1. rpc' = "poll" /\ received' = Append(received, u.msg)
      BY <1>5 DEF Deliver
    <2>2. After(w)
      BY <1>2, <1>4, <1>5, <1>w, <1>x, <2>1 DEF After
    <2>3. u.n \in 1..Len(accepted) /\ u.msg = accepted[u.n]
      BY <1>4, <1>5, <1>w, <1>x, LastUnitAccepted
    <2>4. Received
      BY <1>2, <1>4, <2>1, <2>3 DEF Received
    <2> QED BY <1>1, <1>w, <1>x, <2>1, <2>2, <2>4, ReadUnitKeeps DEF BodyInv
  <1>6. CASE BodyLen[u.msg] > 0 /\ rpc' = "body" /\ UNCHANGED <<received, errors>>
    <2>1. cur' = u /\ need' = BodyLen[u.msg] /\ whole'
      BY <1>3 DEF TakeHeader
    <2>2. After(w)
      <3>1. w.k < Last(w.msg) /\ BodyLen[u.msg] = Last(w.msg) - w.k
        BY <1>4, <1>6, <1>w, <1>x
      <3> QED BY <1>6, <1>w, <1>x, <2>1, <3>1 DEF After
    <2>3. need' \in 1..Last(cur'.msg)
      BY <1>4, <1>6, <2>1
    <2>4. BodyInv'
      BY <1>1, <1>2, <1>4, <1>6, <1>u, <2>1, <2>3 DEF BodyInv, Written, Content, writerVars
    <2> QED BY <1>1, <1>6, <1>w, <1>x, <2>2, <2>4, ReadUnitKeeps
  <1> QED BY <1>3, <1>5, <1>6 DEF TakeHeader

LEMMA ReadBodyKeeps ==
  ASSUME WriterInv, StreamInv, BodyInv, ReadBody
  PROVE  /\ StreamInv' /\ BodyInv'
         /\ received' = received \/ Received
  <1>1. /\ rpc = "body" /\ stream # <<>> /\ stream' = Tail(stream)
        /\ UNCHANGED writerVars /\ cur' = cur /\ need' = need - 1
    BY DEF ReadBody
  <1>t. 1 \in 1..Len(stream) /\ Taken(1)
    BY <1>1, ReadTakes DEF WriterInv
  <1>u. PICK u \in Units : u = stream[1] /\ u = Head(stream) /\ Written(u)
    BY <1>1, HeadInStream DEF StreamInv, WriterInv, TypeOK
  <1>2. /\ u.n \in Nat /\ u.k \in Nat /\ Last(u.msg) \in Nat /\ Len(received) \in Nat
        /\ u.msg \in Messages /\ received \in Seq(Messages \cup {Torn})
        /\ accepted \in Seq(Messages)
    BY <1>u, WrittenUnit DEF WriterInv, TypeOK
  <1>3. u.n = cur.n /\ u.k = Last(cur.msg) - need + 1 /\ u.msg = cur.msg
    BY <1>1, <1>u DEF StreamInv, Wanted, BodyInv, Written
  <1>4. need \in 1..Last(u.msg) /\ whole /\ cur.n = Len(received) + 1
    BY <1>1, <1>3 DEF BodyInv
  <1>5. u = [n |-> cur.n, k |-> Last(cur.msg) - need + 1, msg |-> cur.msg]
    BY <1>3 DEF Units
  <1>6. /\ whole'
        /\ \/ need = 1 /\ Deliver(cur.msg)
           \/ need > 1 /\ UNCHANGED <<rpc, received, errors>>
    BY <1>4, <1>5, <1>u DEF ReadBody
  <1>7. CASE need = 1 /\ Deliver(cur.msg)
    <2>1. rpc' = "poll" /\ received' = Append(received, u.msg)
      BY <1>3, <1>7 DEF Deliver
    <2>2. u.k = Last(u.msg)
      BY <1>2, <1>3, <1>7
    <2>3. After(u)
      BY <1>2, <1>3, <1>4, <2>1, <2>2 DEF After
    <2>4. u.n \in 1..Len(accepted) /\ u.msg = accepted[u.n]
      BY <1>u, <2>2, LastUnitAccepted
    <2>5. Received
      BY <1>2, <1>3, <1>4, <2>1, <2>4 DEF Received
    <2> QED BY <1>1, <1>t, <1>u, <2>1, <2>3, <2>5, ReadUnitKeeps DEF BodyInv
  <1>8. CASE need > 1 /\ UNCHANGED <<rpc, received, errors>>
    <2>1. After(u)
      BY <1>1, <1>2, <1>3, <1>4, <1>8 DEF After
    <2>2. cur.n \in 1..begun /\ cur.msg = Content(cur.n)
      BY <1>1 DEF BodyInv
    <2>3. need' \in 1..Last(cur.msg)
      BY <1>1, <1>2, <1>3, <1>4, <1>8
    <2>4. BodyInv'
      BY <1>1, <1>4, <1>6, <1>8, <2>2, <2>3 DEF BodyInv, Content, writerVars
    <2> QED BY <1>1, <1>8, <1>t, <1>u, <2>1, <2>4, ReadUnitKeeps
  <1> QED BY <1>6, <1>7, <1>8

-----------------------------------------------------------------------------
(* The invariant *)

\* With no message partly in the socket, before and after, the units in the socket
\* do not depend on who holds writeGuard.
LEMMA NothingPartialKeeps ==
  ASSUME WriterInv, ~Partial, ~Partial', StreamInv, BodyInv,
         UNCHANGED <<begun, accepted, stream, readerVars>>
  PROVE  BegunInv' /\ StreamInv' /\ BodyInv'
  <1>1. begun = Len(accepted) /\ begun \in Nat
    BY DEF WriterInv, BegunInv, TypeOK
  <1>2. BegunInv'
    BY <1>1 DEF BegunInv
  <1>3. ASSUME NEW i \in 1..begun PROVE Content(i)' = Content(i)
    BY <1>1 DEF Content
  <1>4. ASSUME NEW u, Written(u) PROVE Written(u)'
    <2>1. u.n \in 1..begun /\ u.n <= Len(accepted)
      BY <1>1, <1>4 DEF Written
    <2> QED BY <1>1, <1>3, <1>4, <2>1 DEF Written
  <1>5. ASSUME NEW i \in 1..Len(stream) PROVE Written(stream[i])'
    <2>1. PICK u : u = stream[i] /\ Written(u)
      BY DEF StreamInv
    <2>2. Written(u)'
      BY <1>4, <2>1
    <2> QED BY <2>1, <2>2 DEF Written, Content
  <1>6. StreamInv'
    BY <1>5 DEF StreamInv, Follows, Wanted, Latest, CaughtUp, readerVars
  <1>7. BodyInv'
    <2>1. CASE rpc = "body"
      <3>1. PICK c : c = cur.n /\ c \in 1..begun
        BY <2>1 DEF BodyInv
      <3>2. Content(c)' = Content(c)
        BY <1>3, <3>1
      <3> QED BY <2>1, <3>1, <3>2 DEF BodyInv, readerVars, Content
    <2>2. CASE rpc # "body"
      BY <2>2 DEF BodyInv, readerVars
    <2> QED BY <2>1, <2>2
  <1> QED BY <1>2, <1>6, <1>7

LEMMA InvInit == Init => IInv
  <1> SUFFICES ASSUME Init PROVE IInv
    OBVIOUS
  <1>1. TypeOK
    BY TypeInit
  <1>2. GuardInv
    BY NobodyIsNoThread DEF Init, GuardInv, NotSending
  <1>3. ~Partial
    BY DEF Init, Partial
  <1>4. BegunInv /\ EchoInv /\ HeaderInv
    BY <1>3 DEF Init, BegunInv, EchoInv, HeaderInv
  <1>5. BodyInv /\ StreamInv
    BY <1>3 DEF Init, BodyInv, StreamInv, CaughtUp
  <1> QED BY <1>1, <1>2, <1>4, <1>5 DEF IInv, IntactInv, SoundInv

\* What is known before a step that finds the stream intact and its reader there.
LEMMA IntactFacts ==
  ASSUME IInv, cuts = 0, readerUp
  PROVE  /\ WriterInv /\ EchoInv
         /\ echoes = 0 => StreamInv /\ BodyInv
         /\ writerUp \/ stream # <<>> => echoes = 0
  BY DEF IInv, IntactInv, SoundInv, WriterInv, EchoInv, TypeOK

\* A step of a writer keeps the invariant and is a step of MessageChannel.
LEMMA WriterStep ==
  ASSUME IInv, cuts = 0, NEW t \in Callers,
         WriteUnit(t) \/ WriteBroken(t) \/ WriteInterrupted(t)
                      \/ \E m \in Messages : WriteMessage(t, m)
  PROVE  IntactInv' /\ [Channel!Next]_Channel!channelVars
  <1>t. t \in Threads
    BY CallersAreThreads
  <1>1. CASE WriteUnit(t)
    <2>1. readerUp /\ writerUp /\ UNCHANGED <<cuts, readerUp, writerUp, readerVars>>
      BY <1>1 DEF WriteUnit
    <2>2. WriterInv /\ StreamInv /\ BodyInv /\ echoes = 0
      BY <2>1, IntactFacts
    <2>3. /\ BegunInv' /\ StreamInv' /\ BodyInv'
          /\ \/ UNCHANGED accepted
             \/ \E m \in Messages : accepted' = Append(accepted, m)
      BY <1>1, <1>t, <2>2, WriteUnitKeeps
    <2>4. IntactInv'
      BY <2>1, <2>2, <2>3 DEF IntactInv, SoundInv, EchoInv, readerVars
    <2>5. [Channel!Next]_Channel!channelVars
      BY <2>1, <2>3 DEF Channel!Next, Channel!Accept, Channel!channelVars, readerVars
    <2> QED BY <2>4, <2>5
  <1>2. CASE WriteBroken(t)
    <2>1. ~readerUp' /\ UNCHANGED <<accepted, received, cuts>>
          /\ (writerUp' = writerUp \/ writerUp' = FALSE)
      BY <1>2 DEF WriteBroken, readerVars
    <2>2. [Channel!Next]_Channel!channelVars
      BY <2>1 DEF Channel!Next, Channel!Close, Channel!channelVars
    <2> QED BY <2>1, <2>2 DEF IntactInv
  <1>3. CASE WriteInterrupted(t)
    <2>1. /\ readerUp /\ writerUp /\ sending[t].active /\ Return(t)
          /\ UNCHANGED <<begun, accepted, stream, readerVars, readerUp, writerUp>>
      BY <1>3 DEF WriteInterrupted
    <2>2. WriterInv /\ StreamInv /\ BodyInv /\ echoes = 0
      BY <2>1, IntactFacts
    <2>3. writeGuard = t /\ ~Partial' /\ sending[t].at \in Nat
      BY <1>t, <2>1, <2>2, CallFields DEF Return, Partial, WriterInv, GuardInv
    <2>4. CASE sending[t].at > 0
      <3>1. cuts' = 1
        BY <1>3, <2>4 DEF WriteInterrupted
      <3>2. [Channel!Next]_Channel!channelVars
        BY <2>1, <3>1 DEF Channel!Next, Channel!Cut, Channel!channelVars, readerVars
      <3> QED BY <3>1, <3>2 DEF IntactInv
    <2>5. CASE ~(sending[t].at > 0)
      <3>1. ~Partial /\ cuts' = cuts
        BY <1>3, <2>3, <2>5 DEF Partial, WriteInterrupted
      <3>2. BegunInv' /\ StreamInv' /\ BodyInv'
        BY <2>1, <2>2, <2>3, <3>1, NothingPartialKeeps
      <3>3. IntactInv'
        BY <2>1, <2>2, <3>2 DEF IntactInv, SoundInv, EchoInv, readerVars
      <3> QED BY <2>1, <3>1, <3>3 DEF Channel!channelVars, readerVars
    <2> QED BY <2>4, <2>5
  <1>4. ASSUME NEW m \in Messages, WriteMessage(t, m)
        PROVE  IntactInv' /\ [Channel!Next]_Channel!channelVars
    <2>1. /\ writerUp /\ writeGuard = NoThread
          /\ UNCHANGED <<begun, accepted, cuts, stream, readerVars, readerUp, writerUp>>
          /\ writeGuard' = t
          /\ sending' = [sending EXCEPT ![t] = [active |-> TRUE, msg |-> m, at |-> 0]]
      BY <1>4 DEF WriteMessage
    <2>2. ~Partial /\ ~Partial'
      BY <1>t, <2>1 DEF Partial, IInv, TypeOK
    <2>3. ASSUME readerUp
          PROVE  BegunInv' /\ EchoInv' /\ SoundInv'
      <3>1. WriterInv /\ StreamInv /\ BodyInv /\ echoes = 0
        BY <2>1, <2>3, IntactFacts
      <3>2. BegunInv' /\ StreamInv' /\ BodyInv'
        BY <2>1, <2>2, <3>1, NothingPartialKeeps
      <3> QED BY <2>1, <3>1, <3>2 DEF SoundInv, EchoInv, readerVars
    <2> QED BY <2>1, <2>3 DEF IntactInv, Channel!channelVars, readerVars
  <1> QED BY <1>1, <1>2, <1>3, <1>4

\* So does a step of the reader.
LEMMA ReaderStep ==
  ASSUME IInv, cuts = 0,
         Read \/ PollInterrupted \/ \E m \in Messages : PollEndOfFile(m)
  PROVE  IntactInv' /\ [Channel!Next]_Channel!channelVars
  <1>1. CASE Read
    <2>1. /\ readerUp /\ stream # <<>>
          /\ UNCHANGED <<writerVars, readerUp, writerUp, echoes>>
      BY <1>1 DEF Read, PollHeader, PollStray, ReadBody, TakeHeader, PollFails
    <2>2. WriterInv /\ StreamInv /\ BodyInv /\ echoes = 0
      BY <2>1, IntactFacts
    <2>s. ASSUME NEW len \in StrayLens, PollStray(len) PROVE FALSE
      <3>1. Head(stream).k = 0
        BY <2>1, <2>2, <2>s, HeadInStream DEF PollStray, StreamInv, Wanted, WriterInv
      <3> QED BY <2>s, <3>1 DEF PollStray
    <2>3. StreamInv' /\ BodyInv' /\ (received' = received \/ Received)
      BY <1>1, <2>2, <2>s, PollHeaderKeeps, ReadBodyKeeps DEF Read
    <2>4. BegunInv'
      BY <2>1, <2>2 DEF WriterInv, BegunInv, Partial, writerVars
    <2>5. IntactInv'
      BY <2>1, <2>2, <2>3, <2>4 DEF IntactInv, SoundInv, EchoInv
    <2>6. [Channel!Next]_Channel!channelVars
      BY <2>1, <2>3 DEF Channel!Next, Channel!Receive, Channel!channelVars, Received,
                        writerVars
    <2> QED BY <2>5, <2>6
  <1>2. CASE PollInterrupted
    <2>1. /\ readerUp /\ rpc = "poll" /\ rpc' # "body"
          /\ UNCHANGED <<writerVars, stream, readerUp, writerUp, cur, need, whole,
                         received, echoes>>
      BY <1>2 DEF PollInterrupted, PollFails
    <2>2. WriterInv /\ EchoInv /\ (echoes = 0 => StreamInv /\ BodyInv)
      BY <2>1, IntactFacts
    <2>3. BegunInv' /\ EchoInv' /\ BodyInv'
      BY <2>1, <2>2 DEF WriterInv, BegunInv, Partial, EchoInv, BodyInv, writerVars
    <2>4. StreamInv => StreamInv'
      BY <2>1 DEF StreamInv, Written, Content, Follows, Wanted, Latest, CaughtUp, Partial,
                  writerVars
    <2>5. IntactInv'
      BY <2>1, <2>2, <2>3, <2>4 DEF IntactInv, SoundInv
    <2> QED BY <2>1, <2>5 DEF Channel!channelVars, writerVars
  <1>3. ASSUME NEW m \in Messages, PollEndOfFile(m)
        PROVE  IntactInv' /\ [Channel!Next]_Channel!channelVars
    <2>1. /\ readerUp /\ ~writerUp /\ rpc = "poll" /\ stream = <<>> /\ echoes' = echoes + 1
          /\ UNCHANGED <<writerVars, stream, readerUp, writerUp>>
          /\ received' = received \/ received' = Append(received, m)
      BY <1>3 DEF PollEndOfFile, TakeHeader, Deliver
    <2>2. WriterInv /\ EchoInv /\ (echoes = 0 => StreamInv)
      BY <2>1, IntactFacts
    <2>3. /\ received \in Seq(Messages \cup {Torn}) /\ Len(received) \in Nat
          /\ Len(accepted) \in Nat /\ echoes \in Nat
      BY DEF IInv, TypeOK
    <2>4. Len(received) >= Len(accepted)
      BY <2>1, <2>2, <2>3 DEF EchoInv, StreamInv, CaughtUp, WriterInv, BegunInv
    <2>5. Len(received') >= Len(accepted)
      BY <2>1, <2>3, <2>4
    <2>6. BegunInv' /\ EchoInv' /\ SoundInv'
      BY <2>1, <2>2, <2>3, <2>5 DEF WriterInv, BegunInv, Partial, EchoInv, SoundInv, writerVars
    <2>7. [Channel!Next]_Channel!channelVars
      BY <2>1, <2>4 DEF Channel!Next, Channel!Echo, Channel!channelVars, writerVars
    <2> QED BY <2>6, <2>7 DEF IntactInv
  <1> QED BY <1>1, <1>2, <1>3

LEMMA IntactStep ==
  ASSUME IInv, cuts = 0, [Next]_vars
  PROVE  IntactInv' /\ [Channel!Next]_Channel!channelVars
  <1>1. CASE \/ \E t \in Callers, m \in Messages : WriteMessage(t, m)
             \/ \E t \in Callers : Write(t) \/ WriteInterrupted(t)
    BY <1>1, WriterStep DEF Write
  <1>2. CASE Read \/ PollInterrupted \/ \E m \in Messages : PollEndOfFile(m)
    BY <1>2, ReaderStep
  <1>3. ASSUME UNCHANGED <<writerVars, stream, readerVars>>, readerUp' => readerUp,
               writerUp' = writerUp \/ ~writerUp'
        PROVE  IntactInv' /\ [Channel!Next]_Channel!channelVars
    <2>1. BegunInv /\ EchoInv /\ SoundInv => (BegunInv /\ EchoInv /\ SoundInv)'
      BY <1>3 DEF BegunInv, EchoInv, SoundInv, BodyInv, StreamInv, Written, Content, Follows,
                  Wanted, Latest, CaughtUp, Partial, writerVars, readerVars
    <2>2. IntactInv'
      BY <1>3, <2>1 DEF IInv, IntactInv, writerVars
    <2>3. [Channel!Next]_Channel!channelVars
      BY <1>3 DEF Channel!Next, Channel!Close, Channel!channelVars, writerVars, readerVars
    <2> QED BY <2>2, <2>3
  <1>4. CASE WriterDies \/ ReaderDies \/ UNCHANGED vars
    <2>1. UNCHANGED <<writerVars, stream, readerVars>> /\ (readerUp' => readerUp)
          /\ (writerUp' = writerUp \/ ~writerUp')
      BY <1>4 DEF WriterDies, ReaderDies, vars
    <2> QED BY <1>3, <2>1
  <1> QED BY <1>1, <1>2, <1>4 DEF Next

\* A stream out of step stays so.
LEMMA CutsStay ==
  ASSUME TypeOK, cuts # 0, [Next]_vars
  PROVE  cuts' # 0
  <1>1. ASSUME NEW t, WriteInterrupted(t) PROVE cuts' # 0
    BY <1>1 DEF WriteInterrupted, TypeOK
  <1>2. CASE UNCHANGED cuts
    BY <1>2
  <1>3. CASE \/ \E t \in Callers, m \in Messages : WriteMessage(t, m)
             \/ \E t \in Callers : Write(t)
    BY <1>2, <1>3 DEF Write, WriteMessage, WriteUnit, WriteBroken
  <1>4. CASE Read \/ PollInterrupted \/ \E m \in Messages : PollEndOfFile(m)
    BY <1>2, <1>4 DEF Read, PollHeader, PollStray, ReadBody, PollEndOfFile, PollInterrupted,
                  writerVars
  <1>5. CASE WriterDies \/ ReaderDies \/ UNCHANGED vars
    BY <1>2, <1>5 DEF WriterDies, ReaderDies, vars, writerVars
  <1> QED BY <1>1, <1>3, <1>4, <1>5 DEF Next

LEMMA InvNext == IInv /\ [Next]_vars => IInv'
  <1> SUFFICES ASSUME IInv, [Next]_vars PROVE IInv'
    OBVIOUS
  <1>1. TypeOK' /\ GuardInv' /\ HeaderInv'
    BY TypeNext, GuardNext, HeaderNext DEF IInv
  <1>2. IntactInv'
    BY IntactStep, CutsStay DEF IInv, IntactInv
  <1> QED BY <1>1, <1>2 DEF IInv

LEMMA StepImplements == IInv /\ [Next]_vars => [Channel!Next]_Channel!channelVars
  <1> SUFFICES ASSUME IInv, [Next]_vars PROVE [Channel!Next]_Channel!channelVars
    OBVIOUS
  <1>1. CASE cuts = 0
    BY <1>1, IntactStep
  <1>2. CASE cuts # 0
    <2>1. cuts' # 0
      BY <1>2, CutsStay DEF IInv
    <2> QED BY <1>2, <2>1 DEF Channel!Next, Channel!OutOfStep
  <1> QED BY <1>1, <1>2

LEMMA InvHolds == Spec => []IInv
  BY InvInit, InvNext, PTL DEF Spec

-----------------------------------------------------------------------------
(* After a cut *)

\* Unit v is the one the writer of u wrote after u, in the same message.
Continues(u, v) == v.n = u.n /\ v.k = u.k + 1 /\ v.msg = u.msg

\* With F the messages cut short: unit u is followed by another message only at
\* its message's end, or at a cut.
Ended(F, u) == u.k = Last(u.msg) \/ u.n \in F
Linked(F, u, v) == Continues(u, v) \/ (v.n > u.n /\ Ended(F, u))

\* The unit a writer in the middle of a message writes next, and what that says of
\* the unit written last.
NextUnit == [n |-> begun, k |-> sending[writeGuard].at, msg |-> sending[writeGuard].msg]
Latter(F, u) == IF Partial THEN Continues(u, NextUnit) ELSE Ended(F, u)

\* The last unit read, while all that was read belongs to the message of cur.
LastRead == [n |-> cur.n, k |-> Last(cur.msg) - need, msg |-> cur.msg]
InBody == rpc = "body" /\ echoes = 0 /\ cur.k = 0

\* The reader is in the body of a message nobody wrote.
InStray == rpc = "body" /\ cur.k # 0

\* The places of torn messages in what was read.
TornAt == {i \in DOMAIN received : received[i] = Torn}

\* F are the messages cut short, and C those of them that a torn message is put
\* down to: the reader has left them behind.  The other torn ones had no header.
CutSets(F, C) ==
  /\ Cardinality(F) = cuts
  /\ Cardinality(TornAt) + (IF InStray THEN 1 ELSE 0) <= Cardinality(C) + strays
  /\ Partial => begun \in (1..begun) \ F
  /\ \A c \in C : /\ c < begun
                  /\ InBody => c < cur.n
                  /\ \A i \in 1..Len(stream) : c < stream[i].n

\* The units in the socket are in the order of their messages, and a message
\* that lacks its end was cut.
StreamCut(F) ==
  /\ \A i \in 1..Len(stream) : stream[i].n \in 1..begun
  /\ \A i, j \in 1..Len(stream) : i <= j => stream[i].n <= stream[j].n
  /\ \A i \in 1..(Len(stream) - 1) : Linked(F, stream[i], stream[i + 1])
  /\ stream # <<>> => Latter(F, stream[Len(stream)])

\* A reader in the middle of a body is where the socket goes on, unless its message
\* was cut: then it has run, or will run, into a later one.  What follows bytes that
\* were no header is never taken for a whole message.
ReaderCut(F) ==
  /\ InBody =>
       /\ need \in 1..Last(cur.msg)
       /\ cur.n \in 1..begun
       /\ whole => IF stream = <<>> THEN Latter(F, LastRead)
                                    ELSE Linked(F, LastRead, stream[1])
       /\ ~whole => /\ cur.n \in F /\ cur.n < begun
                    /\ \A i \in 1..Len(stream) : cur.n < stream[i].n
  /\ InStray => ~whole

\* Nothing is read after the end of file.
EndInv == echoes > 0 => ~writerUp /\ stream = <<>>

CutInv(F, C) == CutSets(F, C) /\ StreamCut(F) /\ ReaderCut(F)

TornInv ==
  /\ TornOncePerCut
  /\ readerUp => EndInv /\ \E F \in SUBSET (1..begun) : \E C \in SUBSET F : CutInv(F, C)

\* Sets of message numbers, or of places in what was read, are finite.
LEMMA MessageSets ==
  ASSUME NEW n \in Nat, NEW F \in SUBSET (1..n), NEW C \in SUBSET F
  PROVE  IsFiniteSet(F) /\ IsFiniteSet(C) /\ Cardinality(C) <= Cardinality(F)
  <1>0. n \in Int /\ 1 \in Int
    OBVIOUS
  <1>1. IsFiniteSet(F)
    BY <1>0, FS_Interval, FS_Subset
  <1> QED BY <1>1, FS_Subset

LEMMA TornFinite ==
  ASSUME TypeOK
  PROVE  IsFiniteSet(TornAt) /\ Cardinality(TornAt) \in Nat
  <1>1. received \in Seq(Messages \cup {Torn}) /\ Len(received) \in Nat
    BY DEF TypeOK
  <1>2. TornAt \in SUBSET (1..Len(received))
    BY <1>1 DEF TornAt
  <1>3. IsFiniteSet(TornAt)
    BY <1>1, <1>2, MessageSets
  <1> QED BY <1>3, FS_CardinalityType

\* Returning a message adds to the torn ones, or does not.
LEMMA TornGrows ==
  ASSUME TypeOK, NEW m \in Messages \cup {Torn}, received' = Append(received, m)
  PROVE  /\ IsFiniteSet(TornAt) /\ Cardinality(TornAt) \in Nat
         /\ m = Torn => Cardinality(TornAt') = Cardinality(TornAt) + 1
         /\ m # Torn => TornAt' = TornAt
  <1> DEFINE n == Len(received)
  <1>1. received \in Seq(Messages \cup {Torn}) /\ n \in Nat
    BY DEF TypeOK
  <1>2. TornAt \in SUBSET (1..n)
    BY <1>1 DEF TornAt
  <1>3. IsFiniteSet(TornAt) /\ Cardinality(TornAt) \in Nat
    BY TornFinite
  <1>4. /\ DOMAIN received' = 1..(n + 1) /\ DOMAIN received = 1..n
        /\ \A i \in 1..n : received'[i] = received[i]
        /\ received'[n + 1] = m
    BY <1>1
  <1>5. m = Torn => TornAt' = TornAt \cup {n + 1}
    BY <1>1, <1>4 DEF TornAt
  <1>6. m # Torn => TornAt' = TornAt
    BY <1>1, <1>4 DEF TornAt
  <1>7. n + 1 \notin TornAt
    BY <1>1, <1>2
  <1>8. m = Torn => Cardinality(TornAt') = Cardinality(TornAt) + 1
    BY <1>3, <1>5, <1>7, FS_AddElement
  <1> QED BY <1>3, <1>6, <1>8

\* What is known before a step that finds the reader there.
CutBefore(F, C) ==
  /\ TypeOK /\ GuardInv /\ HeaderInv /\ EndInv /\ readerUp
  /\ F \in SUBSET (1..begun) /\ C \in SUBSET F
  /\ CutInv(F, C)

\* The writer goes on, or starts a new message: no break that was not cut.
LEMMA WriteUnitCut ==
  ASSUME NEW F, NEW C, CutBefore(F, C), NEW t \in Threads, WriteUnit(t)
  PROVE  CutInv(F, C)' /\ EndInv' /\ (F \in SUBSET (1..begun))'
  <1> DEFINE s == sending[t]
  <1>1. /\ s.active /\ s.msg \in Messages /\ s.at \in Nat /\ Last(s.msg) \in Nat
        /\ s.at <= Last(s.msg)
        /\ writeGuard = t /\ writeGuard # NoThread
    BY CallFields, NobodyIsNoThread DEF WriteUnit, GuardInv, CutBefore
  <1>2. /\ begun \in Nat /\ stream \in Seq(Units) /\ sending \in [Threads -> Calls]
        /\ echoes = 0 /\ F \subseteq 1..begun /\ C \subseteq F
    BY DEF WriteUnit, CutBefore, EndInv, TypeOK
  <1>a. PICK a \in Nat : a = s.at
    BY <1>1
  <1>l. PICK l \in Nat : l = Len(stream)
    BY <1>2
  <1>d. PICK d \in Nat : d = Len(Piece(t)) /\ d >= 1 /\ d = IF a = 0 THEN HeaderLen ELSE 1
    BY <1>1, <1>a, PieceWritten DEF CutBefore
  <1>m. PICK m \in Messages : m = s.msg
    BY <1>1
  <1>3. Partial <=> a > 0
    BY <1>1, <1>a DEF Partial
  \* The step writes units a to a + d - 1 of message n.
  <1>n. PICK n \in Nat : n = IF a = 0 THEN begun + 1 ELSE begun
    BY <1>2
  <1>4. /\ begun' = n
        /\ UNCHANGED <<cuts, rpc, cur, need, whole, received, echoes, strays, writerUp>>
    BY <1>a, <1>n DEF WriteUnit, readerVars
  <1>v. /\ Len(stream') = l + d /\ stream' # <<>>
        /\ \A i \in 1..l : stream'[i] = stream[i] /\ stream[i] \in Units
        /\ \A i \in 1..(l + d) : i \notin 1..l =>
             stream'[i].n = n /\ stream'[i].k = a + (i - l) - 1 /\ stream'[i].msg = m
    <2>1. /\ \A i \in 1..l : stream'[i] = stream[i] /\ stream[i] \in Units
          /\ \A i \in 1..(l + d) : i \notin 1..l =>
               i - l \in 1..d /\ stream'[i] = Piece(t)[i - l]
          /\ Len(stream') = l + d /\ stream' # <<>>
      BY <1>d, <1>l, Appended DEF CutBefore
    <2>2. \A e \in 1..d : /\ Piece(t)[e].n = n
                          /\ Piece(t)[e].k = a + e - 1 /\ Piece(t)[e].msg = m
      BY <1>1, <1>a, <1>d, <1>m, <1>n, PieceWritten DEF CutBefore
    <2> QED BY <2>1, <2>2
  <1>p. Partial => begun \in 1..begun /\ begun \notin F
    BY DEF CutBefore, CutInv, CutSets
  <1>q. begun <= n /\ n \in 1..n /\ n \notin F
    BY <1>2, <1>3, <1>n, <1>p
  <1>7. ASSUME NEW u, u.n \in Nat, u.n <= begun, Latter(F, u), NEW v, v.n = n, v.k = a, v.msg = m
        PROVE  Linked(F, u, v)
    <2>1. CASE Partial
      BY <1>1, <1>3, <1>7, <1>a, <1>m, <1>n, <2>1 DEF Latter, Linked, Continues, NextUnit
    <2>2. CASE ~Partial
      BY <1>2, <1>3, <1>7, <1>n, <2>2 DEF Latter, Linked
    <2> QED BY <2>1, <2>2
  <1>8. ASSUME NEW v, v.n = n, v.k = a + d - 1, v.msg = m PROVE Latter(F, v)'
    <2>1. CASE a + d > Last(m) /\ Return(t)
      <3>1. a + d - 1 = Last(m)
        <4>1. /\ Last(m) \in Nat /\ Last(m) = HeaderLen - 1 + BodyLen[m] /\ BodyLen[m] \in Nat
              /\ HeaderLen \in Nat
          BY LastUnit
        <4>2. a <= Last(m)
          BY <1>1, <1>a, <1>m
        <4> QED BY <1>d, <2>1, <4>1, <4>2
      <3> QED BY <1>8, <2>1, <3>1 DEF Return, Latter, Partial, Ended
    <2>2. CASE sending' = [sending EXCEPT ![t] = [active |-> TRUE, msg |-> m, at |-> a + d]]
               /\ writeGuard' = writeGuard
      <3>1. sending'[t] = [active |-> TRUE, msg |-> m, at |-> a + d]
        BY <1>2, <2>2
      <3>2. Partial' /\ NextUnit' = [n |-> n, k |-> a + d, msg |-> m]
        BY <1>1, <1>4, <1>d, <2>2, <3>1 DEF Partial, NextUnit
      <3>3. a + d = (a + d - 1) + 1
        OBVIOUS
      <3> QED BY <1>8, <3>2, <3>3 DEF Latter, Continues
    <2> QED BY <1>a, <1>d, <1>m, <2>1, <2>2 DEF WriteUnit
  <1>9. l + 1 \in 1..(l + d) /\ l + 1 \notin 1..l
    BY <1>d
  <1>f. stream'[l + 1].n = n /\ stream'[l + 1].k = a /\ stream'[l + 1].msg = m
    <2>1. a + ((l + 1) - l) - 1 = a
      OBVIOUS
    <2> QED BY <1>9, <1>v, <2>1
  <1>u. \A u \in Units : u.n \in Nat
    BY DEF Units
  <1>w. \A i \in 1..(l + d) : stream'[i].n = n \/ (i \in 1..l /\ stream'[i] = stream[i])
    BY <1>v
  <1>10. StreamCut(F)'
    <2>1. \A i \in 1..l : stream[i].n \in 1..begun
      BY <1>l DEF CutBefore, CutInv, StreamCut
    <2>2. \A i \in 1..(l + d) : stream'[i].n \in 1..n
      <3>1. \A i \in 1..l : stream[i].n \in 1..n
        BY <1>2, <1>q, <2>1
      <3> QED BY <1>q, <1>w, <3>1
    <2>3. \A i, j \in 1..(l + d) : i <= j => stream'[i].n <= stream'[j].n
      <3>1. \A i, j \in 1..l : i <= j => stream[i].n <= stream[j].n
        BY <1>l DEF CutBefore, CutInv, StreamCut
      <3>2. SUFFICES ASSUME NEW i \in 1..(l + d), NEW j \in 1..(l + d), i <= j
                     PROVE  stream'[i].n <= stream'[j].n
        OBVIOUS
      <3>3. CASE j \notin 1..l
        <4>1. stream'[j].n = n
          BY <1>v, <3>3
        <4>2. stream'[i].n \in 1..n
          BY <2>2
        <4> QED BY <4>1, <4>2
      <3>4. CASE j \in 1..l
        <4>1. i \in 1..l
          BY <3>2, <3>4
        <4> QED BY <1>v, <3>1, <3>2, <3>4, <4>1
      <3> QED BY <3>3, <3>4
    <2>4. \A i \in 1..(l + d - 1) : Linked(F, stream'[i], stream'[i + 1])
      <3>1. SUFFICES ASSUME NEW i \in 1..(l + d - 1) PROVE Linked(F, stream'[i], stream'[i + 1])
        OBVIOUS
      <3>2. CASE i = l
        <4>0. i \in 1..l /\ stream # <<>> /\ i + 1 = l + 1
          BY <1>2, <1>l, <3>2
        <4>1. Latter(F, stream[i])
          BY <1>l, <3>2, <4>0 DEF CutBefore, CutInv, StreamCut
        <4>2. stream[i].n \in Nat /\ stream[i].n <= begun
          BY <1>2, <2>1, <4>0
        <4>3. stream'[i] = stream[i]
          BY <1>v, <4>0
        <4> QED BY <1>7, <1>f, <4>0, <4>1, <4>2, <4>3
      <3>3. CASE i < l
        <4>1. i \in 1..(l - 1) /\ i \in 1..l /\ i + 1 \in 1..l
          BY <3>3
        <4>2. Linked(F, stream[i], stream[i + 1])
          BY <1>l, <4>1 DEF CutBefore, CutInv, StreamCut
        <4> QED BY <1>v, <4>1, <4>2
      <3>4. CASE i > l
        <4>1. /\ i \in 1..(l + d) /\ i \notin 1..l
              /\ i + 1 \in 1..(l + d) /\ i + 1 \notin 1..l
              /\ a + ((i + 1) - l) - 1 = (a + (i - l) - 1) + 1
          BY <3>4
        <4> QED BY <1>v, <4>1 DEF Linked, Continues
      <3> QED BY <3>2, <3>3, <3>4
    <2>5. Latter(F, stream[Len(stream)])'
      <3>1. l + d \in 1..(l + d) /\ l + d \notin 1..l /\ a + ((l + d) - l) - 1 = a + d - 1
        BY <1>d
      <3>2. PICK v : v = stream'[l + d] /\ Latter(F, v)'
        BY <1>8, <1>v, <3>1
      <3> QED BY <1>v, <3>2 DEF Latter, Continues, Ended
    <2>6. (\A i \in 1..Len(stream) : stream[i].n \in 1..begun)'
      BY <1>4, <1>v, <2>2
    <2>7. (\A i, j \in 1..Len(stream) : i <= j => stream[i].n <= stream[j].n)'
      BY <1>v, <2>3
    <2>8. (\A i \in 1..(Len(stream) - 1) : Linked(F, stream[i], stream[i + 1]))'
      BY <1>v, <2>4 DEF Linked, Continues, Ended
    <2> QED BY <2>5, <2>6, <2>7, <2>8 DEF StreamCut
  <1>11. CutSets(F, C)'
    <2>1. Partial' => begun' \in (1..begun') \ F
      BY <1>4, <1>q
    <2>2. ASSUME NEW c \in C
          PROVE  /\ c < begun' /\ (InBody' => c < cur'.n)
                 /\ \A i \in 1..Len(stream') : c < stream'[i].n
      <3>1. c \in Nat /\ c < begun /\ (InBody => c < cur.n)
            /\ \A i \in 1..l : c < stream[i].n
        BY <1>2, <1>l DEF CutBefore, CutInv, CutSets
      <3>2. InBody' = InBody
        BY <1>4 DEF InBody
      <3>3. c < n
        BY <1>2, <1>q, <3>1
      <3>4. \A i \in 1..(l + d) : c < stream'[i].n
        BY <1>w, <3>1, <3>3
      <3> QED BY <1>4, <1>v, <3>1, <3>2, <3>3, <3>4
    <2>3. UNCHANGED <<TornAt, InStray>>
      BY <1>4 DEF TornAt, InStray
    <2> QED BY <1>4, <2>1, <2>2, <2>3 DEF CutBefore, CutInv, CutSets
  <1>12. ReaderCut(F)'
    <2>0. UNCHANGED <<InBody, InStray, LastRead>>
      BY <1>4 DEF InBody, InStray, LastRead
    <2>s. InStray' => ~whole'
      BY <1>4, <2>0 DEF CutBefore, CutInv, ReaderCut
    <2> SUFFICES ASSUME InBody PROVE ReaderCut(F)'
      BY <2>0, <2>s DEF ReaderCut
    <2>1. need \in 1..Last(cur.msg) /\ cur.n \in 1..begun /\ cur.n \in Nat
      BY <1>2 DEF CutBefore, CutInv, ReaderCut
    <2>2. cur'.n \in 1..begun'
      BY <1>2, <1>4, <1>q, <2>1
    <2>3. ASSUME whole PROVE Linked(F, LastRead, stream'[1])
      <3>1. CASE stream = <<>>
        <4>1. Latter(F, LastRead)
          BY <2>3, <3>1 DEF CutBefore, CutInv, ReaderCut
        <4>2. LastRead.n \in Nat /\ LastRead.n <= begun
          BY <1>2, <2>1 DEF LastRead
        <4>3. l = 0 /\ l + 1 = 1
          BY <1>l, <3>1
        <4> QED BY <1>7, <1>f, <4>1, <4>2, <4>3
      <3>2. CASE stream # <<>>
        <4>1. 1 \in 1..l
          BY <1>2, <1>l, <3>2
        <4>2. stream'[1] = stream[1]
          BY <1>v, <4>1
        <4> QED BY <2>3, <3>2, <4>2 DEF CutBefore, CutInv, ReaderCut
      <3> QED BY <3>1, <3>2
    <2>4. ASSUME ~whole
          PROVE  cur.n \in F /\ cur.n < begun' /\ \A i \in 1..Len(stream') : cur.n < stream'[i].n
      <3>1. cur.n \in F /\ cur.n < begun /\ \A i \in 1..l : cur.n < stream[i].n
        BY <1>l, <2>4 DEF CutBefore, CutInv, ReaderCut
      <3>2. cur.n < n
        BY <1>2, <1>q, <2>1, <3>1
      <3>3. \A i \in 1..(l + d) : cur.n < stream'[i].n
        BY <1>w, <3>1, <3>2
      <3> QED BY <1>4, <1>v, <3>1, <3>2, <3>3
    <2>5. need' \in 1..Last(cur'.msg)
      BY <1>4, <2>1
    <2>6. whole' => Linked(F, LastRead, stream[1])'
      BY <1>4, <2>0, <2>3 DEF Linked, Continues, Ended
    <2> QED BY <1>4, <1>v, <2>2, <2>4, <2>5, <2>6, <2>s DEF ReaderCut
  <1>13. EndInv'
    BY <1>2, <1>4 DEF EndInv
  <1>14. F \in SUBSET (1..begun')
    BY <1>2, <1>4, <1>q
  <1> QED BY <1>10, <1>11, <1>12, <1>13, <1>14 DEF CutInv

\* A call that leaves the socket as it was and no message partly written.
LEMMA CallCut ==
  ASSUME NEW F, NEW C, CutBefore(F, C), ~Partial, ~Partial',
         UNCHANGED <<begun, cuts, stream, readerVars, writerUp>>
  PROVE  CutInv(F, C)' /\ EndInv'
  <1>1. UNCHANGED <<InBody, InStray, LastRead, TornAt>>
    BY DEF InBody, InStray, LastRead, TornAt, readerVars
  <1>2. CutSets(F, C)'
    BY <1>1 DEF CutBefore, CutInv, CutSets, readerVars
  <1>3. \A u : Latter(F, u) => Ended(F, u)
    BY DEF Latter
  <1>4. stream # <<>> => Latter(F, stream[Len(stream)])'
    BY <1>3 DEF CutBefore, CutInv, StreamCut, Latter, Ended
  <1>5. StreamCut(F)'
    BY <1>4 DEF CutBefore, CutInv, StreamCut, Linked, Continues, Ended
  <1>6. stream = <<>> => (Latter(F, LastRead) => Latter(F, LastRead)')
    BY <1>1, <1>3 DEF Latter, Ended
  <1>7. Linked(F, LastRead, stream[1]) => Linked(F, LastRead, stream[1])'
    BY <1>1 DEF Linked, Continues, Ended
  <1>8. ReaderCut(F)'
    BY <1>1, <1>6, <1>7 DEF CutBefore, CutInv, ReaderCut, readerVars
  <1>9. EndInv'
    BY DEF CutBefore, EndInv, readerVars
  <1> QED BY <1>2, <1>5, <1>8, <1>9 DEF CutInv

\* An interrupted write adds its message to the ones cut, when part of it is out.
LEMMA InterruptedCut ==
  ASSUME NEW F, NEW C, CutBefore(F, C), NEW t \in Threads, WriteInterrupted(t)
  PROVE  \E G \in SUBSET (1..begun) : C \in SUBSET G /\ CutInv(G, C)' /\ EndInv'
  <1>1. /\ sending[t].active /\ Return(t)
        /\ UNCHANGED <<begun, stream, readerVars, writerUp>>
        /\ cuts' = IF sending[t].at > 0 THEN cuts + 1 ELSE cuts
    BY DEF WriteInterrupted
  <1>2. /\ writeGuard = t /\ writeGuard # NoThread /\ ~Partial' /\ begun \in Nat
        /\ F \in SUBSET (1..begun) /\ C \in SUBSET F
    BY <1>1, NobodyIsNoThread DEF Return, Partial, CutBefore, GuardInv, TypeOK
  <1>3. Partial <=> sending[t].at > 0
    BY <1>2 DEF Partial
  <1>4. CASE ~Partial
    <2>1. cuts' = cuts
      BY <1>1, <1>3, <1>4
    <2> QED BY <1>1, <1>2, <1>4, <2>1, CallCut
  <1>5. CASE Partial
    <2>g. PICK G : G = F \cup {begun}
      OBVIOUS
    <2>1. begun \in 1..begun /\ begun \notin F
      BY <1>5 DEF CutBefore, CutInv, CutSets
    <2>2. IsFiniteSet(F) /\ Cardinality(F) = cuts
          /\ Cardinality(TornAt) + (IF InStray THEN 1 ELSE 0) <= Cardinality(C) + strays
      BY <1>2, MessageSets DEF CutBefore, CutInv, CutSets
    <2>3. Cardinality(G) = cuts'
      BY <1>1, <1>3, <1>5, <2>1, <2>2, <2>g, FS_AddElement
    <2>4. G \in SUBSET (1..begun) /\ C \in SUBSET G
      BY <1>2, <2>1, <2>g
    <2>5. UNCHANGED <<InBody, InStray, LastRead, TornAt>>
      BY <1>1 DEF InBody, InStray, LastRead, TornAt, readerVars
    <2>6. CutSets(G, C)'
      <3>1. \A c \in C : /\ c < begun
                         /\ InBody => c < cur.n
                         /\ \A i \in 1..Len(stream) : c < stream[i].n
        BY DEF CutBefore, CutInv, CutSets
      <3> QED BY <1>1, <1>2, <2>2, <2>3, <2>5, <3>1 DEF CutSets, readerVars
    <2>7. \A u : Latter(F, u) => Latter(G, u)'
      BY <1>2, <1>5, <2>g DEF Latter, Continues, NextUnit, Ended
    <2>8. \A u, v : Linked(F, u, v) => Linked(G, u, v)
      BY <2>g DEF Linked, Ended
    <2>9. StreamCut(G)'
      <3>1. StreamCut(F)
        BY DEF CutBefore, CutInv
      <3>2. stream # <<>> => Latter(G, stream[Len(stream)])'
        <4>1. PICK u : u = stream[Len(stream)]
          OBVIOUS
        <4>2. stream # <<>> => Latter(G, u)'
          BY <2>7, <3>1, <4>1 DEF StreamCut
        <4>3. stream'[Len(stream')] = u
          BY <1>1, <4>1
        <4>4. ~Partial'
          BY <1>2
        <4> QED BY <1>1, <4>2, <4>3, <4>4 DEF Latter, Ended
      <3>3. \A i \in 1..(Len(stream) - 1) : Linked(G, stream[i], stream[i + 1])
        BY <2>8, <3>1 DEF StreamCut
      <3> QED BY <1>1, <3>1, <3>2, <3>3 DEF StreamCut, Linked, Continues, Ended
    <2>10. ReaderCut(G)'
      <3>0. InStray' => ~whole'
        BY <1>1, <2>5 DEF CutBefore, CutInv, ReaderCut, readerVars
      <3> SUFFICES ASSUME InBody PROVE ReaderCut(G)'
        BY <2>5, <3>0 DEF ReaderCut
      <3>1. /\ need \in 1..Last(cur.msg)
            /\ cur.n \in 1..begun
            /\ whole => IF stream = <<>> THEN Latter(F, LastRead)
                                         ELSE Linked(F, LastRead, stream[1])
            /\ ~whole => /\ cur.n \in F /\ cur.n < begun
                         /\ \A i \in 1..Len(stream) : cur.n < stream[i].n
        BY DEF CutBefore, CutInv, ReaderCut
      <3>2. PICK l : l = LastRead
        OBVIOUS
      <3>3. Latter(F, l) => Latter(G, l)'
        BY <2>7
      <3>4. Latter(G, l)' => Latter(G, LastRead)'
        BY <2>5, <3>2 DEF Latter, Ended, Continues
      <3>5. Linked(F, LastRead, stream[1]) => Linked(G, LastRead, stream[1])
        BY <2>8
      <3>6. Linked(G, LastRead, stream[1]) => Linked(G, LastRead, stream[1])'
        BY <1>1, <2>5 DEF Linked, Ended, Continues
      <3>7. whole' => IF stream' = <<>> THEN Latter(G, LastRead)'
                                        ELSE Linked(G, LastRead, stream[1])'
        BY <1>1, <3>1, <3>2, <3>3, <3>4, <3>5, <3>6 DEF readerVars
      <3>8. ~whole' => /\ cur'.n \in G /\ cur'.n < begun'
                       /\ \A i \in 1..Len(stream') : cur'.n < stream'[i].n
        BY <1>1, <2>g, <3>1 DEF readerVars
      <3> QED BY <1>1, <3>0, <3>1, <3>7, <3>8 DEF ReaderCut, readerVars
    <2>11. EndInv'
      BY <1>1 DEF CutBefore, EndInv, readerVars
    <2>12. CutInv(G, C)'
      BY <2>6, <2>9, <2>10 DEF CutInv
    <2> QED BY <2>4, <2>11, <2>12
  <1> QED BY <1>4, <1>5

\* What the reader leaves in the socket when it takes units 1 to d, and what the
\* last of them has to do with the next one.
LEMMA TakeUnit ==
  ASSUME NEW F, NEW C, CutBefore(F, C), NEW d \in 1..Len(stream), Taken(d),
         UNCHANGED writerVars
  PROVE  LET u == stream[d]
         IN  /\ u \in Units /\ u.n \in 1..begun
             /\ StreamCut(F)'
             /\ \A i \in 1..Len(stream') : u.n <= stream'[i].n
             /\ IF stream' = <<>> THEN Latter(F, u) ELSE Linked(F, u, stream'[1])
             /\ \A x : (\A i \in 1..Len(stream) : x < stream[i].n)
                         => \A i \in 1..Len(stream') : x < stream'[i].n
  <1>n. PICK n \in Nat : n = Len(stream)
    BY DEF CutBefore, TypeOK
  <1>r. PICK r \in Nat : r = n - d
    <2>1. d \in 1..n
      BY <1>n
    <2>2. n - d \in Nat
      BY <2>1
    <2> QED BY <2>2
  <1>1. /\ stream \in Seq(Units) /\ n >= 1 /\ d \in 1..n /\ d + r = n
        /\ stream' \in Seq(Units) /\ stream # <<>>
    BY <1>n, <1>r DEF CutBefore, TypeOK, Taken
  <1>2. /\ Len(stream') = r
        /\ \A i \in 1..r : stream'[i] = stream[i + d] /\ i + d \in 1..n
        /\ stream[d] \in Units
    BY <1>1, <1>n, <1>r DEF Taken
  <1>3. /\ \A i \in 1..n : stream[i].n \in 1..begun
        /\ \A i, j \in 1..n : i <= j => stream[i].n <= stream[j].n
        /\ \A i \in 1..(n - 1) : Linked(F, stream[i], stream[i + 1])
        /\ Latter(F, stream[n])
    BY <1>1, <1>n DEF CutBefore, CutInv, StreamCut
  <1>4. \A i \in 1..r : stream[d].n <= stream'[i].n
    <2>1. \A i \in 1..r : d <= i + d
      BY <1>1
    <2> QED BY <1>1, <1>2, <1>3, <2>1
  <1>5. ASSUME stream' = <<>> PROVE Latter(F, stream[d])
    <2>1. n = d
      BY <1>1, <1>2, <1>5
    <2> QED BY <1>3, <2>1
  <1>6. ASSUME stream' # <<>> PROVE Linked(F, stream[d], stream'[1])
    <2>2. r >= 1
      BY <1>1, <1>2, <1>6
    <2>3. d \in 1..(n - 1) /\ 1 \in 1..r /\ 1 + d = d + 1
      BY <1>1, <2>2
    <2> QED BY <1>2, <1>3, <2>3
  <1>7. UNCHANGED <<begun, Partial, NextUnit>>
    BY DEF writerVars, Partial, NextUnit
  <1>8. StreamCut(F)'
    <2>1. \A i \in 1..r : stream'[i].n \in 1..begun
      BY <1>2, <1>3
    <2>2. \A i, j \in 1..r : i <= j => stream'[i].n <= stream'[j].n
      <3>1. \A i, j \in 1..r : i <= j => i + d <= j + d
        BY <1>1
      <3> QED BY <1>2, <1>3, <3>1
    <2>3. \A i \in 1..(r - 1) : Linked(F, stream'[i], stream'[i + 1])
      <3>1. SUFFICES ASSUME NEW i \in 1..(r - 1) PROVE Linked(F, stream'[i], stream'[i + 1])
        OBVIOUS
      <3>2. /\ i \in 1..r /\ i + 1 \in 1..r /\ i + d \in 1..(n - 1)
            /\ (i + 1) + d = (i + d) + 1
        BY <1>1
      <3>3. stream'[i] = stream[i + d] /\ stream'[i + 1] = stream[(i + d) + 1]
        <4>1. stream'[i + 1] = stream[(i + 1) + d]
          BY <1>2, <3>2
        <4> QED BY <1>2, <3>2, <4>1
      <3> QED BY <1>3, <3>2, <3>3
    <2>4. ASSUME stream' # <<>> PROVE Latter(F, stream'[Len(stream')])
      <3>1. r \in 1..r /\ r + d = n
        BY <1>1, <1>2, <2>4
      <3>2. stream'[r] = stream[n]
        <4>1. stream'[r] = stream[r + d]
          BY <1>2, <3>1
        <4> QED BY <3>1, <4>1
      <3> QED BY <1>2, <1>3, <3>2
    <2>6. (\A i \in 1..(Len(stream) - 1) : Linked(F, stream[i], stream[i + 1]))'
      BY <1>2, <2>3 DEF Linked, Ended, Continues
    <2>7. stream' # <<>> => Latter(F, stream[Len(stream)])'
      BY <1>7, <2>4 DEF Latter, Ended, Continues
    <2>8. (\A i, j \in 1..Len(stream) : i <= j => stream[i].n <= stream[j].n)'
      BY <1>2, <2>2
    <2>9. (\A i \in 1..Len(stream) : stream[i].n \in 1..begun)'
      BY <1>2, <1>7, <2>1
    <2> QED BY <2>6, <2>7, <2>8, <2>9 DEF StreamCut
  <1>9. ASSUME NEW x, \A i \in 1..n : x < stream[i].n
        PROVE  \A i \in 1..r : x < stream'[i].n
    BY <1>2, <1>9
  <1>10. stream[d].n \in 1..begun
    BY <1>1, <1>3
  <1> QED BY <1>2, <1>4, <1>5, <1>6, <1>8, <1>9, <1>10, <1>n

\* What stays true of the messages left behind, whatever a read takes.
LEMMA LeftBehind ==
  ASSUME NEW F, NEW C, CutBefore(F, C), NEW d \in 1..Len(stream), Taken(d),
         UNCHANGED <<writerVars, writerUp, echoes>>
  PROVE  /\ EndInv' /\ begun' = begun /\ StreamCut(F)'
         /\ ~InBody' /\ Cardinality(TornAt') + (IF InStray' THEN 1 ELSE 0)
                         <= Cardinality(C) + strays'
              => CutSets(F, C)'
  <1>1. /\ stream \in Seq(Units) /\ stream # <<>>
        /\ UNCHANGED <<Partial, begun, cuts>>
    BY DEF CutBefore, TypeOK, writerVars, Partial
  <1>2. EndInv' /\ StreamCut(F)'
    BY <1>1, TakeUnit DEF CutBefore, EndInv
  <1>3. ASSUME NEW c \in C PROVE c < begun /\ \A i \in 1..Len(stream') : c < stream'[i].n
    <2>1. c < begun /\ \A i \in 1..Len(stream) : c < stream[i].n
      BY DEF CutBefore, CutInv, CutSets
    <2> QED BY <2>1, TakeUnit
  <1> QED BY <1>1, <1>2, <1>3 DEF CutBefore, CutInv, CutSets

\* A header starts a new account; anything else read as one is thrown away.
LEMMA PollHeaderCut ==
  ASSUME NEW F, NEW C, CutBefore(F, C), PollHeader
  PROVE  CutInv(F, C)' /\ EndInv' /\ begun' = begun
  <1>1. /\ rpc = "poll" /\ stream # <<>> /\ stream' = PastHeader
        /\ UNCHANGED <<writerVars, writerUp, echoes, strays>> /\ ~InStray
    BY DEF PollHeader, PollFails, InStray
  <1>2. TypeOK /\ HeaderInv
    BY DEF CutBefore
  <1>d. PICK d \in 1..Len(stream) : Taken(d)
    BY <1>1, <1>2, SomeTaken
  <1>3. EndInv' /\ begun' = begun /\ StreamCut(F)'
    BY <1>1, <1>d, LeftBehind
  <1>4. ASSUME ~InBody', ~InStray', TornAt' = TornAt PROVE CutInv(F, C)'
    <2>1. Cardinality(TornAt') + (IF InStray' THEN 1 ELSE 0) <= Cardinality(C) + strays'
      BY <1>1, <1>4 DEF CutBefore, CutInv, CutSets
    <2>2. CutSets(F, C)'
      BY <1>1, <1>4, <1>d, <2>1, LeftBehind
    <2> QED BY <1>3, <1>4, <2>2 DEF CutInv, ReaderCut
  <1>9. CASE PollFails
    <2>1. ~InBody' /\ ~InStray' /\ TornAt' = TornAt
      BY <1>9 DEF PollFails, InBody, InStray, TornAt
    <2> QED BY <1>3, <1>4, <2>1
  <1>u. PICK u \in Units : u = Head(stream) /\ u = stream[1]
    BY <1>1, <1>2, HeadInStream
  <1>m. /\ u.msg \in Messages /\ u.n \in Nat /\ u.k \in Nat
        /\ Last(u.msg) \in Nat /\ BodyLen[u.msg] \in Nat /\ HeaderLen \in Nat /\ HeaderLen >= 1
        /\ Last(u.msg) = HeaderLen - 1 + BodyLen[u.msg]
    BY LastUnit DEF Units
  <1>10. CASE u.k = 0 /\ Deliver(u.msg)
    <2>1. ~InBody' /\ ~InStray' /\ received' = Append(received, u.msg)
      BY <1>10 DEF Deliver, InBody, InStray
    <2>2. TornAt' = TornAt
      BY <1>2, <1>m, <2>1, TornGrows, TornIsNoMessage
    <2> QED BY <1>3, <1>4, <2>1, <2>2
  <1>11. CASE /\ u.k = 0 /\ cur' = u /\ need' = BodyLen[u.msg] /\ whole'
              /\ BodyLen[u.msg] > 0 /\ rpc' = "body" /\ UNCHANGED <<received, errors>>
    <2>h. /\ HeaderLen \in 1..Len(stream) /\ Taken(HeaderLen)
          /\ stream[HeaderLen].n = u.n /\ stream[HeaderLen].k = HeaderLen - 1
          /\ stream[HeaderLen].msg = u.msg
      BY <1>1, <1>2, <1>11, <1>u, HeaderAtFront
    <2>w. PICK w \in Units :
            /\ w = stream[HeaderLen] /\ w.n \in 1..begun
            /\ IF stream' = <<>> THEN Latter(F, w) ELSE Linked(F, w, stream'[1])
      BY <1>1, <2>h, TakeUnit
    <2>1. UNCHANGED <<TornAt, cuts, Partial, NextUnit>> /\ cur'.n = u.n /\ ~InStray'
      BY <1>1, <1>11 DEF TornAt, InStray, Partial, NextUnit, writerVars
    <2>2. LastRead'.n = w.n /\ LastRead'.k = w.k /\ LastRead'.msg = w.msg
      <3>1. Last(u.msg) - BodyLen[u.msg] = HeaderLen - 1
        BY <1>m
      <3> QED BY <1>11, <2>h, <2>w, <3>1 DEF LastRead
    <2>3. need' \in 1..Last(cur'.msg) /\ cur'.n \in 1..begun'
      <3>1. BodyLen[u.msg] \in 1..Last(u.msg)
        BY <1>m, <1>11
      <3>2. u.n \in 1..begun
        BY <2>h, <2>w
      <3> QED BY <1>3, <1>11, <3>1, <3>2
    <2>4. Latter(F, w) => Latter(F, LastRead)'
      BY <2>1, <2>2 DEF Latter, Continues, Ended
    <2>5. Linked(F, w, stream'[1]) => Linked(F, LastRead, stream[1])'
      BY <2>2 DEF Linked, Continues, Ended
    <2>6. ReaderCut(F)'
      BY <1>11, <2>1, <2>3, <2>4, <2>5, <2>w DEF ReaderCut
    <2>7. ASSUME NEW c \in C
          PROVE  c < begun /\ c < u.n /\ \A i \in 1..Len(stream') : c < stream'[i].n
      <3>1. c < begun /\ \A i \in 1..Len(stream) : c < stream[i].n
        BY DEF CutBefore, CutInv, CutSets
      <3>2. c < stream[HeaderLen].n
        BY <2>h, <3>1
      <3> QED BY <1>1, <2>h, <3>1, <3>2, TakeUnit
    <2>8. CutSets(F, C)'
      BY <1>1, <1>3, <2>1, <2>7 DEF CutBefore, CutInv, CutSets
    <2> QED BY <1>3, <2>6, <2>8 DEF CutInv
  <1> QED BY <1>9, <1>10, <1>11, <1>u DEF PollHeader, TakeHeader

\* Bytes that are no header have an account of their own.
LEMMA PollStrayCut ==
  ASSUME NEW F, NEW C, CutBefore(F, C), NEW len \in StrayLens, PollStray(len)
  PROVE  CutInv(F, C)' /\ EndInv' /\ begun' = begun
  <1>1. /\ rpc = "poll" /\ stream # <<>> /\ stream' = PastHeader /\ ~InStray
        /\ UNCHANGED <<writerVars, writerUp, echoes>> /\ strays' = strays + 1
        /\ cur' = Head(stream) /\ Head(stream).k > 0 /\ ~whole'
    BY DEF PollStray, InStray
  <1>2. TypeOK /\ HeaderInv /\ strays \in Nat
    BY DEF CutBefore, TypeOK
  <1>d. PICK d \in 1..Len(stream) : Taken(d)
    BY <1>1, <1>2, SomeTaken
  <1>3. EndInv' /\ begun' = begun /\ StreamCut(F)'
    BY <1>1, <1>d, LeftBehind
  <1>4. cur'.k # 0 /\ ~InBody'
    BY <1>1, HeadInStream, <1>2 DEF InBody, Units
  <1>5. /\ Cardinality(TornAt) <= Cardinality(C) + strays
        /\ Cardinality(C) \in Nat /\ Cardinality(TornAt) \in Nat
    <2>1. Cardinality(TornAt) + 0 <= Cardinality(C) + strays
      BY <1>1 DEF CutBefore, CutInv, CutSets
    <2>2. Cardinality(TornAt) \in Nat
      BY <1>2, TornFinite
    <2>3. Cardinality(C) \in Nat
      BY MessageSets, FS_CardinalityType DEF CutBefore, TypeOK
    <2> QED BY <2>1, <2>2, <2>3
  <1>6. Cardinality(TornAt') + (IF InStray' THEN 1 ELSE 0) <= Cardinality(C) + strays'
    <2>1. CASE Deliver(Torn)
      <3>1. ~InStray' /\ received' = Append(received, Torn)
        BY <2>1 DEF Deliver, InStray
      <3>2. Cardinality(TornAt') = Cardinality(TornAt) + 1
        BY <1>2, <3>1, TornGrows
      <3> QED BY <1>1, <1>2, <1>5, <3>1, <3>2
    <2>2. CASE received' = received
      <3>1. TornAt' = TornAt
        BY <2>2 DEF TornAt
      <3>2. Cardinality(TornAt') = Cardinality(TornAt)
        BY <3>1
      <3>3. Cardinality(TornAt') <= Cardinality(C) + strays
        BY <1>5, <3>2
      <3>4. /\ Cardinality(TornAt') + 1 <= Cardinality(C) + strays'
            /\ Cardinality(TornAt') + 0 <= Cardinality(C) + strays'
        BY <1>1, <1>2, <1>5, <3>2, <3>3
      <3> QED BY <3>4
    <2> QED BY <2>1, <2>2 DEF PollStray
  <1>7. CutSets(F, C)'
    BY <1>1, <1>4, <1>6, <1>d, LeftBehind
  <1> QED BY <1>1, <1>3, <1>4, <1>7 DEF CutInv, ReaderCut

\* A body is read on, or to its end: it is torn only when its own message was cut.
LEMMA ReadOwnBodyCut ==
  ASSUME NEW F, NEW C, CutBefore(F, C), ReadBody, cur.k = 0
  PROVE  \E D \in SUBSET F : CutInv(F, D)' /\ EndInv' /\ begun' = begun
  <1>1. /\ rpc = "body" /\ stream # <<>> /\ stream' = Tail(stream) /\ need' = need - 1
        /\ UNCHANGED <<writerVars, writerUp, echoes, strays, cur>> /\ ~InStray /\ ~InStray'
    BY DEF ReadBody, InStray
  <1>t. 1 \in 1..Len(stream) /\ Taken(1)
    BY <1>1, ReadTakes DEF CutBefore
  <1>u. PICK u \in Units :
          /\ u = Head(stream) /\ u = stream[1] /\ u.n \in 1..begun
          /\ StreamCut(F)'
          /\ \A i \in 1..Len(stream') : u.n <= stream'[i].n
          /\ IF stream' = <<>> THEN Latter(F, u) ELSE Linked(F, u, stream'[1])
          /\ \A x : (\A i \in 1..Len(stream) : x < stream[i].n)
                      => \A i \in 1..Len(stream') : x < stream'[i].n
    BY <1>1, <1>t, TakeUnit, HeadInStream DEF CutBefore
  <1>2. /\ EndInv' /\ begun' = begun /\ UNCHANGED <<Partial, NextUnit, cuts>>
    BY <1>1 DEF CutBefore, EndInv, writerVars, Partial, NextUnit
  <1>3. /\ TypeOK /\ InBody /\ begun \in Nat /\ need \in Nat
        /\ F \in SUBSET (1..begun) /\ C \in SUBSET F
    BY <1>1 DEF CutBefore, EndInv, TypeOK, InBody
  <1>4. /\ need \in 1..Last(cur.msg) /\ cur.n \in 1..begun
        /\ whole => Linked(F, LastRead, u)
        /\ ~whole => /\ cur.n \in F /\ cur.n < begun
                     /\ \A i \in 1..Len(stream) : cur.n < stream[i].n
    BY <1>1, <1>3, <1>u DEF CutBefore, CutInv, ReaderCut
  <1>5. cur.msg \in Messages /\ Last(cur.msg) \in Nat /\ cur \in Units
        /\ u.n \in Nat /\ u.k \in Nat
    BY <1>1, <1>3, LastUnit DEF TypeOK, Units
  <1>6. ASSUME NEW c \in C
        PROVE  c < begun /\ c < cur.n /\ \A i \in 1..Len(stream') : c < stream'[i].n
    BY <1>3, <1>u DEF CutBefore, CutInv, CutSets
  <1>7. /\ Cardinality(F) = cuts /\ (Partial => begun \in (1..begun) \ F)
        /\ Cardinality(TornAt) + 0 <= Cardinality(C) + strays
    BY <1>1 DEF CutBefore, CutInv, CutSets
  <1> DEFINE expected == [n |-> cur.n, k |-> Last(cur.msg) - need + 1, msg |-> cur.msg]
             good == whole /\ u = expected
  <1>8. /\ whole' = good
        /\ \/ need = 1 /\ Deliver(IF good THEN cur.msg ELSE Torn)
           \/ need > 1 /\ UNCHANGED <<rpc, received, errors>>
    BY <1>u DEF ReadBody
  \* What was not expected belongs to a later message.
  <1>9. ASSUME ~good
        PROVE  /\ cur.n \in F /\ cur.n < begun
               /\ \A i \in 1..Len(stream') : cur.n < stream'[i].n
    <2>1. CASE ~whole
      BY <1>4, <1>u, <2>1
    <2>2. CASE whole
      <3>1. u # expected /\ Linked(F, LastRead, u)
        BY <1>4, <1>9, <2>2
      <3>2. ~Continues(LastRead, u)
        BY <3>1 DEF Continues, LastRead, Units
      <3>3. LastRead.k # Last(LastRead.msg)
        BY <1>4, <1>5 DEF LastRead
      <3>4. cur.n \in F /\ u.n > cur.n
        BY <3>1, <3>2, <3>3 DEF Linked, Ended, LastRead
      <3>5. \A i \in 1..Len(stream') : stream'[i].n \in 1..begun
        BY <1>2, <1>u DEF StreamCut
      <3>6. u.n \in 1..begun /\ \A i \in 1..Len(stream') : u.n <= stream'[i].n
        BY <1>u
      <3>7. cur.n < begun
        BY <1>3, <1>4, <3>4, <3>6
      <3>8. ASSUME NEW i \in 1..Len(stream') PROVE cur.n < stream'[i].n
        BY <1>3, <1>4, <3>4, <3>5, <3>6
      <3> QED BY <3>4, <3>7, <3>8
    <2> QED BY <2>1, <2>2
  <1>10. CASE need > 1 /\ UNCHANGED <<rpc, received, errors>>
    <2>1. TornAt' = TornAt /\ InBody'
      BY <1>1, <1>3, <1>10 DEF TornAt, InBody
    <2>2. CutSets(F, C)'
      BY <1>1, <1>2, <1>6, <1>7, <2>1 DEF CutSets
    <2>3. need' \in 1..Last(cur'.msg) /\ cur'.n \in 1..begun'
      BY <1>1, <1>2, <1>4, <1>5, <1>10
    <2>4. ASSUME whole'
          PROVE  IF stream' = <<>> THEN Latter(F, LastRead)' ELSE Linked(F, LastRead, stream[1])'
      <3>1. u = expected
        BY <1>8, <2>4
      <3>2. Last(cur.msg) - (need - 1) = Last(cur.msg) - need + 1
        BY <1>3, <1>5
      <3>3. LastRead' = u
        BY <1>1, <3>1, <3>2 DEF LastRead
      <3>4. Latter(F, u) => Latter(F, LastRead)'
        BY <1>2, <3>3 DEF Latter, Continues, Ended
      <3>5. Linked(F, u, stream'[1]) => Linked(F, LastRead, stream[1])'
        BY <3>3 DEF Linked, Continues, Ended
      <3> QED BY <1>u, <3>4, <3>5
    <2>5. ReaderCut(F)'
      BY <1>1, <1>2, <1>8, <1>9, <2>3, <2>4 DEF ReaderCut
    <2> QED BY <1>2, <1>3, <1>u, <2>2, <2>5 DEF CutInv
  <1>11. CASE need = 1 /\ good /\ Deliver(cur.msg)
    <2>1. ~InBody' /\ received' = Append(received, cur.msg)
      BY <1>11 DEF Deliver, InBody
    <2>2. TornAt' = TornAt
      BY <1>3, <1>5, <2>1, TornGrows, TornIsNoMessage
    <2>3. CutSets(F, C)'
      BY <1>1, <1>2, <1>6, <1>7, <2>1, <2>2 DEF CutSets
    <2> QED BY <1>1, <1>2, <1>3, <1>u, <2>1, <2>3 DEF CutInv, ReaderCut
  <1>12. CASE need = 1 /\ ~good /\ Deliver(Torn)
    <2>1. ~InBody' /\ received' = Append(received, Torn)
      BY <1>12 DEF Deliver, InBody
    <2>d. PICK D : D = C \cup {cur.n}
      OBVIOUS
    <2>2. cur.n \notin C /\ cur.n \in Nat
      BY <1>3, <1>4, <1>6
    <2>3. D \in SUBSET F
      BY <1>3, <1>9, <1>12, <2>d
    <2>4. Cardinality(TornAt') + 0 <= Cardinality(D) + strays'
      <3>1. IsFiniteSet(C) /\ Cardinality(C) \in Nat
        BY <1>3, MessageSets, FS_CardinalityType
      <3>2. Cardinality(D) = Cardinality(C) + 1
        BY <2>2, <2>d, <3>1, FS_AddElement
      <3>3. Cardinality(TornAt') = Cardinality(TornAt) + 1 /\ Cardinality(TornAt) \in Nat
        BY <1>3, <2>1, TornGrows
      <3>4. strays \in Nat
        BY <1>3 DEF TypeOK
      <3> QED BY <1>1, <1>7, <3>1, <3>2, <3>3, <3>4
    <2>5. \A c \in D : c < begun /\ \A i \in 1..Len(stream') : c < stream'[i].n
      BY <1>6, <1>9, <1>12, <2>d
    <2>6. CutSets(F, D)'
      BY <1>1, <1>2, <1>7, <2>1, <2>4, <2>5 DEF CutSets
    <2> QED BY <1>1, <1>2, <1>u, <2>1, <2>3, <2>6 DEF CutInv, ReaderCut
  <1> HIDE DEF good, expected
  <1> QED BY <1>8, <1>10, <1>11, <1>12

\* What follows bytes that were no header is read as far as they say.
LEMMA ReadStrayCut ==
  ASSUME NEW F, NEW C, CutBefore(F, C), ReadBody, cur.k # 0
  PROVE  CutInv(F, C)' /\ EndInv' /\ begun' = begun
  <1>1. /\ rpc = "body" /\ stream # <<>> /\ stream' = Tail(stream) /\ InStray
        /\ UNCHANGED <<writerVars, writerUp, echoes, strays, cur>> /\ ~InBody'
    BY DEF ReadBody, InStray, InBody
  <1>2. TypeOK /\ strays \in Nat /\ ~whole
    BY <1>1 DEF CutBefore, TypeOK, CutInv, ReaderCut
  <1>t. 1 \in 1..Len(stream) /\ Taken(1)
    BY <1>1, <1>2, ReadTakes
  <1>3. EndInv' /\ begun' = begun /\ StreamCut(F)'
    BY <1>1, <1>t, LeftBehind
  <1>4. /\ ~whole'
        /\ \/ Deliver(Torn)
           \/ UNCHANGED <<rpc, received, errors>>
    BY <1>2 DEF ReadBody
  <1>5. /\ Cardinality(TornAt) + 1 <= Cardinality(C) + strays
        /\ Cardinality(C) \in Nat /\ Cardinality(TornAt) \in Nat
    <2>1. Cardinality(TornAt) + 1 <= Cardinality(C) + strays
      BY <1>1 DEF CutBefore, CutInv, CutSets
    <2>2. Cardinality(TornAt) \in Nat
      BY <1>2, TornFinite
    <2>3. Cardinality(C) \in Nat
      BY MessageSets, FS_CardinalityType DEF CutBefore, TypeOK
    <2> QED BY <2>1, <2>2, <2>3
  <1>6. Cardinality(TornAt') + (IF InStray' THEN 1 ELSE 0) <= Cardinality(C) + strays'
    <2>1. CASE Deliver(Torn)
      <3>1. ~InStray' /\ received' = Append(received, Torn)
        BY <2>1 DEF Deliver, InStray
      <3>2. Cardinality(TornAt') = Cardinality(TornAt) + 1
        BY <1>2, <3>1, TornGrows
      <3> QED BY <1>1, <1>5, <3>1, <3>2
    <2>2. CASE UNCHANGED <<rpc, received, errors>>
      <3>1. TornAt' = TornAt /\ InStray'
        BY <1>1, <2>2 DEF TornAt, InStray
      <3> QED BY <1>1, <1>5, <3>1
    <2> QED BY <1>4, <2>1, <2>2
  <1>7. CutSets(F, C)'
    BY <1>1, <1>6, <1>t, LeftBehind
  <1> QED BY <1>1, <1>3, <1>4, <1>7 DEF CutInv, ReaderCut

\* Nothing else reads, or writes, any unit.
LEMMA EndOfFileCut ==
  ASSUME NEW F, NEW C, CutBefore(F, C), NEW m \in Messages, PollEndOfFile(m)
  PROVE  CutInv(F, C)' /\ EndInv' /\ begun' = begun
  <1>1. /\ ~writerUp /\ stream = <<>> /\ echoes' = echoes + 1 /\ echoes \in Nat
        /\ UNCHANGED <<writerVars, stream, writerUp>>
    BY DEF PollEndOfFile, CutBefore, TypeOK
  <1>2. EndInv' /\ ~InBody' /\ ~InStray /\ ~InStray' /\ strays' = strays
    BY <1>1 DEF EndInv, InBody, InStray, PollEndOfFile, TakeHeader
  <1>3. received' = received \/ received' = Append(received, m)
    BY DEF PollEndOfFile, TakeHeader, Deliver
  <1>4. TornAt' = TornAt
    <2>1. CASE received' = received
      BY <2>1 DEF TornAt
    <2>2. CASE received' = Append(received, m)
      BY <2>2, TornGrows, TornIsNoMessage DEF CutBefore
    <2> QED BY <1>3, <2>1, <2>2
  <1>5. UNCHANGED <<begun, cuts, Partial, NextUnit>>
    BY <1>1 DEF writerVars, Partial, NextUnit
  <1>6. CutSets(F, C)'
    BY <1>1, <1>2, <1>4, <1>5 DEF CutBefore, CutInv, CutSets
  <1>7. StreamCut(F)'
    BY <1>1, <1>5 DEF CutBefore, CutInv, StreamCut, Linked, Continues, Latter, Ended
  <1> QED BY <1>2, <1>5, <1>6, <1>7 DEF CutInv, ReaderCut

LEMMA TornInit == Init => TornInv
  <1> SUFFICES ASSUME Init PROVE TornInv
    OBVIOUS
  <1>1. TornAt = {} /\ Cardinality({}) = 0
    BY FS_EmptySet DEF Init, TornAt
  <1>2. TornOncePerCut
    BY <1>1 DEF Init, TornOncePerCut, TornAt
  <1>3. ~Partial /\ ~InBody /\ ~InStray
    BY DEF Init, Partial, InBody, InStray
  <1>4. CutInv({}, {})
    BY <1>1, <1>3 DEF Init, CutInv, CutSets, StreamCut, ReaderCut
  <1>5. EndInv
    BY DEF Init, EndInv
  <1> QED BY <1>2, <1>4, <1>5 DEF TornInv

LEMMA TornNext ==
  ASSUME TypeOK, GuardInv, HeaderInv, TornInv, [Next]_vars
  PROVE  TornInv'
  <1>1. ASSUME UNCHANGED <<received, strays>>, cuts' \in Nat, cuts' >= cuts
        PROVE  TornOncePerCut'
    <2>1. Cardinality(TornAt) <= cuts + strays /\ Cardinality(TornAt) \in Nat
      BY TornFinite DEF TornInv, TornOncePerCut, TornAt
    <2>2. TornAt' = TornAt /\ cuts \in Nat /\ strays \in Nat
      BY <1>1 DEF TornAt, TypeOK
    <2>3. Cardinality(TornAt') <= cuts' + strays'
      BY <1>1, <2>1, <2>2
    <2> QED BY <2>3 DEF TornOncePerCut, TornAt
  <1>2. ASSUME NEW F, NEW C, F \in SUBSET (1..begun'), C \in SUBSET F, CutInv(F, C)', EndInv'
        PROVE  TornInv'
    <2>1. TypeOK' /\ begun' \in Nat /\ strays' \in Nat
      BY TypeNext DEF TypeOK
    <2>2. /\ Cardinality(TornAt') + (IF InStray' THEN 1 ELSE 0) <= Cardinality(C) + strays'
          /\ cuts' = Cardinality(F)
      BY <1>2 DEF CutInv, CutSets
    <2>p. PICK e \in 0..1 : e = IF InStray' THEN 1 ELSE 0
      OBVIOUS
    <2>q. /\ Cardinality(C) <= Cardinality(F) /\ Cardinality(C) \in Nat
          /\ Cardinality(F) \in Nat
      BY <1>2, <2>1, MessageSets, FS_CardinalityType
    <2>r. Cardinality(TornAt') \in Nat
      <3>1. (IsFiniteSet(TornAt) /\ Cardinality(TornAt) \in Nat)'
        BY <2>1, TornFinite, PTL
      <3> QED BY <3>1
    <2>3. Cardinality(TornAt') <= cuts' + strays'
      BY <2>1, <2>2, <2>p, <2>q, <2>r
    <2> QED BY <1>2, <2>3 DEF TornInv, TornOncePerCut, TornAt
  <1>3. CASE ~readerUp'
    <2>1. UNCHANGED <<received, strays>> /\ cuts' \in Nat /\ cuts' >= cuts
      <3>1. ASSUME UNCHANGED <<received, strays, cuts>>
            PROVE  UNCHANGED <<received, strays>> /\ cuts' \in Nat /\ cuts' >= cuts
        BY <3>1 DEF TypeOK
      <3>2. CASE \E t \in Callers, m \in Messages : WriteMessage(t, m)
        BY <3>1, <3>2 DEF WriteMessage, readerVars
      <3>3. CASE \E t \in Callers : Write(t) \/ WriteInterrupted(t)
        BY <1>3, <3>1, <3>3 DEF Write, WriteUnit, WriteBroken, WriteInterrupted, readerVars
      <3>4. CASE Read \/ PollInterrupted \/ \E m \in Messages : PollEndOfFile(m)
        <4>1. readerUp /\ readerUp' = readerUp
          BY <3>4 DEF Read, PollHeader, PollStray, ReadBody, PollInterrupted, PollEndOfFile
        <4> QED BY <1>3, <4>1
      <3>5. CASE WriterDies \/ ReaderDies \/ UNCHANGED vars
        BY <3>1, <3>5 DEF WriterDies, ReaderDies, vars, writerVars, readerVars
      <3> QED BY <3>2, <3>3, <3>4, <3>5 DEF Next
    <2> QED BY <1>1, <1>3, <2>1 DEF TornInv
  <1>4. CASE readerUp'
    <2>1. readerUp
      BY <1>4 DEF Next, WriteMessage, Write, WriteUnit, WriteBroken, WriteInterrupted, Read,
                  PollHeader, PollStray, ReadBody, PollInterrupted, PollEndOfFile, WriterDies,
                  ReaderDies, vars
    <2>f. PICK F \in SUBSET (1..begun) : \E C \in SUBSET F : CutInv(F, C)
      BY <2>1 DEF TornInv
    <2>2. PICK C \in SUBSET F : CutInv(F, C)
      BY <2>f
    <2>3. CutBefore(F, C)
      BY <2>1, <2>2 DEF CutBefore, TornInv
    <2> HIDE DEF CutBefore
    <2>4. ASSUME CutInv(F, C)', EndInv', begun' = begun PROVE TornInv'
      BY <1>2, <2>2, <2>4
    <2>5. ASSUME NEW t \in Callers, NEW m \in Messages, WriteMessage(t, m) PROVE TornInv'
      <3>1. /\ writeGuard = NoThread /\ writeGuard' = t /\ t \in Threads
            /\ sending' = [sending EXCEPT ![t] = [active |-> TRUE, msg |-> m, at |-> 0]]
            /\ UNCHANGED <<begun, cuts, stream, readerVars, writerUp>>
        BY <2>5, CallersAreThreads DEF WriteMessage
      <3>2. ~Partial /\ ~Partial'
        BY <3>1 DEF Partial, TypeOK
      <3> QED BY <2>3, <2>4, <3>1, <3>2, CallCut
    <2>6. ASSUME NEW t \in Callers, WriteUnit(t) PROVE TornInv'
      BY <1>2, <2>2, <2>3, <2>6, WriteUnitCut, CallersAreThreads
    <2>7. ASSUME NEW t \in Callers, WriteBroken(t) PROVE TornInv'
      BY <2>1, <2>7 DEF WriteBroken
    <2>8. ASSUME NEW t \in Callers, WriteInterrupted(t) PROVE TornInv'
      <3>1. PICK G \in SUBSET (1..begun) : C \in SUBSET G /\ CutInv(G, C)' /\ EndInv'
        BY <2>3, <2>8, InterruptedCut, CallersAreThreads
      <3>2. begun' = begun
        BY <2>8 DEF WriteInterrupted
      <3> QED BY <1>2, <3>1, <3>2
    <2>9. CASE PollHeader
      BY <2>3, <2>4, <2>9, PollHeaderCut
    <2>10. CASE ReadBody
      <3>1. CASE cur.k = 0
        <4>1. PICK D \in SUBSET F : CutInv(F, D)' /\ EndInv' /\ begun' = begun
          BY <2>3, <2>10, <3>1, ReadOwnBodyCut
        <4> QED BY <1>2, <2>2, <4>1
      <3>2. CASE cur.k # 0
        BY <2>3, <2>4, <2>10, <3>2, ReadStrayCut
      <3> QED BY <3>1, <3>2
    <2>s. ASSUME NEW len \in StrayLens, PollStray(len) PROVE TornInv'
      BY <2>3, <2>4, <2>s, PollStrayCut
    <2>11. ASSUME NEW m \in Messages, PollEndOfFile(m) PROVE TornInv'
      BY <2>3, <2>4, <2>11, EndOfFileCut
    <2>12. ASSUME UNCHANGED <<writerVars, stream, received, echoes, strays, cur, need, whole>>,
                  rpc' = rpc \/ (rpc # "body" /\ rpc' # "body"), writerUp' => writerUp
           PROVE  TornInv'
      <3>1. UNCHANGED <<InBody, InStray, TornAt, LastRead, Partial, NextUnit, begun, cuts>>
        BY <2>12 DEF InBody, InStray, TornAt, LastRead, Partial, NextUnit, writerVars
      <3>2. CutSets(F, C)'
        BY <2>2, <2>12, <3>1 DEF CutInv, CutSets
      <3>3. StreamCut(F)'
        BY <2>2, <2>12, <3>1 DEF CutInv, StreamCut, Linked, Latter, Continues, Ended
      <3>4. ReaderCut(F)'
        BY <2>2, <2>12, <3>1 DEF CutInv, ReaderCut, Linked, Latter, Continues, Ended
      <3>5. EndInv'
        BY <2>3, <2>12 DEF CutBefore, EndInv
      <3> QED BY <2>4, <3>1, <3>2, <3>3, <3>4, <3>5 DEF CutInv
    <2>13. CASE PollInterrupted
      BY <2>12, <2>13 DEF PollInterrupted, PollFails
    <2>14. CASE WriterDies \/ ReaderDies \/ UNCHANGED vars
      <3>1. UNCHANGED <<writerVars, stream, received, echoes, strays, cur, need, whole, rpc>>
        BY <2>14 DEF WriterDies, ReaderDies, vars, readerVars
      <3>2. writerUp' => writerUp
        BY <2>14 DEF WriterDies, ReaderDies, vars
      <3> QED BY <2>12, <3>1, <3>2
    <2> QED BY <2>5, <2>6, <2>7, <2>8, <2>9, <2>10, <2>11, <2>s, <2>13,
               <2>14 DEF Next, Write, Read
  <1> QED BY <1>3, <1>4

-----------------------------------------------------------------------------
(* Theorems *)

\* Every variable of the channel keeps its type: no failed poll is counted past the
\* patience of the loop, and the socket never holds more than it has room for.
THEOREM ChannelTypeOK == Spec => []TypeOK
  <1>1. IInv => TypeOK
    BY DEF IInv
  <1> QED BY <1>1, InvHolds, PTL

\* writeMessage and pollMessage implement MessageChannel: until a write is cut short,
\* what is read is what was written, whole, once and in order, for any number of
\* writing threads, any bodies and any room in the socket.
THEOREM ChannelImplemented == Spec => ChannelSpec
  <1>1. Init => Channel!Init
    BY DEF Init, Channel!Init
  <1>2. Spec => [][Channel!Next]_Channel!channelVars
    BY InvHolds, StepImplements, PTL DEF Spec
  <1> QED BY <1>1, <1>2, PTL DEF Spec, ChannelSpec, Channel!Spec

\* Each write cut short spoils at most one message that pollMessage returns, however
\* many are cut, wherever the cuts fall and however far out of phase the reader is
\* after them, but for the messages it makes up where bytes look like a header.
THEOREM CutSpoilsOne == Spec => []TornOncePerCut
  <1> DEFINE TInv == TypeOK /\ GuardInv /\ HeaderInv /\ TornInv
  <1>1. Init => TInv
    BY InvInit, TornInit DEF IInv
  <1>2. TInv /\ [Next]_vars => TInv'
    BY TypeNext, GuardNext, HeaderNext, TornNext
  <1>3. TInv => TornOncePerCut
    BY DEF TornInv
  <1> HIDE DEF TInv
  <1> QED BY <1>1, <1>2, <1>3, PTL DEF Spec
=============================================================================
