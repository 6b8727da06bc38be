--------------------------- MODULE AudioFramesProofs ---------------------------
(***************************************************************************)
(* Proofs about AudioFrames, for all lengths of the stages, all bounds and *)
(* every way the socket cuts the frames.                                   *)
(***************************************************************************)
EXTENDS AudioFrames, SequenceTheorems, TLAPS

-----------------------------------------------------------------------------
(* Operators *)

\* The smaller of two numbers is one of them.
LEMMA SmallerFacts ==
  ASSUME NEW a \in Nat, NEW b \in Nat
  PROVE  /\ Smaller(a, b) \in Nat /\ Smaller(a, b) <= a /\ Smaller(a, b) <= b
         /\ Smaller(a, b) = a \/ Smaller(a, b) = b
BY DEF Smaller

\* The whole frames of n samples are no more than n, and leave less than a frame.
LEMMA WholeFacts ==
  ASSUME NEW n \in Nat, NEW len \in Nat \ {0}
  PROVE  /\ Whole(n, len) \in 0..n
         /\ n - Whole(n, len) \in 0..(len - 1)
<1> DEFINE d == n \div len
           r == n % len
<1>1. d \in Nat /\ r \in 0..(len - 1) /\ n = len * d + r
  OBVIOUS
<1>2. Whole(n, len) = d * len
  BY DEF Whole
<1> HIDE DEF d, r
<1>3. d * len \in Nat /\ d * len = len * d
  BY <1>1
<1> QED
  BY <1>1, <1>2, <1>3

\* The first n of a sequence, and the others.
LEMMA UptoFacts ==
  ASSUME NEW T, NEW s \in Seq(T), NEW n \in 0..Len(s)
  PROVE  /\ Upto(s, n) \in Seq(T) /\ Len(Upto(s, n)) = n
         /\ \A i \in 1..n : Upto(s, n)[i] = s[i]
BY DEF Upto

\* And what is left without the first n.
LEMMA FromFacts ==
  ASSUME NEW T, NEW s \in Seq(T), NEW n \in 0..Len(s)
  PROVE  /\ From(s, n) \in Seq(T) /\ Len(From(s, n)) = Len(s) - n
         /\ \A i \in 1..(Len(s) - n) : From(s, n)[i] = s[n + i]
BY DEF From

\* What a concatenation holds, from the front and from behind the first part.
LEMMA CatFacts ==
  ASSUME NEW T, NEW s \in Seq(T), NEW t \in Seq(T)
  PROVE  /\ s \o t \in Seq(T) /\ Len(s \o t) = Len(s) + Len(t)
         /\ \A i \in 1..Len(s) : (s \o t)[i] = s[i]
         /\ \A i \in 1..(Len(s) + Len(t)) : i > Len(s) => (s \o t)[i] = t[i - Len(s)]
<1>1. Len(s) \in Nat /\ Len(t) \in Nat
  OBVIOUS
<1>2. \A i \in 1..(Len(s) + Len(t)) :
        (s \o t)[i] = IF i <= Len(s) THEN s[i] ELSE t[i - Len(s)]
  BY ConcatProperties
<1> QED
  BY <1>1, <1>2, ConcatProperties

\* What Record writes at once is a number of samples.
LEMMA PieceFacts ==
  ASSUME TypeOK
  PROVE  Smaller(piece, FrameLen - (recorded % FrameLen)) \in Nat
<1>1. FrameLen \in Nat \ {0}
  BY LengthsPositive
<1>2. piece \in Nat
  <2>1. piece \in Pieces
    BY DEF TypeOK
  <2> QED
    BY <1>1, <2>1, PiecesType
<1>3. recorded \in Nat
  BY DEF TypeOK
<1>4. recorded % FrameLen \in 0..(FrameLen - 1)
  BY <1>1, <1>3
<1>5. FrameLen - (recorded % FrameLen) \in Nat
  BY <1>1, <1>4
<1> QED
  BY <1>2, <1>5, SmallerFacts

-----------------------------------------------------------------------------
(* The parts of Preprocess *)

Pair == [mic : Samples, ref : Samples]
Cut == Smaller(calLeft, FrameLen)
Pairs(frame) == Calibrated(frame, Cut)
Filled(frame) == aecIn \o Pairs(frame)
Worked(frame) == AecFull(Len(Filled(frame)))
Cancelled(frame) == [i \in 1..Worked(frame) |-> Filled(frame)[i].mic]
Output(frame) == AecKept \o Cancelled(frame)
PutOut(frame) == Whole(Len(Output(frame)), OutLen)
ReadyOf(frame) == Upto(Output(frame), PutOut(frame))

\* processData, in these words.
LEMMA PreprocessIs ==
  ASSUME NEW frame, Preprocess(frame)
  PROVE  /\ calLeft' = calLeft - Cut
         /\ aecIn' = From(Filled(frame), Worked(frame))
         /\ aecOut' = Output(frame)
         /\ firstFrm' = (firstFrm /\ ReadyOf(frame) = <<>>)
         /\ package' = IF firstFrm /\ ReadyOf(frame) # <<>>
                         THEN [ReadyOf(frame) EXCEPT ![1] = Mark] ELSE ReadyOf(frame)
         /\ skewed' = skewed \cup
              {Pairs(frame)[i].mic :
                 i \in {j \in DOMAIN Pairs(frame) : Pairs(frame)[j].mic # Pairs(frame)[j].ref}}
BY Zenon DEF Preprocess, Cut, Pairs, Filled, Worked, Cancelled, Output, PutOut, ReadyOf, CalNeeds, Marked

\* What the canceller keeps for the next call.
LEMMA KeptFacts ==
  ASSUME aecOut \in Seq(Samples)
  PROVE  /\ AecKept \in Seq(Samples) /\ Len(AecKept) \in 0..(OutLen - 1)
         /\ Len(AecKept) <= Len(aecOut)
         /\ \A i \in 1..Len(AecKept) :
              /\ Len(aecOut) - Len(AecKept) + i \in 1..Len(aecOut)
              /\ AecKept[i] = aecOut[Len(aecOut) - Len(AecKept) + i]
<1> DEFINE n == Len(aecOut)
           w == Whole(n, OutLen)
<1>1. n \in Nat /\ OutLen \in Nat \ {0}
  BY LengthsPositive
<1>2. w \in 0..n /\ n - w \in 0..(OutLen - 1)
  BY <1>1, WholeFacts
<1>3. AecKept = From(aecOut, w)
  BY DEF AecKept
<1> HIDE DEF w
<1>4. /\ AecKept \in Seq(Samples) /\ Len(AecKept) = n - w
      /\ \A i \in 1..(n - w) : AecKept[i] = aecOut[w + i]
  BY <1>2, <1>3, FromFacts
<1>5. n - (n - w) = w
  BY <1>1, <1>2
<1> QED
  BY <1>1, <1>2, <1>4, <1>5

\* The calibration swallows c samples; each pair is of one instant before it began.
LEMMA PairsFacts ==
  ASSUME calLeft \in 0..CalLen, NEW frame \in Seq(Samples), Len(frame) = FrameLen
  PROVE  /\ Cut \in 0..FrameLen /\ Cut <= calLeft /\ Cut \in {calLeft, FrameLen}
         /\ Pairs(frame) \in Seq(Pair) /\ Len(Pairs(frame)) = FrameLen - Cut
         /\ \A i \in 1..(FrameLen - Cut) :
              i + Cut \in 1..FrameLen /\ Pairs(frame)[i] = [mic |-> frame[i + Cut], ref |-> frame[i]]
<1>1. FrameLen \in Nat /\ CalLen \in Nat /\ calLeft \in Nat
  BY LengthsPositive
<1>2. Cut \in 0..FrameLen /\ Cut <= calLeft /\ Cut \in {calLeft, FrameLen}
  <2> DEFINE c == Smaller(calLeft, FrameLen)
  <2>1. c \in Nat /\ c <= calLeft /\ c <= FrameLen /\ (c = calLeft \/ c = FrameLen)
    BY <1>1, SmallerFacts
  <2> HIDE DEF c
  <2>2. c \in 0..FrameLen /\ c <= calLeft /\ c \in {calLeft, FrameLen}
    BY <1>1, <2>1
  <2> QED
    BY <2>2 DEF Cut, c
<1>3. \A i \in 1..FrameLen : frame[i] \in Samples
  OBVIOUS
<1>4. \A i \in 1..(FrameLen - Cut) : i + Cut \in 1..FrameLen /\ i \in 1..FrameLen
  BY <1>1, <1>2
<1>5. Pairs(frame) = [i \in 1..(FrameLen - Cut) |-> [mic |-> frame[i + Cut], ref |-> frame[i]]]
  BY DEF Pairs, Calibrated
<1>6. \A i \in 1..(FrameLen - Cut) : [mic |-> frame[i + Cut], ref |-> frame[i]] \in Pair
  BY <1>3, <1>4 DEF Pair
<1>7. FrameLen - Cut \in Nat
  BY <1>1, <1>2
<1> HIDE DEF Pair
<1>8. Pairs(frame) \in Seq(Pair) /\ Len(Pairs(frame)) = FrameLen - Cut
  <2> DEFINE At(i) == [mic |-> frame[i + Cut], ref |-> frame[i]]
             n == FrameLen - Cut
  <2>1. Pairs(frame) = [i \in 1..n |-> At(i)] /\ \A i \in 1..n : At(i) \in Pair
    BY <1>5, <1>6
  <2>2. n \in Nat
    BY <1>7
  <2> HIDE DEF At, n
  <2>3. Pairs(frame) \in Seq(Pair) /\ Len(Pairs(frame)) = n
    BY <2>1, <2>2
  <2> QED
    BY <2>3 DEF n
<1>9. \A i \in 1..(FrameLen - Cut) : Pairs(frame)[i] = [mic |-> frame[i + Cut], ref |-> frame[i]]
  BY <1>5
<1> QED
  BY <1>2, <1>4, <1>8, <1>9

\* The canceller works on whole frames of what it had and what it is given.
LEMMA FilledFacts ==
  ASSUME calLeft \in 0..CalLen, aecIn \in Seq(Pair), NEW frame \in Seq(Samples), Len(frame) = FrameLen
  PROVE  /\ Filled(frame) \in Seq(Pair) /\ Len(Filled(frame)) = Len(aecIn) + (FrameLen - Cut)
         /\ Worked(frame) \in 0..Len(Filled(frame))
         /\ Len(Filled(frame)) - Worked(frame) \in 0..(AecLen - 1)
         /\ \A i \in 1..Len(aecIn) : Filled(frame)[i] = aecIn[i]
         /\ \A i \in 1..Len(Filled(frame)) : i > Len(aecIn) =>
              Filled(frame)[i] = Pairs(frame)[i - Len(aecIn)]
<1>1. /\ Pairs(frame) \in Seq(Pair) /\ Len(Pairs(frame)) = FrameLen - Cut
  BY PairsFacts
<1> HIDE DEF Pair
<1>2. /\ Filled(frame) \in Seq(Pair)
      /\ Len(Filled(frame)) = Len(aecIn) + Len(Pairs(frame))
      /\ \A i \in 1..Len(aecIn) : Filled(frame)[i] = aecIn[i]
      /\ \A i \in 1..(Len(aecIn) + Len(Pairs(frame))) : i > Len(aecIn) =>
              Filled(frame)[i] = Pairs(frame)[i - Len(aecIn)]
  BY <1>1, CatFacts DEF Filled
<1>3. Len(Filled(frame)) \in Nat /\ AecLen \in Nat \ {0}
  BY <1>2, LengthsPositive
<1>4. /\ Worked(frame) \in 0..Len(Filled(frame))
      /\ Len(Filled(frame)) - Worked(frame) \in 0..(AecLen - 1)
  BY <1>3, WholeFacts DEF Worked, AecFull
<1> QED
  BY <1>1, <1>2, <1>4

\* It puts out the microphones' samples behind what it had kept.
LEMMA OutputFacts ==
  ASSUME calLeft \in 0..CalLen, aecIn \in Seq(Pair), aecOut \in Seq(Samples),
         NEW frame \in Seq(Samples), Len(frame) = FrameLen
  PROVE  /\ Output(frame) \in Seq(Samples)
         /\ Len(Output(frame)) = Len(AecKept) + Worked(frame)
         /\ \A i \in 1..Len(AecKept) : Output(frame)[i] = AecKept[i]
         /\ \A i \in 1..Len(Output(frame)) : i > Len(AecKept) =>
              /\ i - Len(AecKept) \in 1..Worked(frame)
              /\ Output(frame)[i] = Filled(frame)[i - Len(AecKept)].mic
         /\ PutOut(frame) \in 0..Len(Output(frame))
         /\ ReadyOf(frame) \in Seq(Samples) /\ Len(ReadyOf(frame)) = PutOut(frame)
         /\ \A i \in 1..PutOut(frame) : ReadyOf(frame)[i] = Output(frame)[i]
<1> DEFINE w == Worked(frame)
           f == Filled(frame)
           k == AecKept
           o == Output(frame)
           p == PutOut(frame)
<1>1. w \in 0..Len(f) /\ f \in Seq(Pair) /\ Len(f) \in Nat
  <2>1. Worked(frame) \in 0..Len(Filled(frame)) /\ Filled(frame) \in Seq(Pair)
    BY FilledFacts
  <2> HIDE DEF Pair, f, w
  <2>2. w \in 0..Len(f) /\ f \in Seq(Pair)
    BY <2>1 DEF w, f
  <2> QED
    BY <2>2
<1>2. k \in Seq(Samples) /\ Len(k) \in Nat
  BY KeptFacts, LengthsPositive
<1>3. \A i \in 1..w : f[i].mic \in Samples
  <2> HIDE DEF f, w
  <2>1. \A i \in 1..w : f[i] \in Pair
    BY <1>1
  <2> QED
    BY <2>1 DEF Pair
<1>4. Cancelled(frame) = [i \in 1..w |-> f[i].mic]
  BY DEF Cancelled
<1> HIDE DEF w, f, k
<1>5. w \in Nat
  BY <1>1
<1>6. /\ Cancelled(frame) \in Seq(Samples) /\ Len(Cancelled(frame)) = w
      /\ \A i \in 1..w : Cancelled(frame)[i] = f[i].mic
  BY <1>3, <1>4, <1>5
<1>7. o = k \o Cancelled(frame)
  BY DEF Output, k
<1> HIDE DEF o
<1>8. /\ o \in Seq(Samples) /\ Len(o) = Len(k) + w
      /\ \A i \in 1..Len(k) : o[i] = k[i]
      /\ \A i \in 1..(Len(k) + w) : i > Len(k) => o[i] = Cancelled(frame)[i - Len(k)]
  BY <1>2, <1>6, <1>7, CatFacts
<1>9. \A i \in 1..Len(o) : i > Len(k) =>
        i - Len(k) \in 1..w /\ o[i] = f[i - Len(k)].mic
  BY <1>2, <1>5, <1>6, <1>8
<1>10. p \in 0..Len(o)
  <2>1. Len(o) \in Nat /\ OutLen \in Nat \ {0}
    BY <1>8, LengthsPositive
  <2> QED
    BY <2>1, WholeFacts DEF PutOut, o
<1>11. ReadyOf(frame) = Upto(o, p)
  BY DEF ReadyOf, o
<1> HIDE DEF p
<1>12. /\ ReadyOf(frame) \in Seq(Samples) /\ Len(ReadyOf(frame)) = p
       /\ \A i \in 1..p : ReadyOf(frame)[i] = o[i]
  BY <1>8, <1>10, <1>11, UptoFacts
<1> QED
  BY <1>8, <1>9, <1>10, <1>12 DEF w, f, k, o, p

-----------------------------------------------------------------------------
(* Types *)

\* What a read takes, and the frame it makes of it.
Read == Smaller(FrameLen, Len(wire))
Frame == Upto(wire, Read) \o From(frameBuffer, Read)

\* A read fills the front of the frame buffer and leaves the rest of it.
LEMMA ReadFacts ==
  ASSUME TypeOK, wire # <<>>
  PROVE  /\ Read \in 1..FrameLen /\ Read <= Len(wire) /\ Read \in {FrameLen, Len(wire)}
         /\ Frame \in Seq(Samples) /\ Len(Frame) = FrameLen
         /\ \A i \in 1..Read : Frame[i] = wire[i]
         /\ From(wire, Read) \in Seq(Samples) /\ Len(From(wire, Read)) = Len(wire) - Read
         /\ \A i \in 1..(Len(wire) - Read) : From(wire, Read)[i] = wire[Read + i]
<1> DEFINE k == Read
           u == Upto(wire, k)
           v == From(frameBuffer, k)
<1>1. /\ wire \in Seq(Samples) /\ frameBuffer \in Seq(Samples) /\ Len(frameBuffer) = FrameLen
      /\ Len(wire) \in Nat \ {0} /\ FrameLen \in Nat \ {0}
  BY LengthsPositive DEF TypeOK
<1>2. k \in 1..FrameLen /\ k <= Len(wire) /\ k \in {FrameLen, Len(wire)}
  <2>1. k \in Nat /\ k <= FrameLen /\ k <= Len(wire) /\ (k = FrameLen \/ k = Len(wire))
    BY <1>1, SmallerFacts DEF Read
  <2> HIDE DEF k
  <2> QED
    BY <1>1, <2>1
<1> HIDE DEF k
<1>3. /\ u \in Seq(Samples) /\ Len(u) = k /\ \A i \in 1..k : u[i] = wire[i]
  BY <1>1, <1>2, UptoFacts
<1>4. v \in Seq(Samples) /\ Len(v) = FrameLen - k
  <2>1. k \in 0..Len(frameBuffer)
    BY <1>1, <1>2
  <2> QED
    BY <1>1, <2>1, FromFacts
<1>5. /\ From(wire, k) \in Seq(Samples) /\ Len(From(wire, k)) = Len(wire) - k
      /\ \A i \in 1..(Len(wire) - k) : From(wire, k)[i] = wire[k + i]
  BY <1>1, <1>2, FromFacts
<1> HIDE DEF u, v
<1>6. /\ u \o v \in Seq(Samples) /\ Len(u \o v) = Len(u) + Len(v)
      /\ \A i \in 1..Len(u) : (u \o v)[i] = u[i]
  BY <1>3, <1>4, CatFacts
<1>7. Len(u \o v) = FrameLen
  BY <1>1, <1>2, <1>3, <1>4, <1>6
<1>8. Frame = u \o v
  BY DEF Frame, u, v, k
<1> QED
  BY <1>2, <1>3, <1>5, <1>6, <1>7, <1>8 DEF k

\* A read's step, its preprocessing in the words above.
LEMMA MainReadIs ==
  ASSUME MainRead
  PROVE  /\ mpc = "read" /\ wire # <<>> /\ Preprocess(Frame)
         /\ wire' = From(wire, Read) /\ frameBuffer' = Frame /\ taken' = taken + Read
         /\ short' = (short \/ Read < FrameLen)
         /\ mpc' = IF package' = <<>> THEN "wait" ELSE "push"
         /\ late' = IF recordingStart THEN late ELSE late + 1
         /\ UNCHANGED <<piece, recorded, recordingStart, queue, processorVars, lost>>
BY DEF MainRead, Frame, Read

\* The mark goes over the first sample and leaves the others.
LEMMA MarkedTypes ==
  ASSUME NEW s \in Seq(Samples), s # <<>>
  PROVE  /\ [s EXCEPT ![1] = Mark] \in Seq(Samples) /\ [s EXCEPT ![1] = Mark] # <<>>
         /\ Len([s EXCEPT ![1] = Mark]) = Len(s)
         /\ [s EXCEPT ![1] = Mark][1] = Mark
         /\ \A i \in 2..Len(s) : [s EXCEPT ![1] = Mark][i] = s[i]
<1> DEFINE r == [s EXCEPT ![1] = Mark]
<1>1. Mark \in Samples
  BY DEF Mark, Samples
<1>2. 1 \in 1..Len(s) /\ Len(s) \in Nat \ {0}
  OBVIOUS
<1>3. r = [i \in 1..Len(s) |-> IF i = 1 THEN Mark ELSE s[i]]
  OBVIOUS
<1> HIDE DEF r
<1>4. r \in Seq(Samples) /\ Len(r) = Len(s)
  BY <1>1, <1>2, <1>3
<1>5. r # <<>>
  BY <1>2, <1>4
<1>6. r[1] = Mark /\ \A i \in 2..Len(s) : r[i] = s[i]
  BY <1>2, <1>3
<1> QED
  BY <1>4, <1>5, <1>6 DEF r

\* What the preprocessor puts out, mark and all.
LEMMA PackageFacts ==
  ASSUME TypeOK, NEW frame \in Seq(Samples), Len(frame) = FrameLen, Preprocess(frame)
  PROVE  /\ package' \in Seq(Samples) /\ Len(package') = PutOut(frame)
         /\ \A i \in 1..PutOut(frame) :
              package'[i] = IF firstFrm /\ i = 1 THEN Mark ELSE Output(frame)[i]
         /\ package' = <<>> <=> ReadyOf(frame) = <<>>
         /\ firstFrm /\ package' # <<>> => package'[1] = Mark
<1> DEFINE r == ReadyOf(frame)
           p == PutOut(frame)
<1>1. /\ r \in Seq(Samples) /\ Len(r) = p /\ p \in Nat
      /\ \A i \in 1..p : r[i] = Output(frame)[i]
  <2>1. calLeft \in 0..CalLen /\ aecIn \in Seq(Pair) /\ aecOut \in Seq(Samples)
    BY DEF TypeOK, Pair
  <2>2. /\ Output(frame) \in Seq(Samples) /\ p \in 0..Len(Output(frame))
        /\ r \in Seq(Samples) /\ Len(r) = p
        /\ \A i \in 1..p : r[i] = Output(frame)[i]
    BY <2>1, OutputFacts
  <2> HIDE DEF p, r
  <2> QED
    BY <2>2
<1>2. package' = IF firstFrm /\ r # <<>> THEN [r EXCEPT ![1] = Mark] ELSE r
  BY PreprocessIs
<1> HIDE DEF r, p
<1>3. CASE firstFrm /\ r # <<>>
  <2> DEFINE t == [r EXCEPT ![1] = Mark]
  <2>1. /\ t \in Seq(Samples) /\ t # <<>> /\ Len(t) = Len(r) /\ t[1] = Mark
        /\ \A i \in 2..Len(r) : t[i] = r[i]
    BY <1>1, <1>3, MarkedTypes
  <2>2. package' = t
    BY <1>2, <1>3
  <2> HIDE DEF t
  <2>3. \A i \in 1..p : t[i] = IF i = 1 THEN Mark ELSE Output(frame)[i]
    BY <1>1, <2>1
  <2> QED
    BY <1>1, <1>3, <2>1, <2>2, <2>3 DEF r, p
<1>4. CASE ~(firstFrm /\ r # <<>>)
  <2>1. package' = r
    BY <1>2, <1>4
  <2>2. r = <<>> => p = 0
    BY <1>1
  <2> QED
    BY <1>1, <1>4, <2>1, <2>2 DEF r, p
<1> QED
  BY <1>3, <1>4

\* A push that meets no full queue goes behind the others.
LEMMA PushAppends ==
  ASSUME TypeOK, MainPush, ~lost'
  PROVE  queue' = Append(queue, package) /\ ~lost
<1>1. ~(Len(queue) >= QueueLen) /\ ~lost
  <2>1. lost' = (lost \/ Len(queue) >= QueueLen)
    BY DEF MainPush
  <2> QED
    BY <2>1, Zenon
<1>2. Len(queue) \in Nat /\ QueueLen \in Nat
  BY RoomPositive DEF TypeOK
<1> QED
  BY <1>1, <1>2 DEF MainPush, PushTo

\* What a push on a full queue leaves is packages and null.
LEMMA PushTypes ==
  ASSUME TypeOK, MainPush
  PROVE  queue' \in Seq(Seq(Samples))
<1> DEFINE S == Seq(Samples)
           last == Len(queue) + 1 - QueueLen
           q == [queue EXCEPT ![last] = NoPackage]
<1>1. queue \in Seq(S) /\ package \in S /\ NoPackage \in S /\ QueueLen \in Nat \ {0}
  BY RoomPositive DEF TypeOK, NoPackage
<1>2. queue' = IF Len(queue) < QueueLen THEN Append(queue, package)
               ELSE Append(q, queue[last])
  BY DEF MainPush, PushTo
<1> HIDE DEF S
<1>3. CASE ~(Len(queue) < QueueLen)
  <2>1. last \in 1..Len(queue)
    BY <1>1, <1>3
  <2>2. q \in Seq(S) /\ queue[last] \in S
    BY <1>1, <2>1
  <2> QED
    BY <1>2, <1>3, <2>2 DEF S
<1> QED
  BY <1>1, <1>2, <1>3 DEF S

\* At the start no stage holds anything.
LEMMA InitTypes == Init => TypeOK
<1> SUFFICES ASSUME Init PROVE TypeOK
  OBVIOUS
<1> USE LengthsPositive, PiecesType, RoomPositive DEF Init, TypeOK
<1>1. frameBuffer \in Seq(Samples) /\ Len(frameBuffer) = FrameLen
  BY DEF Junk, Samples
<1>2. /\ wire \in Seq(Samples) /\ aecIn \in Seq([mic : Samples, ref : Samples])
      /\ aecOut \in Seq(Samples) /\ package \in Seq(Samples) /\ queue \in Seq(Seq(Samples))
      /\ bfIn \in Seq(Samples) /\ delivered \in Seq(Samples)
  OBVIOUS
<1>3. /\ Len(wire) = 0 /\ Len(wire) <= WireRoom /\ Len(aecIn) < AecLen
      /\ Len(bfIn) < BfLen /\ calLeft \in 0..CalLen
  OBVIOUS
<1>4. /\ recordingStart \in BOOLEAN /\ firstFrm \in BOOLEAN /\ processorFirst \in BOOLEAN
      /\ short \in BOOLEAN /\ lost \in BOOLEAN
  OBVIOUS
<1>5. piece \in Pieces /\ skewed \subseteq Samples /\ recorded \in Nat /\ taken \in Nat /\ late \in Nat
  OBVIOUS
<1>6. mpc \in {"wait", "read", "push"} /\ mpc # "push" /\ judged \in {"nothing", "mark", "sample"}
  OBVIOUS
<1> HIDE DEF Init
<1> QED
  BY <1>1, <1>2, <1>3, <1>4, <1>5, <1>6

\* Every step keeps the lengths and the places in range.
LEMMA TypesStep == TypeOK /\ [Next]_vars => TypeOK'
<1> SUFFICES ASSUME TypeOK, [Next]_vars PROVE TypeOK'
  OBVIOUS
<1> USE DEF wireVars, stageVars, processorVars
<1>1. CASE UNCHANGED vars
  BY <1>1 DEF vars, TypeOK
<1>2. CASE Record
  <2> DEFINE n == Smaller(piece, FrameLen - (recorded % FrameLen))
             new == [i \in 1..n |-> recorded + i]
  <2>1. n \in Nat
    BY PieceFacts
  <2>2. wire' = wire \o new /\ recorded' = recorded + n /\ Len(wire) + n <= WireRoom
    BY <1>2 DEF Record
  <2> HIDE DEF n
  <2>3. new \in Seq(Samples) /\ Len(new) = n
    BY <2>1 DEF TypeOK, Samples
  <2> HIDE DEF new
  <2>4. wire' \in Seq(Samples) /\ Len(wire') <= WireRoom
    <3>1. wire \in Seq(Samples)
      BY DEF TypeOK
    <3> QED
      BY <2>2, <2>3, <3>1, CatFacts
  <2>5. recorded' \in Nat
    BY <2>1, <2>2 DEF TypeOK
  <2> QED
    BY <1>2, <2>4, <2>5 DEF Record, TypeOK
<1>3. ASSUME NEW on \in BOOLEAN, SetRecording(on) PROVE TypeOK'
  BY <1>3 DEF SetRecording, TypeOK
<1>4. CASE MainWait
  BY <1>4 DEF MainWait, TypeOK
<1>5. CASE MainRead
  <2>1. /\ Frame \in Seq(Samples) /\ Len(Frame) = FrameLen
        /\ Read \in 1..FrameLen /\ wire' \in Seq(Samples) /\ Len(wire') <= Len(wire)
    <3>1. Len(wire) \in Nat /\ FrameLen \in Nat
      BY LengthsPositive DEF TypeOK
    <3> QED
      BY <1>5, <3>1, ReadFacts, MainReadIs
  <2>2. /\ Preprocess(Frame) /\ frameBuffer' = Frame /\ taken' = taken + Read
        /\ mpc' = IF package' = <<>> THEN "wait" ELSE "push"
        /\ short' = (short \/ Read < FrameLen)
        /\ late' = IF recordingStart THEN late ELSE late + 1
        /\ UNCHANGED <<piece, recorded, recordingStart, queue, processorVars, lost>>
    BY <1>5, MainReadIs
  <2>3. calLeft' \in 0..CalLen
    <3>1. Cut \in 0..FrameLen /\ Cut <= calLeft
      BY <2>1, PairsFacts DEF TypeOK
    <3>2. calLeft' = calLeft - Cut
      BY <2>2, PreprocessIs
    <3>3. calLeft \in 0..CalLen /\ CalLen \in Nat /\ FrameLen \in Nat
      BY LengthsPositive DEF TypeOK
    <3> QED
      BY <3>1, <3>2, <3>3
  <2>4. aecIn' \in Seq(Pair) /\ Len(aecIn') < AecLen
    <3>1. aecIn \in Seq(Pair) /\ calLeft \in 0..CalLen /\ AecLen \in Nat
      BY LengthsPositive DEF TypeOK, Pair
    <3>2. /\ Filled(Frame) \in Seq(Pair) /\ Worked(Frame) \in 0..Len(Filled(Frame))
          /\ Len(Filled(Frame)) - Worked(Frame) \in 0..(AecLen - 1)
      BY <2>1, <3>1, FilledFacts
    <3> HIDE DEF Pair
    <3>3. /\ From(Filled(Frame), Worked(Frame)) \in Seq(Pair)
          /\ Len(From(Filled(Frame), Worked(Frame))) = Len(Filled(Frame)) - Worked(Frame)
      BY <3>2, FromFacts
    <3> QED
      BY <2>2, <3>1, <3>2, <3>3, PreprocessIs
  <2>5. aecOut' \in Seq(Samples)
    BY <2>1, <2>2, OutputFacts, PreprocessIs DEF TypeOK, Pair
  <2>6. firstFrm' \in BOOLEAN
    BY <2>2, PreprocessIs DEF TypeOK
  <2>7. package' \in Seq(Samples)
    BY <2>1, <2>2, PackageFacts
  <2>8. skewed' \subseteq Samples
    <3>1. /\ Pairs(Frame) \in Seq(Pair)
      BY <2>1, PairsFacts DEF TypeOK
    <3> DEFINE ps == Pairs(Frame)
               D == {j \in DOMAIN ps : ps[j].mic # ps[j].ref}
    <3>2. skewed' = skewed \cup {ps[i].mic : i \in D} /\ D \subseteq DOMAIN ps
      BY <2>2, PreprocessIs
    <3>3. \A i \in DOMAIN ps : ps[i] \in Pair
      <4> HIDE DEF Pair, ps
      <4> QED
        BY <3>1 DEF ps
    <3>4. \A i \in DOMAIN ps : ps[i].mic \in Samples
      BY <3>3 DEF Pair
    <3> HIDE DEF D, ps
    <3> QED
      BY <3>2, <3>4 DEF TypeOK
  <2>9. taken' \in Nat /\ late' \in Nat /\ short' \in BOOLEAN
    <3>1. FrameLen \in Nat
      BY LengthsPositive
    <3> QED
      BY <2>1, <2>2, <3>1 DEF TypeOK
  <2>10. Len(wire') <= WireRoom
    BY <2>1, RoomPositive DEF TypeOK
  <2>11. mpc' \in {"wait", "push"} /\ (mpc' = "push" => package' # <<>>)
    BY <2>2
  <2> QED
    BY <2>1, <2>2, <2>3, <2>4, <2>5, <2>6, <2>7, <2>8, <2>9, <2>10, <2>11 DEF TypeOK, Pair
<1>6. CASE MainPush
  <2>1. package' = <<>> /\ mpc' = "wait" /\ lost' \in BOOLEAN
    BY <1>6 DEF MainPush, TypeOK
  <2>2. queue' \in Seq(Seq(Samples))
    BY <1>6, PushTypes
  <2>3. package' \in Seq(Samples)
    BY <2>1
  <2> QED
    BY <1>6, <2>1, <2>2, <2>3 DEF MainPush, TypeOK
<1>7. CASE Process
  <2> DEFINE s == Head(queue)
             all == bfIn \o s
             w == Whole(Len(all), BfLen)
  <2>1. s \in Seq(Samples) /\ queue' \in Seq(Seq(Samples))
    BY <1>7 DEF Process, TypeOK
  <2>2. all \in Seq(Samples)
    BY <2>1, CatFacts DEF TypeOK
  <2>3. bfIn' = From(all, w) /\ delivered' = delivered \o Upto(all, w)
    BY <1>7 DEF Process, BeamForm
  <2> HIDE DEF s, all
  <2>4. w \in 0..Len(all) /\ Len(all) - w \in 0..(BfLen - 1) /\ BfLen \in Nat
    <3>1. Len(all) \in Nat /\ BfLen \in Nat \ {0}
      BY <2>2, LengthsPositive
    <3> QED
      BY <3>1, WholeFacts
  <2> HIDE DEF w
  <2>5. bfIn' \in Seq(Samples) /\ Len(bfIn') < BfLen
    <3>1. From(all, w) \in Seq(Samples) /\ Len(From(all, w)) = Len(all) - w
      BY <2>2, <2>4, FromFacts
    <3> QED
      BY <2>3, <2>4, <3>1
  <2>6. delivered' \in Seq(Samples)
    <3>1. Upto(all, w) \in Seq(Samples)
      BY <2>2, <2>4, UptoFacts
    <3> QED
      BY <2>3, <3>1, CatFacts DEF TypeOK
  <2>7. judged' \in {"nothing", "mark", "sample"} /\ processorFirst' \in BOOLEAN
    BY <1>7 DEF Process, TypeOK
  <2> QED
    BY <1>7, <2>1, <2>5, <2>6, <2>7 DEF Process, TypeOK
<1>8. CASE ProcessNull
  <2>1. queue' \in Seq(Seq(Samples))
    BY <1>8 DEF ProcessNull, TypeOK
  <2> QED
    BY <1>8, <2>1 DEF ProcessNull, TypeOK
<1> QED
  BY <1>1, <1>2, <1>3, <1>4, <1>5, <1>6, <1>7, <1>8 DEF Next, Main

\* Every length and every place stays in range; none of the stages' buffers grows to a
\* frame of the stage, and what waits to be pushed is never empty.
THEOREM TypeCorrect == Spec => []TypeOK
<1> QED
  BY InitTypes, TypesStep, PTL DEF Spec

-----------------------------------------------------------------------------
(* The mark and the stopped stream *)

\* The mark is still to be written, or on its way as the head of the first package if no
\* package met a full queue.
MarkInv ==
  /\ firstFrm => processorFirst /\ queue = <<>> /\ package = <<>>
  /\ processorFirst => judged = "nothing"
  /\ ~firstFrm /\ processorFirst /\ ~lost =>
       \/ mpc = "push" /\ queue = <<>> /\ package[1] = Mark
       \/ queue # <<>> /\ queue[1] # <<>> /\ queue[1][1] = Mark
  /\ judged = "sample" => lost

\* Every step keeps the mark ahead.
LEMMA MarkStep == TypeOK /\ MarkInv /\ [Next]_vars => MarkInv'
<1> SUFFICES ASSUME TypeOK, MarkInv, [Next]_vars PROVE MarkInv'
  OBVIOUS
<1> USE DEF wireVars, stageVars, processorVars
<1>1. CASE UNCHANGED vars
  BY <1>1 DEF vars, MarkInv
<1>2. CASE Record
  BY <1>2 DEF Record, MarkInv
<1>3. ASSUME NEW on \in BOOLEAN, SetRecording(on) PROVE MarkInv'
  BY <1>3 DEF SetRecording, MarkInv
<1>4. CASE MainWait
  BY <1>4 DEF MainWait, MarkInv
<1>5. CASE MainRead
  <2>1. /\ Frame \in Seq(Samples) /\ Len(Frame) = FrameLen
    BY <1>5, ReadFacts, MainReadIs
  <2>2. /\ Preprocess(Frame) /\ mpc = "read" /\ mpc' = IF package' = <<>> THEN "wait" ELSE "push"
        /\ UNCHANGED <<queue, processorFirst, judged, lost>>
    BY <1>5, MainReadIs
  <2>3. /\ package' = <<>> <=> ReadyOf(Frame) = <<>>
        /\ firstFrm /\ package' # <<>> => package'[1] = Mark
        /\ firstFrm' = (firstFrm /\ ReadyOf(Frame) = <<>>)
    BY <2>1, <2>2, PackageFacts, PreprocessIs
  <2> QED
    BY <2>2, <2>3 DEF MarkInv
<1>6. CASE MainPush
  <2>1. /\ mpc = "push" /\ mpc' = "wait" /\ package' = <<>> /\ package # <<>>
        /\ UNCHANGED <<firstFrm, processorFirst, judged>>
    BY <1>6 DEF MainPush, TypeOK
  <2>2. ~firstFrm
    BY <2>1 DEF MarkInv
  <2>3. CASE lost'
    BY <2>1, <2>2, <2>3 DEF MarkInv
  <2>4. CASE ~lost'
    <3> DEFINE S == Seq(Samples)
    <3>1. queue \in Seq(S) /\ package \in S /\ queue' = Append(queue, package) /\ ~lost
      BY <1>6, <2>4, PushAppends DEF TypeOK
    <3> HIDE DEF S
    <3>2. /\ queue' # <<>> /\ queue = <<>> => queue'[1] = package
          /\ queue # <<>> => queue'[1] = queue[1]
      BY <3>1
    <3> QED
      BY <2>1, <2>2, <3>1, <3>2 DEF MarkInv
  <2> QED
    BY <2>3, <2>4
<1>7. CASE Process
  <2>1. /\ queue # <<>> /\ processorFirst' = FALSE
        /\ judged' = IF processorFirst THEN IF Head(queue)[1] = Mark THEN "mark" ELSE "sample"
                     ELSE judged
        /\ UNCHANGED <<firstFrm, package, mpc, lost>> /\ Head(queue) # <<>>
    BY <1>7 DEF Process, NoPackage
  <2>2. ~firstFrm
    BY <2>1 DEF MarkInv
  <2>3. Head(queue) = queue[1]
    BY <2>1 DEF TypeOK
  <2> QED
    BY <2>1, <2>2, <2>3 DEF MarkInv
<1>8. CASE ProcessNull
  <2>1. /\ queue # <<>> /\ Head(queue) = <<>>
        /\ UNCHANGED <<firstFrm, package, mpc, lost, processorFirst, judged>>
    BY <1>8 DEF ProcessNull, NoPackage
  <2>2. ~firstFrm
    BY <2>1 DEF MarkInv
  <2>3. queue[1] = <<>>
    BY <2>1 DEF TypeOK
  <2>4. processorFirst => lost
    BY <2>1, <2>2, <2>3 DEF MarkInv
  <2> QED
    BY <2>1, <2>2, <2>4 DEF MarkInv
<1> QED
  BY <1>1, <1>2, <1>3, <1>4, <1>5, <1>6, <1>7, <1>8 DEF Next, Main

\* The first package carries the mark and stays the first as long as no package meets a
\* full processQueue; so the processor judges the microphones by the mark and not by a
\* sample if the queue has not overflowed by then, whatever the lengths of the stages and
\* however the reads are cut.
THEOREM MicrophonesJudged == Spec => []JudgedByMark
<1>1. Init => MarkInv
  BY DEF Init, MarkInv
<1>2. MarkInv => JudgedByMark
  BY DEF MarkInv, JudgedByMark
<1>3. TypeOK /\ MarkInv /\ TypeOK' /\ [Next]_vars => MarkInv'
  BY MarkStep
<1> QED
  BY <1>1, <1>2, <1>3, TypeCorrect, PTL DEF Spec

\* The main thread can be in a read when the stream is stopped; it counts as late once.
LateInv ==
  IF recordingStart THEN late = 0
  ELSE late \in {0, 1} /\ (late = 1 => mpc # "read")

\* After STOP_PROCESS_STREAM at most the read that was under way brings in a frame:
\* the main thread goes back to its condition before the next one.
THEOREM StopsWithinOneFrame == Spec => []OneLateFrame
<1>1. Init => LateInv
  BY DEF Init, LateInv
<1>2. TypeOK /\ LateInv /\ [Next]_vars => LateInv'
  <2> SUFFICES ASSUME TypeOK, LateInv, [Next]_vars PROVE LateInv'
    OBVIOUS
  <2> USE DEF LateInv
  <2>1. CASE UNCHANGED vars
    BY <2>1 DEF vars
  <2>2. CASE Record \/ Process \/ ProcessNull \/ MainPush
    BY <2>2 DEF Record, Process, ProcessNull, MainPush
  <2>3. ASSUME NEW on \in BOOLEAN, SetRecording(on) PROVE LateInv'
    BY <2>3 DEF SetRecording
  <2>4. CASE MainWait
    BY <2>4 DEF MainWait
  <2>5. CASE MainRead
    <3>1. mpc = "read" /\ mpc' \in {"wait", "push"} /\ recordingStart' = recordingStart
            /\ late' = IF recordingStart THEN late ELSE late + 1
      BY <2>5, MainReadIs
    <3> QED
      BY <3>1
  <2> QED
    BY <2>1, <2>2, <2>3, <2>4, <2>5 DEF Next, Main
<1>3. LateInv => OneLateFrame
  BY DEF LateInv, OneLateFrame
<1> QED
  BY <1>1, <1>2, <1>3, TypeCorrect, PTL DEF Spec

-----------------------------------------------------------------------------
(* The order of the samples: the inductive invariant *)

\* The socket holds the samples that are recorded and not taken yet.
WireHolds ==
  /\ recorded = taken + Len(wire)
  /\ \A i \in 1..Len(wire) : wire[i] = taken + i

\* Samples behind the calibration that the canceller was fed, that it has worked on,
\* and that have left it; and which sample is the j-th to leave.
Fed == IF taken > CalLen THEN taken - CalLen ELSE 0
Done == Fed - Len(aecIn)
Gone == Done - Len(AecKept)
Num(j) == IF j = 1 THEN Mark ELSE CalLen + j

\* Undisturbed, every stage holds the samples behind those that have left it.
Stages ==
  /\ \E q \in Nat : taken = q * FrameLen
  /\ calLeft = IF taken < CalLen THEN CalLen - taken ELSE 0
  /\ Len(aecIn) <= Fed /\ \A i \in 1..Len(aecIn) : aecIn[i].mic = CalLen + Done + i
  /\ Len(aecOut) <= Done
  /\ \A i \in 1..Len(aecOut) : aecOut[i] = CalLen + Done - Len(aecOut) + i
  /\ firstFrm <=> Gone = 0
  /\ mpc # "push" => package = <<>>
  /\ Len(package) <= Gone
  /\ \A i \in 1..Len(package) : package[i] = Num(Gone - Len(package) + i)

\* Only the microphone samples of the frame in which the calibration ends are skewed.
SkewedInFrame ==
  \A m \in skewed : (m - 1) \div FrameLen = (CalLen - 1) \div FrameLen

\* How a read moves the stages, in numbers.
LEMMA ReadCounts ==
  ASSUME TypeOK, WireHolds, Stages, MainRead, Read = FrameLen
  PROVE  /\ \A i \in 1..FrameLen : Frame[i] = taken + i
         /\ calLeft' = IF taken' < CalLen THEN CalLen - taken' ELSE 0
         /\ Fed \in Nat /\ Fed' = Fed + (FrameLen - Cut)
         /\ \A i \in 1..(FrameLen - Cut) : Pairs(Frame)[i].mic = CalLen + Fed + i
         /\ Cut # 0 => taken < CalLen /\ (Cut = FrameLen \/ Cut = CalLen - taken)
<1>1. /\ taken \in Nat /\ CalLen \in Nat /\ FrameLen \in Nat \ {0} /\ calLeft \in 0..CalLen
      /\ taken' = taken + FrameLen /\ calLeft' = calLeft - Cut
      /\ Frame \in Seq(Samples) /\ Len(Frame) = FrameLen /\ FrameLen <= Len(wire)
      /\ \A i \in 1..FrameLen : Frame[i] = wire[i]
  BY LengthsPositive, ReadFacts, MainReadIs, PreprocessIs DEF TypeOK
<1>2. \A i \in 1..FrameLen : Frame[i] = taken + i
  <2>1. \A i \in 1..FrameLen : i \in 1..Len(wire)
    BY <1>1 DEF TypeOK
  <2> QED
    BY <1>1, <2>1 DEF WireHolds
<1>3. calLeft = IF taken < CalLen THEN CalLen - taken ELSE 0
  BY DEF Stages
<1>4. /\ Cut \in 0..FrameLen /\ Cut <= calLeft /\ Cut \in {calLeft, FrameLen}
      /\ \A i \in 1..(FrameLen - Cut) :
           i + Cut \in 1..FrameLen /\ Pairs(Frame)[i] = [mic |-> Frame[i + Cut], ref |-> Frame[i]]
  BY <1>1, PairsFacts
<1>5. \A i \in 1..(FrameLen - Cut) : Pairs(Frame)[i].mic = taken + (i + Cut)
  <2> TAKE i \in 1..(FrameLen - Cut)
  <2>1. i + Cut \in 1..FrameLen /\ Pairs(Frame)[i] = [mic |-> Frame[i + Cut], ref |-> Frame[i]]
    BY <1>4
  <2>2. Frame[i + Cut] = taken + (i + Cut)
    BY <1>2, <2>1
  <2>3. Pairs(Frame)[i].mic = Frame[i + Cut]
    BY <2>1
  <2> QED
    BY <2>2, <2>3
<1>6. Fed \in Nat /\ Fed' = Fed + (FrameLen - Cut)
  <2> DEFINE c == Cut
  <2>1. c \in 0..FrameLen /\ c <= calLeft /\ (c = calLeft \/ c = FrameLen)
    BY <1>4
  <2> HIDE DEF c
  <2>2. /\ Fed = IF taken > CalLen THEN taken - CalLen ELSE 0
        /\ Fed' = IF taken + FrameLen > CalLen THEN taken + FrameLen - CalLen ELSE 0
    BY <1>1 DEF Fed
  <2>3. Fed \in Nat
    BY <1>1, <2>2
  <2>4. CASE taken < CalLen
    BY <1>1, <1>3, <2>1, <2>2, <2>4 DEF c
  <2>5. CASE ~(taken < CalLen)
    <3>1. c = 0 /\ taken >= CalLen
      BY <1>1, <1>3, <2>1, <2>5
    <3> QED
      BY <1>1, <2>2, <3>1 DEF c
  <2> QED
    BY <2>3, <2>4, <2>5
<1>7. \A i \in 1..(FrameLen - Cut) : taken + (i + Cut) = CalLen + Fed + i
  BY <1>1, <1>3, <1>4 DEF Fed
<1>8. calLeft' = IF taken' < CalLen THEN CalLen - taken' ELSE 0
  BY <1>1, <1>3, <1>4
<1>9. Cut # 0 => taken < CalLen /\ (Cut = FrameLen \/ Cut = CalLen - taken)
  BY <1>1, <1>3, <1>4
<1> QED
  BY <1>2, <1>5, <1>6, <1>7, <1>8, <1>9

\* How a read moves what the canceller holds.
LEMMA ReadStages ==
  ASSUME TypeOK, WireHolds, Stages, MainRead, Read = FrameLen
  PROVE  Stages' /\ Gone \in Nat /\ Gone' = Gone + Len(package')
<1> DEFINE La == Len(aecIn)
           Lo == Len(aecOut)
           Lk == Len(AecKept)
           f == Filled(Frame)
           w == Worked(Frame)
           o == Output(Frame)
           p == PutOut(Frame)
           l == FrameLen - Cut
<1>1. /\ calLeft \in 0..CalLen /\ aecIn \in Seq(Pair) /\ aecOut \in Seq(Samples)
      /\ taken \in Nat /\ CalLen \in Nat /\ FrameLen \in Nat \ {0}
  BY LengthsPositive DEF TypeOK, Pair
<1>2. /\ Frame \in Seq(Samples) /\ Len(Frame) = FrameLen /\ Preprocess(Frame)
      /\ mpc' = IF package' = <<>> THEN "wait" ELSE "push"
      /\ taken' = taken + FrameLen
  BY ReadFacts, MainReadIs
<1>3. Fed \in Nat /\ Fed' = Fed + l /\ l \in Nat
        /\ \A i \in 1..l : Pairs(Frame)[i].mic = CalLen + Fed + i
  <2>1. Cut \in 0..FrameLen
    BY <1>1, <1>2, PairsFacts
  <2> QED
    BY <1>1, <2>1, ReadCounts
<1>4. /\ La \in Nat /\ La <= Fed /\ Lo \in Nat /\ Lo <= Done /\ Done \in Nat
      /\ \A i \in 1..La : aecIn[i].mic = CalLen + Done + i
      /\ \A i \in 1..Lo : aecOut[i] = CalLen + Done - Lo + i
  <2>1. La \in Nat /\ Lo \in Nat
    BY <1>1
  <2> QED
    BY <1>3, <2>1 DEF Stages, Done
<1>5. /\ f \in Seq(Pair) /\ Len(f) = La + l /\ w \in 0..Len(f)
      /\ \A i \in 1..La : f[i] = aecIn[i]
      /\ \A i \in 1..Len(f) : i > La => f[i] = Pairs(Frame)[i - La]
  BY <1>1, <1>2, FilledFacts
<1>6. /\ Lk \in Nat /\ Lk <= Lo /\ AecKept \in Seq(Samples)
      /\ \A i \in 1..Lk : Lo - Lk + i \in 1..Lo /\ AecKept[i] = aecOut[Lo - Lk + i]
  BY <1>1, KeptFacts, LengthsPositive
<1>7. /\ o \in Seq(Samples) /\ Len(o) = Lk + w
      /\ \A i \in 1..Lk : o[i] = AecKept[i]
      /\ \A i \in 1..Len(o) : i > Lk =>
           i - Lk \in 1..w /\ o[i] = f[i - Lk].mic
      /\ p \in 0..Len(o)
  BY <1>1, <1>2, OutputFacts
<1>8. /\ aecIn' = From(f, w) /\ aecOut' = o /\ firstFrm' = (firstFrm /\ ReadyOf(Frame) = <<>>)
  BY <1>2, PreprocessIs
<1>9. /\ Len(package') = p /\ (package' = <<>> <=> ReadyOf(Frame) = <<>>)
      /\ package' \in Seq(Samples)
      /\ \A i \in 1..p : package'[i] = IF firstFrm /\ i = 1 THEN Mark ELSE o[i]
  BY <1>2, PackageFacts
<1>10. Done = Fed - La /\ Gone = Done - Lk
  BY DEF Done, Gone
<1>11. Done' = Fed' - Len(aecIn') /\ Gone' = Done' - Len(AecKept')
  BY DEF Done, Gone
<1>12. Len(AecKept') = Len(o) - p
  <2>1. AecKept' = From(o, p)
    BY <1>8 DEF AecKept, PutOut
  <2> HIDE DEF o, p
  <2>2. Len(From(o, p)) = Len(o) - p
    BY <1>7, FromFacts
  <2> QED
    BY <2>1, <2>2
<1>13. firstFrm \in BOOLEAN /\ (firstFrm <=> Gone = 0)
  BY DEF Stages, TypeOK
<1> HIDE DEF La, Lo, Lk, f, w, o, p, l, Pair
<1>14. Gone \in Nat
  BY <1>4, <1>6, <1>10
<1>15. \A i \in 1..Len(f) : f[i].mic = CalLen + Done + i
  <2>1. ASSUME NEW i \in 1..Len(f), i <= La PROVE f[i].mic = CalLen + Done + i
    <3>1. i \in 1..La
      BY <1>4, <1>5, <2>1
    <3> QED
      BY <1>4, <1>5, <3>1
  <2>2. ASSUME NEW i \in 1..Len(f), i > La PROVE f[i].mic = CalLen + Done + i
    <3>1. i - La \in 1..l /\ CalLen + Fed + (i - La) = CalLen + Done + i
      BY <1>1, <1>3, <1>4, <1>5, <1>10, <2>2
    <3>2. f[i] = Pairs(Frame)[i - La]
      BY <1>5, <2>2
    <3> QED
      BY <1>3, <3>1, <3>2
  <2> QED
    BY <1>4, <1>5, <2>1, <2>2
<1>16. /\ Len(aecIn') = Len(f) - w /\ w \in Nat /\ Len(f) \in Nat
       /\ \A i \in 1..Len(aecIn') : w + i \in 1..Len(f) /\ aecIn'[i] = f[w + i]
  <2>1. Len(f) \in Nat /\ w \in Nat
    BY <1>5
  <2>2. Len(From(f, w)) = Len(f) - w /\ \A i \in 1..(Len(f) - w) : From(f, w)[i] = f[w + i]
    <3>1. f \in Seq(Pair) /\ w \in 0..Len(f)
      BY <1>5
    <3> QED
      BY <3>1, FromFacts
  <2> QED
    BY <1>5, <1>8, <2>1, <2>2
<1>17. Done' = Done + w /\ Gone' = Gone + p /\ Len(aecIn') <= Fed'
  <2>1. p \in Nat /\ Len(o) \in Nat
    BY <1>6, <1>7, <1>16
  <2>2. Done' = Done + w /\ Len(aecIn') <= Fed'
    BY <1>3, <1>4, <1>5, <1>10, <1>11, <1>16
  <2> QED
    <3>1. Lk \in Nat /\ Done \in Nat /\ w \in Nat /\ Len(o) = Lk + w /\ Gone = Done - Lk
      BY <1>4, <1>6, <1>7, <1>10, <1>16
    <3>2. Gone' = Done' - Len(AecKept')
      BY <1>11
    <3>4. Len(AecKept') = Lk + w - p
      BY <1>12, <2>1, <3>1
    <3>3. Gone' = Gone + p
      <4> DEFINE k2 == Len(AecKept')
                 d2 == Done'
      <4>1. Gone' = d2 - k2 /\ k2 = Lk + w - p /\ d2 = Done + w
        BY <2>2, <3>2, <3>4
      <4> HIDE DEF k2, d2
      <4> QED
        BY <2>1, <3>1, <4>1
    <3> QED
      BY <2>2, <3>3
<1>18. \A i \in 1..Len(aecIn') : aecIn'[i].mic = CalLen + Done' + i
  <2> TAKE i \in 1..Len(aecIn')
  <2>1. w + i \in 1..Len(f) /\ aecIn'[i] = f[w + i]
    BY <1>16
  <2>2. f[w + i].mic = CalLen + Done + (w + i)
    BY <1>15, <2>1
  <2>3. i \in Nat
    BY <1>16
  <2> QED
    BY <1>1, <1>4, <1>16, <1>17, <2>1, <2>2, <2>3
<1>19. \A i \in 1..Len(o) : o[i] = CalLen + Gone + i
  <2>1. ASSUME NEW i \in 1..Len(o), i <= Lk PROVE o[i] = CalLen + Gone + i
    <3>1. i \in 1..Lk
      BY <1>6, <1>7, <1>16, <2>1
    <3>2. o[i] = aecOut[Lo - Lk + i] /\ Lo - Lk + i \in 1..Lo
      BY <1>6, <1>7, <3>1
    <3>3. aecOut[Lo - Lk + i] = CalLen + Done - Lo + (Lo - Lk + i)
      BY <1>4, <3>2
    <3>4. /\ CalLen \in Nat /\ Done \in Nat /\ Lo \in Nat /\ Lk \in Nat /\ i \in Nat
          /\ Gone = Done - Lk
      BY <1>1, <1>4, <1>6, <1>10, <3>1
    <3>5. CalLen + Done - Lo + (Lo - Lk + i) = CalLen + Gone + i
      BY <3>4
    <3>6. o[i] = AecKept[i] /\ AecKept[i] = aecOut[Lo - Lk + i]
      BY <1>6, <1>7, <3>1
    <3> QED
      BY <3>3, <3>5, <3>6
  <2>2. ASSUME NEW i \in 1..Len(o), i > Lk PROVE o[i] = CalLen + Gone + i
    <3>1. i - Lk \in 1..w /\ o[i] = f[i - Lk].mic /\ i - Lk \in 1..Len(f)
      BY <1>5, <1>7, <1>16, <2>2
    <3>2. f[i - Lk].mic = CalLen + Done + (i - Lk)
      BY <1>15, <3>1
    <3>3. Lk \in Nat /\ Done \in Nat /\ i \in Nat /\ Gone = Done - Lk
      BY <1>4, <1>6, <1>7, <1>10, <1>16
    <3>4. CalLen + Done + (i - Lk) = CalLen + Gone + i
      BY <1>1, <3>3
    <3> QED
      BY <3>1, <3>2, <3>4
  <2>3. \A i \in 1..Len(o) : i <= Lk \/ i > Lk
    BY <1>6
  <2> QED
    BY <2>1, <2>2, <2>3
<1>20. /\ Len(aecOut') <= Done'
       /\ \A i \in 1..Len(aecOut') : aecOut'[i] = CalLen + Done' - Len(aecOut') + i
  <2>1. Len(aecOut') = Lk + w /\ Done' - Len(aecOut') = Gone /\ Len(o) = Len(aecOut')
    <3>1. Lk \in Nat /\ Done \in Nat /\ w \in Nat /\ Gone = Done - Lk
      BY <1>4, <1>6, <1>10, <1>16
    <3>2. aecOut' = o /\ Len(o) = Lk + w
      BY <1>7, <1>8
    <3>3. Done' - (Lk + w) = Gone
      <4> DEFINE d2 == Done'
      <4>1. d2 = Done + w
        BY <1>17
      <4> HIDE DEF d2
      <4>2. d2 - (Lk + w) = Gone
        BY <3>1, <4>1
      <4> QED
        BY <4>2 DEF d2
    <3> QED
      BY <3>2, <3>3
  <2>2. CalLen + Done' - Len(aecOut') = CalLen + Gone
    BY <1>1, <1>4, <1>6, <1>16, <1>17, <2>1
  <2>3. Len(aecOut') <= Done'
    BY <1>4, <1>6, <1>14, <1>16, <1>17, <2>1
  <2> QED
    BY <1>8, <1>19, <2>1, <2>2, <2>3
<1>21. p \in Nat /\ Len(o) \in Nat
  BY <1>6, <1>7, <1>16
<1>22. firstFrm' <=> Gone' = 0
  <2>1. package' = <<>> <=> p = 0
    BY <1>9, EmptySeq
  <2> QED
    <3>1. firstFrm' <=> firstFrm /\ p = 0
      BY <1>8, <1>9, <2>1
    <3>2. Gone' = 0 <=> Gone = 0 /\ p = 0
      BY <1>14, <1>17, <1>21
    <3> QED
      BY <1>13, <3>1, <3>2
<1>23. /\ Len(package') <= Gone'
       /\ \A i \in 1..Len(package') : package'[i] = Num(Gone' - Len(package') + i)
  <2>1. Gone' - Len(package') = Gone /\ Len(package') <= Gone'
    BY <1>9, <1>14, <1>17, <1>21
  <2>2. ASSUME NEW i \in 1..p PROVE package'[i] = Num(Gone + i)
    <3>1. i \in 1..Len(o)
      BY <1>7, <1>21
    <3>2. o[i] = CalLen + Gone + i
      BY <1>19, <3>1
    <3>3. package'[i] = IF firstFrm /\ i = 1 THEN Mark ELSE o[i]
      BY <1>9
    <3>4. (firstFrm /\ i = 1) <=> Gone + i = 1
      BY <1>13, <1>14
    <3>5. CalLen + (Gone + i) = CalLen + Gone + i
      BY <1>1, <1>14
    <3> QED
      BY <3>2, <3>3, <3>4, <3>5 DEF Num
  <2> QED
    BY <1>9, <2>1, <2>2
<1>24. mpc' # "push" => package' = <<>>
  BY <1>2
<1>25. calLeft' = IF taken' < CalLen THEN CalLen - taken' ELSE 0
  BY ReadCounts
<1>26. \E q \in Nat : taken' = q * FrameLen
  <2>1. PICK q \in Nat : taken = q * FrameLen
    BY DEF Stages
  <2>2. taken' = (q + 1) * FrameLen
    BY <1>1, <1>2, <2>1
  <2> QED
    BY <2>2
<1>27. Stages'
  BY <1>17, <1>18, <1>20, <1>22, <1>23, <1>24, <1>25, <1>26 DEF Stages
<1> QED
  BY <1>9, <1>14, <1>17, <1>27

\* What is recorded follows what is taken.
LEMMA WireStep == TypeOK /\ WireHolds /\ [Next]_vars => WireHolds'
<1> SUFFICES ASSUME TypeOK, WireHolds, [Next]_vars PROVE WireHolds'
  OBVIOUS
<1>1. CASE UNCHANGED <<wireVars, taken>>
  BY <1>1 DEF wireVars, WireHolds
<1>2. CASE Record
  <2> DEFINE n == Smaller(piece, FrameLen - (recorded % FrameLen))
             new == [i \in 1..n |-> recorded + i]
  <2>1. n \in Nat
    BY PieceFacts
  <2>2. wire' = wire \o new /\ recorded' = recorded + n /\ taken' = taken
    BY <1>2 DEF Record, stageVars
  <2> HIDE DEF n
  <2>3. new \in Seq(Samples) /\ Len(new) = n /\ \A i \in 1..n : new[i] = recorded + i
    BY <2>1 DEF TypeOK, Samples
  <2> HIDE DEF new
  <2>4. wire \in Seq(Samples) /\ Len(wire) \in Nat /\ recorded \in Nat /\ taken \in Nat
          /\ recorded = taken + Len(wire) /\ \A i \in 1..Len(wire) : wire[i] = taken + i
    BY DEF TypeOK, WireHolds
  <2>5. /\ Len(wire \o new) = Len(wire) + n
        /\ \A i \in 1..Len(wire) : (wire \o new)[i] = wire[i]
        /\ \A i \in 1..(Len(wire) + n) : i > Len(wire) => (wire \o new)[i] = new[i - Len(wire)]
    BY <2>3, <2>4, CatFacts
  <2>6. ASSUME NEW i \in 1..Len(wire') PROVE wire'[i] = taken' + i
    <3>1. CASE i <= Len(wire)
      <4>1. i \in 1..Len(wire)
        BY <2>4, <3>1
      <4> QED
        BY <2>2, <2>4, <2>5, <4>1
    <3>2. CASE i > Len(wire)
      <4>1. /\ i \in 1..(Len(wire) + n) /\ i - Len(wire) \in 1..n
            /\ recorded + (i - Len(wire)) = taken + i
        BY <2>1, <2>2, <2>4, <2>5, <3>2
      <4>2. wire'[i] = new[i - Len(wire)]
        BY <2>2, <2>5, <3>2, <4>1
      <4> QED
        BY <2>2, <2>3, <4>1, <4>2
    <3> QED
      BY <2>4, <3>1, <3>2
  <2>7. recorded' = taken' + Len(wire')
    BY <2>1, <2>2, <2>4, <2>5
  <2> QED
    BY <2>6, <2>7 DEF WireHolds
<1>3. CASE MainRead
  <2> DEFINE k == Read
  <2>1. /\ k \in 1..FrameLen /\ k <= Len(wire) /\ wire' = From(wire, k)
        /\ taken' = taken + k /\ recorded' = recorded /\ Len(From(wire, k)) = Len(wire) - k
        /\ \A i \in 1..(Len(wire) - k) : From(wire, k)[i] = wire[k + i]
    BY <1>3, ReadFacts, MainReadIs
  <2> HIDE DEF k
  <2>2. /\ Len(wire) \in Nat /\ recorded \in Nat /\ taken \in Nat /\ k \in Nat
        /\ recorded = taken + Len(wire) /\ \A i \in 1..Len(wire) : wire[i] = taken + i
    <3>1. k \in Nat
      BY <2>1, LengthsPositive
    <3>2. wire \in Seq(Samples) /\ recorded \in Nat /\ taken \in Nat
      BY DEF TypeOK
    <3> QED
      BY <3>1, <3>2 DEF WireHolds
  <2>3. ASSUME NEW i \in 1..Len(wire') PROVE wire'[i] = taken' + i
    <3>1. i \in 1..(Len(wire) - k) /\ k + i \in 1..Len(wire)
      BY <2>1, <2>2
    <3>2. wire'[i] = wire[k + i] /\ wire[k + i] = taken + (k + i)
      BY <2>1, <2>2, <3>1
    <3> QED
      BY <2>1, <2>2, <3>1, <3>2
  <2>4. recorded' = taken' + Len(wire')
    BY <2>1, <2>2
  <2> QED
    BY <2>3, <2>4 DEF WireHolds
<1> QED
  BY <1>1, <1>2, <1>3
     DEF Next, Main, vars, SetRecording, MainWait, MainPush, Process, ProcessNull, stageVars

\* A number in the q-th block of len.
LEMMA InBlock ==
  ASSUME NEW q \in Nat, NEW len \in Nat \ {0}, NEW r \in 0..(len - 1)
  PROVE  (q * len + r) \div len = q
<1> DEFINE n == q * len
           d == (n + r) \div len
           e == (n + r) % len
<1>1. n \in Nat
  OBVIOUS
<1>2. d \in Nat /\ e \in 0..(len - 1) /\ n + r = len * d + e
  <2> HIDE DEF n
  <2> QED BY <1>1
<1> HIDE DEF d, e
<1>3. len * d + e = len * q + r
  BY <1>2 DEF n
<1>4. d <= q
  <2> SUFFICES ASSUME d > q PROVE FALSE
    BY <1>2
  <2>1. PICK x \in Nat : d = q + 1 + x
    <3>1. d - q - 1 \in Nat /\ d = q + 1 + (d - q - 1)
      BY <1>2
    <3> QED BY <3>1
  <2>2. len * d = len * q + len + len * x /\ len * x \in Nat /\ len * q \in Nat
    BY <2>1
  <2> QED
    BY <1>2, <1>3, <2>2
<1>5. d >= q
  <2> SUFFICES ASSUME d < q PROVE FALSE
    BY <1>2
  <2>1. PICK x \in Nat : q = d + 1 + x
    <3>1. q - d - 1 \in Nat /\ q = d + 1 + (q - d - 1)
      BY <1>2
    <3> QED BY <3>1
  <2>2. len * q = len * d + len + len * x /\ len * x \in Nat /\ len * d \in Nat
    BY <1>2, <2>1
  <2> QED
    BY <1>2, <1>3, <2>2
<1> QED
  BY <1>2, <1>4, <1>5 DEF d, n

\* A read skews the samples of the frame in which the calibration ends, no others.
LEMMA ReadSkews ==
  ASSUME TypeOK, WireHolds, Stages, SkewedInFrame, MainRead, Read = FrameLen
  PROVE  SkewedInFrame'
<1> DEFINE ps == Pairs(Frame)
           D == {j \in DOMAIN ps : ps[j].mic # ps[j].ref}
<1>1. skewed' = skewed \cup {ps[i].mic : i \in D}
  BY MainReadIs, PreprocessIs
<1>2. /\ taken \in Nat /\ CalLen \in Nat \ {0} /\ FrameLen \in Nat \ {0} /\ calLeft \in 0..CalLen
      /\ Frame \in Seq(Samples) /\ Len(Frame) = FrameLen
  BY LengthsPositive, ReadFacts, MainReadIs DEF TypeOK
<1>3. \A i \in 1..FrameLen : Frame[i] = taken + i
  BY ReadCounts
<1>4. /\ Cut \in 0..FrameLen /\ DOMAIN ps = 1..(FrameLen - Cut)
      /\ \A i \in 1..(FrameLen - Cut) :
           i + Cut \in 1..FrameLen /\ ps[i] = [mic |-> Frame[i + Cut], ref |-> Frame[i]]
  <2>1. /\ Cut \in 0..FrameLen /\ ps \in Seq(Pair) /\ Len(ps) = FrameLen - Cut
        /\ \A i \in 1..(FrameLen - Cut) :
             i + Cut \in 1..FrameLen /\ ps[i] = [mic |-> Frame[i + Cut], ref |-> Frame[i]]
    BY <1>2, PairsFacts
  <2> HIDE DEF ps, Pair
  <2>2. DOMAIN ps = 1..(FrameLen - Cut)
    BY <2>1
  <2> QED
    BY <2>1, <2>2
<1>5. Cut # 0 => taken < CalLen /\ (Cut = FrameLen \/ Cut = CalLen - taken)
  BY ReadCounts
<1>6. PICK q \in Nat : taken = q * FrameLen
  BY DEF Stages
<1> HIDE DEF ps
<1>7. ASSUME NEW i \in D PROVE (ps[i].mic - 1) \div FrameLen = (CalLen - 1) \div FrameLen
  <2>1. i \in 1..(FrameLen - Cut) /\ i \in 1..FrameLen /\ i + Cut \in 1..FrameLen
    BY <1>2, <1>4
  <2>2. ps[i].mic = Frame[i + Cut] /\ ps[i].ref = Frame[i]
    BY <1>4, <2>1
  <2>3. ps[i].mic = taken + (i + Cut) /\ ps[i].ref = taken + i
    BY <1>3, <2>1, <2>2
  <2>4. Cut # 0
    BY <1>2, <2>1, <2>3
  <2>5. Cut = CalLen - taken /\ Cut < FrameLen
    BY <1>2, <1>4, <1>5, <2>1, <2>4
  <2>6. /\ ps[i].mic - 1 = taken + (i + Cut - 1) /\ i + Cut - 1 \in 0..(FrameLen - 1)
        /\ CalLen - 1 = taken + (Cut - 1) /\ Cut - 1 \in 0..(FrameLen - 1)
    BY <1>2, <1>4, <2>1, <2>3, <2>4, <2>5
  <2>7. /\ (q * FrameLen + (i + Cut - 1)) \div FrameLen = q
        /\ (q * FrameLen + (Cut - 1)) \div FrameLen = q
    BY <1>2, <2>6, InBlock
  <2> QED
    BY <1>6, <2>6, <2>7
<1> HIDE DEF D
<1> QED
  BY <1>1, <1>7 DEF SkewedInFrame

\* The inductive invariant of the order: undisturbed, every stage holds its samples.
OrderInv == WireHolds /\ (Undisturbed => Stages /\ SkewedInFrame)

\* At the start nothing has been taken.
LEMMA OrderInit == Init => OrderInv
<1> SUFFICES ASSUME Init PROVE OrderInv
  OBVIOUS
<1>1. CalLen \in Nat \ {0} /\ FrameLen \in Nat \ {0} /\ OutLen \in Nat \ {0} /\ TypeOK
  BY LengthsPositive, InitTypes
<1> USE DEF Init
<1>2. Len(wire) = 0 /\ Len(aecIn) = 0 /\ Len(aecOut) = 0 /\ Len(package) = 0
  OBVIOUS
<1>3. WireHolds
  BY <1>2 DEF WireHolds
<1>4. Len(AecKept) = 0
  BY <1>1, <1>2, KeptFacts DEF TypeOK
<1>5. Fed = 0 /\ Done = 0 /\ Gone = 0
  BY <1>1, <1>2, <1>4 DEF Fed, Done, Gone
<1>6. taken = 0 * FrameLen /\ 0 \in Nat
  BY <1>1
<1>7. Stages
  BY <1>1, <1>2, <1>5, <1>6 DEF Stages
<1>8. SkewedInFrame
  BY DEF SkewedInFrame
<1> QED
  BY <1>3, <1>7, <1>8 DEF OrderInv

\* Every step keeps the stages one behind the other.
LEMMA OrderStep == TypeOK /\ OrderInv /\ [Next]_vars => OrderInv'
<1> SUFFICES ASSUME TypeOK, OrderInv, [Next]_vars, Undisturbed'
             PROVE  Stages' /\ SkewedInFrame'
  BY WireStep DEF OrderInv
<1> USE DEF stageVars
<1>1. CASE UNCHANGED <<stageVars, package, mpc, short, lost>>
  BY <1>1 DEF OrderInv, Undisturbed, Stages, SkewedInFrame, Gone, Done, Fed, AecKept
<1>2. CASE MainWait
  BY <1>2 DEF MainWait, OrderInv, Undisturbed, Stages, SkewedInFrame, Gone, Done, Fed, AecKept
<1>3. CASE MainPush
  <2>1. /\ UNCHANGED stageVars /\ package' = <<>> /\ Undisturbed
        /\ Gone' = Gone /\ Done' = Done /\ Fed' = Fed
    BY <1>3 DEF MainPush, Undisturbed, TypeOK, Gone, Done, Fed, AecKept
  <2>2. Gone \in Nat
    <3>1. Len(AecKept) \in Nat /\ Len(AecKept) <= Len(aecOut) /\ Len(aecOut) \in Nat
      BY KeptFacts, LengthsPositive DEF TypeOK
    <3>2. Done \in Int /\ Len(aecOut) <= Done
      <4>1. taken \in Nat /\ CalLen \in Nat /\ Len(aecIn) \in Nat
        BY LengthsPositive DEF TypeOK
      <4>2. Fed \in Nat
        BY <4>1 DEF Fed
      <4> QED
        BY <2>1, <4>1, <4>2 DEF OrderInv, Stages, Done
    <3> QED
      BY <3>1, <3>2 DEF Gone
  <2>3. Len(package') = 0
    BY <2>1
  <2>4. Stages /\ SkewedInFrame
    BY <2>1 DEF OrderInv
  <2> QED
    BY <2>1, <2>2, <2>3, <2>4 DEF Stages, SkewedInFrame
<1>4. CASE MainRead
  <2>1. Read \in 1..FrameLen /\ short' = (short \/ Read < FrameLen) /\ lost' = lost /\ FrameLen \in Nat
    BY <1>4, LengthsPositive, ReadFacts, MainReadIs
  <2>2. Undisturbed /\ Read = FrameLen
    <3>1. short' \in BOOLEAN /\ ~short' /\ ~lost
      BY <2>1, TypesStep DEF Undisturbed, TypeOK
    <3>2. ~short /\ ~(Read < FrameLen)
      BY <2>1, <3>1, Zenon
    <3> QED
      BY <2>1, <3>1, <3>2 DEF Undisturbed
  <2> QED
    BY <1>4, <2>2, ReadStages, ReadSkews DEF OrderInv
<1> QED
  BY <1>1, <1>2, <1>3, <1>4 DEF Next, Main, vars, Record, SetRecording, Process, ProcessNull

\* The canceller gets every microphone sample with the reference of the same instant,
\* except in the one frame where the calibration ends; there r2mem_rdc moves the
\* microphones' samples up and leaves the references where they are.
THEOREM ReferencesAligned == Spec => []ReferenceAligned
<1>1. TypeOK /\ TypeOK' /\ OrderInv /\ [Next]_vars => OrderInv'
  BY OrderStep
<1>2. OrderInv => ReferenceAligned
  BY DEF OrderInv, SkewedInFrame, ReferenceAligned
<1> QED
  BY <1>1, <1>2, OrderInit, TypeCorrect, PTL DEF Spec

\* The packages of q hold the samples from the first to the last, in order; off[i] of
\* them left the canceller before the i-th package.
Laid(off, q, first, last) ==
  /\ off \in [1..(Len(q) + 1) -> Nat]
  /\ off[1] = first /\ off[Len(q) + 1] = last
  /\ \A i \in 1..Len(q) :
       /\ off[i + 1] = off[i] + Len(q[i])
       /\ \A j \in 1..Len(q[i]) : q[i][j] = Num(off[i] + j)

\* Undisturbed, what was delivered, what the beam former kept and the queue's packages
\* follow one another up to the samples that are about to be pushed.
Passed ==
  /\ \A i \in 1..Len(delivered) : delivered[i] = Num(i)
  /\ \A i \in 1..Len(bfIn) : bfIn[i] = Num(Len(delivered) + i)
  /\ \E off : Laid(off, queue, Len(delivered) + Len(bfIn), Gone - Len(package))

\* A package that is pushed begins where the queue ends.
LEMMA PushPasses ==
  ASSUME TypeOK, Gone \in Nat, Stages, Passed, MainPush, Undisturbed'
  PROVE  Passed'
<1> DEFINE n == Len(queue)
           S == Seq(Samples)
<1>1. /\ queue' = Append(queue, package) /\ package' = <<>>
      /\ UNCHANGED <<delivered, bfIn>>
  BY PushAppends DEF MainPush, Undisturbed, processorVars
<1>2. Gone' = Gone
  BY DEF MainPush, stageVars, Gone, Done, Fed, AecKept
<1>3. /\ queue \in Seq(S) /\ package \in S /\ n \in Nat
  BY DEF TypeOK
<1>4. Len(package) \in Nat /\ Len(package) <= Gone
        /\ \A j \in 1..Len(package) : package[j] = Num(Gone - Len(package) + j)
  BY <1>3 DEF Stages
<1> HIDE DEF S
<1>5. /\ Len(queue') = n + 1 /\ queue'[n + 1] = package
      /\ \A i \in 1..n : queue'[i] = queue[i]
  BY <1>1, <1>3
<1>6. PICK off : Laid(off, queue, Len(delivered) + Len(bfIn), Gone - Len(package))
  BY DEF Passed
<1> DEFINE new == [i \in 1..(n + 2) |-> IF i <= n + 1 THEN off[i] ELSE Gone]
<1>7. /\ off \in [1..(n + 1) -> Nat] /\ off[1] = Len(delivered) + Len(bfIn)
      /\ off[n + 1] = Gone - Len(package)
      /\ \A i \in 1..n :
           /\ off[i + 1] = off[i] + Len(queue[i])
           /\ \A j \in 1..Len(queue[i]) : queue[i][j] = Num(off[i] + j)
  BY <1>6 DEF Laid
<1> HIDE DEF n
<1>8. /\ new \in [1..(n + 2) -> Nat] /\ new[n + 2] = Gone
      /\ \A i \in 1..(n + 1) : new[i] = off[i]
  BY <1>3, <1>7
<1> HIDE DEF new
<1>9. \A i \in 1..(n + 1) :
        /\ new[i + 1] = new[i] + Len(queue'[i])
        /\ \A j \in 1..Len(queue'[i]) : queue'[i][j] = Num(new[i] + j)
  <2> TAKE i \in 1..(n + 1)
  <2>1. CASE i \in 1..n
    <3>1. i + 1 \in 1..(n + 1) /\ new[i + 1] = off[i + 1] /\ new[i] = off[i] /\ queue'[i] = queue[i]
      BY <1>3, <1>5, <1>8, <2>1
    <3> QED
      BY <1>7, <2>1, <3>1
  <2>2. CASE i = n + 1
    <3>1. new[i + 1] = Gone /\ new[i] = Gone - Len(package) /\ queue'[i] = package /\ i + 1 = n + 2
      BY <1>3, <1>5, <1>7, <1>8, <2>2
    <3> QED
      BY <1>4, <3>1
  <2> QED
    BY <1>3, <2>1, <2>2
<1>10. new[1] = Len(delivered') + Len(bfIn') /\ new[n + 2] = Gone' - Len(package')
  <2>1. 1 \in 1..(n + 1) /\ new[1] = off[1]
    BY <1>3, <1>8
  <2>2. Len(package') = 0
    BY <1>1
  <2> QED
    BY <1>1, <1>2, <1>7, <1>8, <2>1, <2>2
<1>11. (n + 1) + 1 = n + 2
  BY <1>3
<1>12. Laid(new, queue', Len(delivered') + Len(bfIn'), Gone' - Len(package'))
  BY <1>5, <1>8, <1>9, <1>10, <1>11 DEF Laid
<1> QED
  BY <1>1, <1>12 DEF Passed

\* The beam former takes whole frames and keeps the rest behind what it kept.
LEMMA ProcessPasses ==
  ASSUME TypeOK, Passed, Process
  PROVE  Passed'
<1> DEFINE n == Len(queue)
           s == Head(queue)
           all == bfIn \o s
           w == Whole(Len(all), BfLen)
           S == Seq(Samples)
           u == Upto(all, w)
           v == From(all, w)
           Ld == Len(delivered)
           Lb == Len(bfIn)
<1>1. /\ queue # <<>> /\ queue' = Tail(queue) /\ bfIn' = v /\ delivered' = delivered \o u
      /\ UNCHANGED <<package, stageVars>>
  BY DEF Process, BeamForm
<1>2. Gone' = Gone /\ package' = package
  BY <1>1 DEF stageVars, Gone, Done, Fed, AecKept
<1>3. /\ queue \in Seq(S) /\ n \in Nat \ {0} /\ s \in S /\ s = queue[1]
      /\ bfIn \in Seq(Samples) /\ delivered \in Seq(Samples) /\ Ld \in Nat /\ Lb \in Nat
  <2>1. queue \in Seq(S) /\ bfIn \in Seq(Samples) /\ delivered \in Seq(Samples)
    BY DEF TypeOK
  <2> HIDE DEF S
  <2> QED
    BY <1>1, <2>1
<1>4. PICK off : Laid(off, queue, Len(delivered) + Len(bfIn), Gone - Len(package))
  BY DEF Passed
<1>5. /\ off \in [1..(n + 1) -> Nat] /\ off[1] = Ld + Lb
      /\ off[n + 1] = Gone - Len(package)
      /\ \A i \in 1..n :
           /\ off[i + 1] = off[i] + Len(queue[i])
           /\ \A j \in 1..Len(queue[i]) : queue[i][j] = Num(off[i] + j)
  BY <1>4 DEF Laid
<1>6. s \in Seq(Samples) /\ Len(s) \in Nat
        /\ off[2] = Ld + Lb + Len(s) /\ \A j \in 1..Len(s) : s[j] = Num(Ld + Lb + j)
  <2>1. 1 \in 1..n /\ 1 + 1 = 2 /\ s \in Seq(Samples)
    BY <1>3
  <2> HIDE DEF n, s
  <2>2. off[2] = off[1] + Len(queue[1]) /\ \A j \in 1..Len(queue[1]) : queue[1][j] = Num(off[1] + j)
    BY <1>5, <2>1
  <2> QED
    BY <1>3, <1>5, <2>1, <2>2
<1> HIDE DEF s
<1>7. /\ all \in Seq(Samples) /\ Len(all) = Lb + Len(s)
      /\ \A i \in 1..Lb : all[i] = bfIn[i]
      /\ \A i \in 1..(Lb + Len(s)) : i > Lb => all[i] = s[i - Lb]
  BY <1>3, <1>6, CatFacts
<1> HIDE DEF all
<1>8. \A i \in 1..Len(all) : all[i] = Num(Ld + i)
  <2> TAKE i \in 1..Len(all)
  <2>1. CASE i <= Lb
    <3>1. i \in 1..Lb
      BY <1>3, <1>6, <1>7, <2>1
    <3> QED
      BY <1>7, <3>1 DEF Passed
  <2>2. CASE i > Lb
    <3>1. i - Lb \in 1..Len(s) /\ Ld + Lb + (i - Lb) = Ld + i
      BY <1>3, <1>6, <1>7, <2>2
    <3>2. all[i] = s[i - Lb]
      BY <1>7, <2>2
    <3> QED
      BY <1>6, <3>1, <3>2
  <2> QED
    BY <1>3, <1>7, <2>1, <2>2
<1>9. w \in 0..Len(all) /\ Len(all) \in Nat
  <2>1. Len(all) \in Nat /\ BfLen \in Nat \ {0}
    BY <1>7, LengthsPositive
  <2> QED
    BY <2>1, WholeFacts
<1> HIDE DEF w
<1>10. /\ u \in Seq(Samples) /\ Len(u) = w /\ \A i \in 1..w : u[i] = all[i]
       /\ v \in Seq(Samples) /\ Len(v) = Len(all) - w
       /\ \A i \in 1..(Len(all) - w) : v[i] = all[w + i]
  <2>1. w \in 0..Len(all) /\ all \in Seq(Samples)
    BY <1>7, <1>9
  <2>2. u \in Seq(Samples) /\ Len(u) = w /\ \A i \in 1..w : u[i] = all[i]
    BY <2>1, UptoFacts
  <2>3. /\ v \in Seq(Samples) /\ Len(v) = Len(all) - w
        /\ \A i \in 1..(Len(all) - w) : v[i] = all[w + i]
    BY <2>1, FromFacts
  <2> HIDE DEF u, v
  <2> QED
    BY <2>2, <2>3
<1> HIDE DEF u, v
<1>11. /\ Len(delivered') = Ld + w
       /\ \A i \in 1..Ld : delivered'[i] = delivered[i]
       /\ \A i \in 1..(Ld + w) : i > Ld => delivered'[i] = u[i - Ld]
  BY <1>1, <1>3, <1>10, CatFacts
<1>12. \A i \in 1..Len(delivered') : delivered'[i] = Num(i)
  <2> TAKE i \in 1..Len(delivered')
  <2>1. w \in Nat
    BY <1>9
  <2>2. CASE i <= Ld
    <3>1. i \in 1..Ld
      BY <1>3, <1>11, <2>1, <2>2
    <3> QED
      BY <1>11, <3>1 DEF Passed
  <2>3. CASE i > Ld
    <3>1. i - Ld \in 1..w /\ i - Ld \in 1..Len(all) /\ Ld + (i - Ld) = i
      BY <1>3, <1>9, <1>11, <2>1, <2>3
    <3>2. delivered'[i] = all[i - Ld]
      BY <1>10, <1>11, <2>3, <3>1
    <3> QED
      BY <1>8, <3>1, <3>2
  <2> QED
    BY <1>3, <1>11, <2>1, <2>2, <2>3
<1>13. \A i \in 1..Len(bfIn') : bfIn'[i] = Num(Len(delivered') + i)
  <2> TAKE i \in 1..Len(bfIn')
  <2>1. w \in Nat /\ i \in 1..(Len(all) - w) /\ w + i \in 1..Len(all) /\ Ld + (w + i) = Len(delivered') + i
    BY <1>1, <1>3, <1>9, <1>10, <1>11
  <2>2. bfIn'[i] = all[w + i] /\ all[w + i] = Num(Ld + (w + i))
    BY <1>1, <1>8, <1>10, <2>1
  <2> QED
    BY <2>1, <2>2
<1> DEFINE new == [i \in 1..n |-> off[i + 1]]
<1>14. /\ Len(queue') = n - 1 /\ n - 1 \in Nat
       /\ \A i \in 1..(n - 1) : queue'[i] = queue[i + 1]
  <2> HIDE DEF S
  <2> QED
    BY <1>1, <1>3
<1> HIDE DEF n
<1>15. /\ new \in [1..n -> Nat] /\ \A i \in 1..n : new[i] = off[i + 1]
  <2>1. \A i \in 1..n : i + 1 \in 1..(n + 1)
    BY <1>3
  <2> QED
    BY <1>5, <2>1
<1> HIDE DEF new
<1>16. new[1] = Len(delivered') + Len(bfIn')
  <2>1. 1 \in 1..n /\ new[1] = off[1 + 1] /\ 1 + 1 = 2
    BY <1>3, <1>15
  <2>2. Len(delivered') + Len(bfIn') = Ld + w + (Len(all) - w)
    BY <1>1, <1>10, <1>11
  <2>3. Ld + w + (Len(all) - w) = Ld + Lb + Len(s)
    <3>1. w \in Nat /\ Ld \in Nat /\ Lb \in Nat /\ Len(s) \in Nat /\ Len(all) = Lb + Len(s)
      BY <1>3, <1>6, <1>7, <1>9
    <3> QED
      BY <3>1
  <2> QED
    BY <1>6, <2>1, <2>2, <2>3
<1>17. new[n] = Gone' - Len(package')
  BY <1>2, <1>3, <1>5, <1>15
<1>18. \A i \in 1..(n - 1) :
         /\ new[i + 1] = new[i] + Len(queue'[i])
         /\ \A j \in 1..Len(queue'[i]) : queue'[i][j] = Num(new[i] + j)
  <2> TAKE i \in 1..(n - 1)
  <2>1. i \in 1..n /\ i + 1 \in 1..n
    BY <1>3, <1>14
  <2>2. new[i] = off[i + 1] /\ new[i + 1] = off[(i + 1) + 1] /\ queue'[i] = queue[i + 1]
    BY <1>14, <1>15, <2>1
  <2>3. /\ off[(i + 1) + 1] = off[i + 1] + Len(queue[i + 1])
        /\ \A j \in 1..Len(queue[i + 1]) : queue[i + 1][j] = Num(off[i + 1] + j)
    BY <1>5, <2>1
  <2> QED
    BY <2>2, <2>3
<1>19. (n - 1) + 1 = n
  BY <1>3
<1>20. Laid(new, queue', Len(delivered') + Len(bfIn'), Gone' - Len(package'))
  BY <1>14, <1>15, <1>16, <1>17, <1>18, <1>19 DEF Laid
<1> QED
  BY <1>12, <1>13, <1>20 DEF Passed

\* A null that is popped holds no sample.
LEMMA NullPasses ==
  ASSUME TypeOK, Passed, ProcessNull
  PROVE  Passed'
<1> DEFINE n == Len(queue)
           S == Seq(Samples)
<1>1. /\ queue # <<>> /\ queue' = Tail(queue) /\ Head(queue) = <<>>
      /\ UNCHANGED <<delivered, bfIn, package, stageVars>>
  BY DEF ProcessNull, NoPackage, processorVars
<1>2. Gone' = Gone
  BY <1>1 DEF stageVars, Gone, Done, Fed, AecKept
<1>3. queue \in Seq(S)
  BY DEF TypeOK
<1> HIDE DEF S
<1>4. /\ n \in Nat \ {0} /\ queue[1] = <<>> /\ Len(queue') = n - 1
      /\ \A i \in 1..(n - 1) : queue'[i] = queue[i + 1]
  BY <1>1, <1>3
<1>5. PICK off : Laid(off, queue, Len(delivered) + Len(bfIn), Gone - Len(package))
  BY DEF Passed
<1> HIDE DEF n
<1>6. /\ off \in [1..(n + 1) -> Nat] /\ off[1] = Len(delivered) + Len(bfIn)
      /\ off[n + 1] = Gone - Len(package)
      /\ \A i \in 1..n :
           /\ off[i + 1] = off[i] + Len(queue[i])
           /\ \A j \in 1..Len(queue[i]) : queue[i][j] = Num(off[i] + j)
  BY <1>5 DEF Laid, n
<1> DEFINE new == [i \in 1..n |-> off[i + 1]]
<1>7. /\ new \in [1..n -> Nat] /\ \A i \in 1..n : new[i] = off[i + 1]
  <2>1. \A i \in 1..n : i + 1 \in 1..(n + 1)
    BY <1>4
  <2> QED
    BY <1>6, <2>1
<1> HIDE DEF new
<1>8. new[1] = Len(delivered) + Len(bfIn)
  <2>1. 1 \in 1..n /\ 1 \in 1..(n + 1) /\ Len(queue[1]) = 0
    BY <1>4
  <2>2. off[1 + 1] = off[1] + Len(queue[1]) /\ new[1] = off[1 + 1] /\ off[1] \in Nat
    BY <1>6, <1>7, <2>1
  <2> QED
    BY <1>6, <2>1, <2>2
<1>9. new[n] = Gone - Len(package)
  BY <1>4, <1>6, <1>7
<1>10. \A i \in 1..(n - 1) :
         /\ new[i + 1] = new[i] + Len(queue'[i])
         /\ \A j \in 1..Len(queue'[i]) : queue'[i][j] = Num(new[i] + j)
  <2> TAKE i \in 1..(n - 1)
  <2>1. i \in 1..n /\ i + 1 \in 1..n
    BY <1>4
  <2>2. new[i] = off[i + 1] /\ new[i + 1] = off[(i + 1) + 1] /\ queue'[i] = queue[i + 1]
    BY <1>4, <1>7, <2>1
  <2>3. /\ off[(i + 1) + 1] = off[i + 1] + Len(queue[i + 1])
        /\ \A j \in 1..Len(queue[i + 1]) : queue[i + 1][j] = Num(off[i + 1] + j)
    BY <1>6, <2>1
  <2> QED
    BY <2>2, <2>3
<1>11. (n - 1) + 1 = n
  BY <1>4
<1>12. Laid(new, queue', Len(delivered) + Len(bfIn), Gone - Len(package))
  BY <1>4, <1>7, <1>8, <1>9, <1>10, <1>11 DEF Laid
<1> QED
  BY <1>1, <1>2, <1>12 DEF Passed

\* Every step keeps the packages one behind the other.
LEMMA PassedStep ==
  ASSUME TypeOK, OrderInv, Undisturbed => Passed, [Next]_vars, Undisturbed'
  PROVE  Passed'
<1> USE DEF stageVars, processorVars
<1>1. CASE UNCHANGED <<stageVars, package, queue, processorVars, short, lost>>
  <2>1. Gone' = Gone /\ Undisturbed
    BY <1>1 DEF Undisturbed, Gone, Done, Fed, AecKept
  <2> QED
    BY <1>1, <2>1 DEF Passed
<1>2. CASE MainPush
  <2>1. Undisturbed
    BY <1>2 DEF MainPush, Undisturbed, TypeOK
  <2>2. Stages
    BY <2>1 DEF OrderInv
  <2>3. Gone \in Nat
    <3>1. Len(AecKept) \in Nat /\ Len(AecKept) <= Len(aecOut) /\ Len(aecOut) \in Nat
      BY KeptFacts, LengthsPositive DEF TypeOK
    <3>2. taken \in Nat /\ CalLen \in Nat /\ Len(aecIn) \in Nat
      BY LengthsPositive DEF TypeOK
    <3>3. Fed \in Nat
      BY <3>2 DEF Fed
    <3> QED
      BY <2>2, <3>1, <3>2, <3>3 DEF Gone, Done, Stages
  <2> QED
    BY <1>2, <2>1, <2>2, <2>3, PushPasses
<1>3. CASE Process
  <2>1. Undisturbed
    BY <1>3 DEF Process, Undisturbed
  <2> QED
    BY <1>3, <2>1, ProcessPasses
<1>5. CASE ProcessNull
  <2>1. Undisturbed
    BY <1>5 DEF ProcessNull, Undisturbed
  <2> QED
    BY <1>5, <2>1, NullPasses
<1>4. CASE MainRead
  <2>1. /\ Read \in 1..FrameLen /\ short' = (short \/ Read < FrameLen) /\ lost' = lost /\ FrameLen \in Nat
        /\ UNCHANGED <<queue, delivered, bfIn>> /\ mpc = "read"
    BY <1>4, LengthsPositive, ReadFacts, MainReadIs
  <2>2. Undisturbed /\ Read = FrameLen
    <3>1. short' \in BOOLEAN /\ ~short' /\ ~lost
      BY <2>1, TypesStep DEF Undisturbed, TypeOK
    <3>2. ~short /\ ~(Read < FrameLen)
      BY <2>1, <3>1, Zenon
    <3> QED
      BY <2>1, <3>1, <3>2 DEF Undisturbed
  <2>3. Gone \in Nat /\ Gone' = Gone + Len(package') /\ Len(package') \in Nat
    <3>1. package' \in Seq(Samples)
      BY TypesStep DEF TypeOK
    <3> QED
      BY <1>4, <2>2, <3>1, ReadStages DEF OrderInv
  <2>4. Len(package) = 0 /\ Passed
    BY <2>1, <2>2 DEF OrderInv, Stages
  <2>5. Gone' - Len(package') = Gone - Len(package)
    BY <2>3, <2>4
  <2> QED
    BY <2>1, <2>4, <2>5 DEF Passed
<1> QED
  BY <1>1, <1>2, <1>3, <1>4, <1>5 DEF Next, Main, vars, Record, SetRecording, MainWait

\* Five stages, each with a length of its own, hand every sample behind the
\* calibration on once and in order, whatever the lengths, as long as no read came back
\* short and no package was lost; the first of them carries the mark.
THEOREM SamplesKeepOrder == Spec => []SamplesInOrder
<1> DEFINE Inv == OrderInv /\ (Undisturbed => Passed)
<1>1. Init => Inv
  <2> SUFFICES ASSUME Init PROVE Passed
    BY OrderInit
  <2>1. Gone = 0 /\ Len(package) = 0 /\ Len(queue) = 0 /\ Len(delivered) = 0 /\ Len(bfIn) = 0
    <3>1. CalLen \in Nat \ {0} /\ OutLen \in Nat \ {0} /\ TypeOK
      BY LengthsPositive, InitTypes
    <3>2. Len(aecIn) = 0 /\ Len(aecOut) = 0
      BY DEF Init
    <3>3. Len(AecKept) = 0
      BY <3>1, <3>2, KeptFacts DEF TypeOK
    <3> QED
      BY <3>1, <3>2, <3>3 DEF Init, Fed, Done, Gone
  <2>2. Laid([i \in 1..1 |-> 0], queue, Len(delivered) + Len(bfIn), Gone - Len(package))
    BY <2>1 DEF Laid
  <2> QED
    BY <2>1, <2>2 DEF Passed
<1>2. TypeOK /\ TypeOK' /\ Inv /\ [Next]_vars => Inv'
  BY OrderStep, PassedStep
<1>3. TypeOK /\ Inv => SamplesInOrder
  <2> SUFFICES ASSUME TypeOK, Inv, Undisturbed, NEW i \in DOMAIN delivered
               PROVE  delivered[i] = IF i = 1 THEN Mark ELSE CalLen + i
    BY DEF SamplesInOrder
  <2>1. i \in 1..Len(delivered)
    BY DEF TypeOK
  <2> QED
    BY <2>1 DEF Passed, Num
<1> HIDE DEF Inv
<1> QED
  BY <1>1, <1>2, <1>3, TypeCorrect, PTL DEF Spec
=============================================================================
