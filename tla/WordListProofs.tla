--------------------------- MODULE WordListProofs ---------------------------
(***************************************************************************)
(* The lists of words, proved for queues of any length, any words and any  *)
(* number of calls: their order, what a message holds of them, and that    *)
(* the engine ends up with them.                                           *)
(*                                                                         *)
(* Until one of the queues overflows the lists on their way are in the     *)
(* order they were pushed in, so the engine never goes back to an older    *)
(* one (IInv).  What is packed into a message comes out of it again        *)
(* (MessageCarriesWords, over any number of words of any length), so a     *)
(* list that is taken is the list that was pushed (Contents).              *)
(***************************************************************************)
EXTENDS WordList, SequenceTheorems, FiniteSetTheorems, WellFoundedInduction, TLAPS

\* The queues are sequences, of whatever the messages are.
Typed ==
  /\ serial \in Nat /\ shown \in Nat
  /\ \E S : /\ \A p \in S : p.serial \in Nat
            /\ requests \in Seq(S) /\ channel \in Seq(S) /\ packages \in Seq(S)

\* The numbers of the lists in a queue rise, whatever frames lie between them.
Rising(q) ==
  \A i, j \in 1 .. Len(q) :
    i < j /\ IsSync(q[i]) /\ IsSync(q[j]) => q[i].serial < q[j].serial

\* A list in the queue q was pushed before any list in r.
Before(q, r) ==
  \A i \in 1 .. Len(q), j \in 1 .. Len(r) :
    IsSync(q[i]) /\ IsSync(r[j]) => q[i].serial < r[j].serial

\* The lists in the queue are newer than low, the engine's, and no newer than high, the
\* one pushed last.
OnItsWay(q, low, high) ==
  \A i \in 1 .. Len(q) : IsSync(q[i]) => low < q[i].serial /\ q[i].serial <= high

InOrder ==
  /\ Rising(packages) /\ Rising(channel) /\ Rising(requests)
  /\ Before(packages, channel) /\ Before(packages, requests) /\ Before(channel, requests)
  /\ OnItsWay(packages, shown, serial)
  /\ OnItsWay(channel, shown, serial)
  /\ OnItsWay(requests, shown, serial)

Orderly == Typed /\ shown <= serial /\ InOrder

\* An overflow ends the order for good, so no step can lead back into it.
IInv == ~overflowed => Orderly

---------------------------------------------------------------------------
(* What the tail of a queue keeps, and what its extension needs *)

LEMMA TailFacts ==
  ASSUME NEW S, NEW q \in Seq(S), q # <<>>
  PROVE  /\ Head(q) = q[1] /\ Len(q) \in Nat /\ 1 \in 1 .. Len(q)
         /\ Tail(q) \in Seq(S)
         /\ \A i \in 1 .. Len(Tail(q)) : i + 1 \in 1 .. Len(q) /\ Tail(q)[i] = q[i + 1]
  BY HeadTailProperties, LenProperties, EmptySeq

LEMMA AppendFacts ==
  ASSUME NEW S, NEW q \in Seq(S), NEW e
  PROVE  /\ Append(q, e) \in Seq(S \cup {e})
         /\ Len(Append(q, e)) = Len(q) + 1 /\ Len(q) \in Nat
         /\ \A i \in 1 .. Len(q) : Append(q, e)[i] = q[i]
         /\ Append(q, e)[Len(q) + 1] = e
  <1>1. q \in Seq(S \cup {e})
    BY SeqMonotonic
  <1> QED
    BY <1>1, AppendProperties, LenProperties

LEMMA PushAppends ==
  ASSUME NEW S, NEW q \in Seq(S), NEW e, NEW slots \in Nat, ~(Len(q) >= slots)
  PROVE  Push(q, e, slots) = Append(q, e)
  BY LenProperties DEF Push, PushTo

LEMMA TailKeeps ==
  ASSUME NEW S, NEW q \in Seq(S), q # <<>>, NEW r, NEW low, NEW high
  PROVE  /\ Rising(q) => Rising(Tail(q))
         /\ Before(q, r) => Before(Tail(q), r)
         /\ Before(r, q) => Before(r, Tail(q))
         /\ OnItsWay(q, low, high) => OnItsWay(Tail(q), low, high)
  <1>1. Rising(q) => Rising(Tail(q))
    <2> SUFFICES ASSUME Rising(q),
                        NEW i \in 1 .. Len(Tail(q)), NEW j \in 1 .. Len(Tail(q)),
                        i < j, IsSync(Tail(q)[i]), IsSync(Tail(q)[j])
                 PROVE  Tail(q)[i].serial < Tail(q)[j].serial
      BY DEF Rising
    <2>1. i + 1 \in 1 .. Len(q) /\ j + 1 \in 1 .. Len(q) /\ i + 1 < j + 1
      BY TailFacts
    <2> QED
      BY <2>1, TailFacts DEF Rising
  <1>2. Before(q, r) => Before(Tail(q), r)
    BY TailFacts DEF Before
  <1>3. Before(r, q) => Before(r, Tail(q))
    BY TailFacts DEF Before
  <1>4. OnItsWay(q, low, high) => OnItsWay(Tail(q), low, high)
    BY TailFacts DEF OnItsWay
  <1> QED
    BY <1>1, <1>2, <1>3, <1>4

LEMMA AppendKeeps ==
  ASSUME NEW S, NEW q \in Seq(S), NEW e, NEW r, NEW low, NEW high
  PROVE  /\ Rising(q) /\ Before(q, <<e>>) => Rising(Append(q, e))
         /\ Before(q, r) /\ Before(<<e>>, r) => Before(Append(q, e), r)
         /\ Before(r, q) /\ Before(r, <<e>>) => Before(r, Append(q, e))
         /\ OnItsWay(q, low, high) /\ OnItsWay(<<e>>, low, high) => OnItsWay(Append(q, e), low, high)
  <1>e. Len(<<e>>) = 1 /\ <<e>>[1] = e
    OBVIOUS
  <1>i. \A i \in 1 .. Len(Append(q, e)) :
          \/ i \in 1 .. Len(q) /\ Append(q, e)[i] = q[i]
          \/ i = Len(q) + 1 /\ Append(q, e)[i] = e
    BY AppendFacts
  <1>1. Rising(q) /\ Before(q, <<e>>) => Rising(Append(q, e))
    <2> SUFFICES ASSUME Rising(q), Before(q, <<e>>),
                        NEW i \in 1 .. Len(Append(q, e)), NEW j \in 1 .. Len(Append(q, e)),
                        i < j, IsSync(Append(q, e)[i]), IsSync(Append(q, e)[j])
                 PROVE  Append(q, e)[i].serial < Append(q, e)[j].serial
      BY DEF Rising
    <2>1. i \in 1 .. Len(q) /\ Append(q, e)[i] = q[i]
      BY <1>i, AppendFacts
    <2>2. CASE j \in 1 .. Len(q) /\ Append(q, e)[j] = q[j]
      BY <2>1, <2>2 DEF Rising
    <2>3. CASE j = Len(q) + 1 /\ Append(q, e)[j] = e
      BY <2>1, <2>3, <1>e DEF Before
    <2> QED
      BY <1>i, <2>2, <2>3
  <1>2. Before(q, r) /\ Before(<<e>>, r) => Before(Append(q, e), r)
    BY <1>e, <1>i DEF Before
  <1>3. Before(r, q) /\ Before(r, <<e>>) => Before(r, Append(q, e))
    BY <1>e, <1>i DEF Before
  <1>4. OnItsWay(q, low, high) /\ OnItsWay(<<e>>, low, high) => OnItsWay(Append(q, e), low, high)
    BY <1>e, <1>i DEF OnItsWay
  <1> QED
    BY <1>1, <1>2, <1>3, <1>4

LEMMA HeadKeeps ==
  ASSUME NEW S, NEW q \in Seq(S), q # <<>>, NEW r, NEW low, NEW high
  PROVE  /\ Rising(q) => Before(<<Head(q)>>, Tail(q))
         /\ Before(q, r) => Before(<<Head(q)>>, r)
         /\ Before(r, q) => Before(r, <<Head(q)>>)
         /\ OnItsWay(q, low, high) => OnItsWay(<<Head(q)>>, low, high)
  <1>h. Len(<<Head(q)>>) = 1 /\ <<Head(q)>>[1] = Head(q)
    OBVIOUS
  <1>1. Rising(q) => Before(<<Head(q)>>, Tail(q))
    BY <1>h, TailFacts DEF Rising, Before
  <1>2. Before(q, r) => Before(<<Head(q)>>, r)
    BY <1>h, TailFacts DEF Before
  <1>3. Before(r, q) => Before(r, <<Head(q)>>)
    BY <1>h, TailFacts DEF Before
  <1>4. OnItsWay(q, low, high) => OnItsWay(<<Head(q)>>, low, high)
    BY <1>h, TailFacts DEF OnItsWay
  <1> QED
    BY <1>1, <1>2, <1>3, <1>4

---------------------------------------------------------------------------
(* The invariant *)

\* Nothing is on its way when the application starts.
LEMMA InitInOrder == Init => IInv
  <1> SUFFICES ASSUME Init PROVE Orderly
    BY DEF IInv
  <1>1. Typed
    <2>1. <<>> \in Seq({})
      BY EmptySeq
    <2> QED
      BY <2>1 DEF Init, Typed
  <1>2. InOrder
    BY EmptySeq DEF Init, InOrder, Rising, Before, OnItsWay
  <1> QED
    BY <1>1, <1>2 DEF Init, Orderly

\* A list that is pushed is newer than all others, and goes behind them.
LEMMA PushInOrder ==
  ASSUME Orderly, ~overflowed', NEW words, PushList(words), UNCHANGED <<channel, packages, shown>>
  PROVE  Orderly'
  <1> DEFINE sync == Sync(words)
  <1>1. PICK S : /\ \A p \in S : p.serial \in Nat
                 /\ requests \in Seq(S) /\ channel \in Seq(S) /\ packages \in Seq(S)
    BY DEF Orderly, Typed
  <1>2. serial \in Nat /\ shown \in Nat /\ serial' = serial + 1 /\ shown <= serial
    BY DEF Orderly, Typed, PushList
  <1>3. requests' = Append(requests, sync)
    BY <1>1, PushAppends, SlotsAreCounted DEF PushList
  <1>4. sync.serial = serial + 1
    BY DEF Sync
  <1> HIDE DEF sync
  <1>5. Typed'
    <2> DEFINE T == S \cup {sync}
    <2>1. \A p \in T : p.serial \in Nat
      BY <1>1, <1>2, <1>4
    <2>2. requests \in Seq(T) /\ channel \in Seq(T) /\ packages \in Seq(T)
      BY <1>1, SeqMonotonic
    <2>3. requests' \in Seq(T)
      BY <1>1, <1>3, <2>2, AppendFacts
    <2> QED
      BY <1>2, <2>1, <2>2, <2>3 DEF Typed
  <1>6. \A q \in {packages, channel, requests} : Before(q, <<sync>>)
    <2> SUFFICES ASSUME NEW q \in {packages, channel, requests},
                        NEW i \in 1 .. Len(q), IsSync(q[i])
                 PROVE  q[i].serial < sync.serial
      BY <1>4 DEF Before
    <2>1. q[i].serial \in Nat
      BY <1>1, ElementOfSeq
    <2>2. q[i].serial <= serial
      BY DEF Orderly, InOrder, OnItsWay
    <2> QED
      BY <1>2, <1>4, <2>1, <2>2
  <1>7. \A q \in {packages, channel, requests, <<sync>>} : OnItsWay(q, shown, serial + 1)
    <2> SUFFICES ASSUME NEW q \in {packages, channel, requests},
                        NEW i \in 1 .. Len(q), IsSync(q[i])
                 PROVE  shown < q[i].serial /\ q[i].serial <= serial + 1
      BY <1>2, <1>4 DEF OnItsWay
    <2>1. q[i].serial \in Nat
      BY <1>1, ElementOfSeq
    <2>2. shown < q[i].serial /\ q[i].serial <= serial
      BY DEF Orderly, InOrder, OnItsWay
    <2> QED
      BY <1>2, <2>1, <2>2
  <1>8. /\ Rising(requests') /\ Rising(packages') /\ Rising(channel')
        /\ Before(packages', channel') /\ Before(packages', requests')
        /\ Before(channel', requests')
    BY <1>1, <1>3, <1>6, AppendKeeps DEF Orderly, InOrder
  <1>9. /\ OnItsWay(packages', shown', serial') /\ OnItsWay(channel', shown', serial')
        /\ OnItsWay(requests', shown', serial')
    BY <1>1, <1>2, <1>3, <1>7, AppendKeeps
  <1> QED
    BY <1>2, <1>5, <1>8, <1>9 DEF Orderly, InOrder

\* A null leaves the request queue.
LEMMA SkipInOrder ==
  ASSUME Orderly, RequestSkip
  PROVE  Orderly'
  <1>1. PICK S : /\ \A p \in S : p.serial \in Nat
                 /\ requests \in Seq(S) /\ channel \in Seq(S) /\ packages \in Seq(S)
    BY DEF Orderly, Typed
  <1>2. /\ requests # <<>> /\ requests' = Tail(requests)
        /\ UNCHANGED <<channel, packages, serial, shown>>
    BY DEF RequestSkip
  <1>3. requests' \in Seq(S)
    BY <1>1, <1>2, HeadTailProperties
  <1>4. /\ Rising(Tail(requests)) /\ OnItsWay(Tail(requests), shown, serial)
        /\ Before(packages, Tail(requests)) /\ Before(channel, Tail(requests))
    BY <1>1, <1>2, TailKeeps DEF Orderly, InOrder
  <1> QED
    BY <1>1, <1>2, <1>3, <1>4 DEF Orderly, InOrder, Typed

\* The socket and the package queue take the head of the queue before them.
LEMMA WriteInOrder ==
  ASSUME Orderly, RequestWrite
  PROVE  Orderly'
  <1>1. PICK S : /\ \A p \in S : p.serial \in Nat
                 /\ requests \in Seq(S) /\ channel \in Seq(S) /\ packages \in Seq(S)
    BY DEF Orderly, Typed
  <1>2. /\ requests # <<>> /\ requests' = Tail(requests)
        /\ channel' = Append(channel, Head(requests))
        /\ packages' = packages /\ serial' = serial /\ shown' = shown
    BY DEF RequestWrite
  <1>3. requests' \in Seq(S) /\ channel' \in Seq(S)
    BY <1>1, <1>2, HeadTailProperties, AppendProperties
  <1>4. /\ Before(packages, <<Head(requests)>>) /\ Before(channel, <<Head(requests)>>)
        /\ Before(<<Head(requests)>>, Tail(requests))
        /\ OnItsWay(<<Head(requests)>>, shown, serial)
    BY <1>1, <1>2, HeadKeeps DEF Orderly, InOrder
  <1>5. /\ Rising(Tail(requests)) /\ OnItsWay(Tail(requests), shown, serial)
        /\ Before(packages, Tail(requests)) /\ Before(channel, Tail(requests))
    BY <1>1, <1>2, TailKeeps DEF Orderly, InOrder
  <1>6. /\ Rising(channel') /\ Before(packages, channel') /\ Before(channel', requests')
        /\ OnItsWay(channel', shown, serial)
    BY <1>1, <1>2, <1>4, <1>5, AppendKeeps DEF Orderly, InOrder
  <1> QED
    BY <1>1, <1>2, <1>3, <1>5, <1>6 DEF Orderly, InOrder, Typed

\* The package queue takes the head of the channel.
LEMMA TakeInOrder ==
  ASSUME Orderly, ~overflowed', BaseTake
  PROVE  Orderly'
  <1>1. PICK S : /\ \A p \in S : p.serial \in Nat
                 /\ requests \in Seq(S) /\ channel \in Seq(S) /\ packages \in Seq(S)
    BY DEF Orderly, Typed
  <1>2. /\ channel # <<>> /\ channel' = Tail(channel)
        /\ requests' = requests /\ serial' = serial /\ shown' = shown
        /\ packages' = Append(packages, Head(channel))
    BY <1>1, PushAppends, SlotsAreCounted DEF BaseTake, Enqueue
  <1>3. channel' \in Seq(S) /\ packages' \in Seq(S)
    BY <1>1, <1>2, HeadTailProperties, AppendProperties
  <1>4. /\ Before(packages, <<Head(channel)>>) /\ Before(<<Head(channel)>>, requests)
        /\ Before(<<Head(channel)>>, Tail(channel))
        /\ OnItsWay(<<Head(channel)>>, shown, serial)
    BY <1>1, <1>2, HeadKeeps DEF Orderly, InOrder
  <1>5. /\ Rising(Tail(channel)) /\ OnItsWay(Tail(channel), shown, serial)
        /\ Before(packages, Tail(channel)) /\ Before(Tail(channel), requests)
    BY <1>1, <1>2, TailKeeps DEF Orderly, InOrder
  <1>6. /\ Rising(packages') /\ Before(packages', channel') /\ Before(packages', requests)
        /\ OnItsWay(packages', shown, serial)
    BY <1>1, <1>2, <1>4, <1>5, AppendKeeps DEF Orderly, InOrder
  <1> QED
    BY <1>1, <1>2, <1>3, <1>5, <1>6 DEF Orderly, InOrder, Typed

\* A frame carries no list.
LEMMA FrameInOrder ==
  ASSUME Orderly, ~overflowed', FrameArrives
  PROVE  Orderly'
  <1>1. PICK S : /\ \A p \in S : p.serial \in Nat
                 /\ requests \in Seq(S) /\ channel \in Seq(S) /\ packages \in Seq(S)
    BY DEF Orderly, Typed
  <1>2. /\ channel' = channel /\ requests' = requests /\ serial' = serial /\ shown' = shown
        /\ packages' = Append(packages, Frame)
    BY <1>1, PushAppends, SlotsAreCounted DEF FrameArrives, Enqueue
  <1>3. Frame.serial = 0 /\ ~IsSync(Frame)
    BY DEF Frame, IsSync
  <1>4. Typed'
    <2> DEFINE T == S \cup {Frame}
    <2>1. \A p \in T : p.serial \in Nat
      BY <1>1, <1>3
    <2>2. requests \in Seq(T) /\ channel \in Seq(T) /\ packages' \in Seq(T)
      BY <1>1, <1>2, SeqMonotonic, AppendFacts
    <2> QED
      BY <1>2, <2>1, <2>2 DEF Typed, Orderly
  <1>5. /\ Before(packages, <<Frame>>) /\ Before(<<Frame>>, channel)
        /\ Before(<<Frame>>, requests) /\ OnItsWay(<<Frame>>, shown, serial)
    BY <1>3 DEF Before, OnItsWay
  <1>6. /\ Rising(packages') /\ Before(packages', channel) /\ Before(packages', requests)
        /\ OnItsWay(packages', shown, serial)
    BY <1>1, <1>2, <1>5, AppendKeeps DEF Orderly, InOrder
  <1> QED
    BY <1>2, <1>4, <1>6 DEF Orderly, InOrder

\* The package the process thread takes is older than all that follow it.
LEMMA ProcessInOrder ==
  ASSUME Orderly, ProcessOther \/ ProcessSync
  PROVE  /\ Orderly'
         /\ ProcessSync => Head(packages).serial > shown
  <1>1. PICK S : /\ \A p \in S : p.serial \in Nat
                 /\ requests \in Seq(S) /\ channel \in Seq(S) /\ packages \in Seq(S)
    BY DEF Orderly, Typed
  <1>2. /\ packages # <<>> /\ packages' = Tail(packages)
        /\ channel' = channel /\ requests' = requests /\ serial' = serial
    BY DEF ProcessOther, ProcessSync
  <1>3. packages' \in Seq(S) /\ Head(packages) \in S
    BY <1>1, <1>2, HeadTailProperties
  <1>4. /\ Before(<<Head(packages)>>, Tail(packages)) /\ Before(<<Head(packages)>>, channel)
        /\ Before(<<Head(packages)>>, requests) /\ OnItsWay(<<Head(packages)>>, shown, serial)
    BY <1>1, <1>2, HeadKeeps DEF Orderly, InOrder
  <1>5. /\ Rising(Tail(packages)) /\ OnItsWay(Tail(packages), shown, serial)
        /\ Before(Tail(packages), channel) /\ Before(Tail(packages), requests)
    BY <1>1, <1>2, TailKeeps DEF Orderly, InOrder
  <1>6. ASSUME shown' = shown PROVE Orderly'
    BY <1>1, <1>2, <1>3, <1>5, <1>6 DEF Orderly, InOrder, Typed
  <1>7. ProcessSync => shown < Head(packages).serial /\ Head(packages).serial <= serial
    BY <1>4 DEF ProcessSync, OnItsWay
  <1>8. ASSUME ProcessSync, shown' = Head(packages).serial PROVE Orderly'
    <2>1. shown' \in Nat /\ shown' <= serial /\ IsSync(Head(packages))
      BY <1>1, <1>3, <1>7, <1>8 DEF ProcessSync
    <2>2. \A q \in {Tail(packages), channel, requests} :
             OnItsWay(q, shown, serial) /\ Before(<<Head(packages)>>, q)
               => OnItsWay(q, shown', serial)
      BY <1>8, <2>1 DEF OnItsWay, Before
    <2>3. /\ OnItsWay(Tail(packages), shown', serial) /\ OnItsWay(channel, shown', serial)
          /\ OnItsWay(requests, shown', serial)
      BY <1>4, <1>5, <2>2 DEF Orderly, InOrder
    <2> QED
      BY <1>1, <1>2, <1>3, <1>5, <1>7, <2>1, <2>3 DEF Orderly, InOrder, Typed
  <1>9. shown' = shown \/ (ProcessSync /\ shown' = Head(packages).serial)
    BY DEF ProcessOther, ProcessSync
  <1> QED
    BY <1>6, <1>7, <1>8, <1>9 DEF Orderly, Typed

---------------------------------------------------------------------------
(* The order of the lists *)

\* No step takes an overflow back.
LEMMA OverflowStays ==
  ASSUME [Next]_vars, overflowed
  PROVE  overflowed'
  <1>1. CASE UNCHANGED overflowed
    BY <1>1
  <1>2. CASE AddVTWord
    <2>1. CASE AddError \/ AddDup
      BY <1>1, <2>1 DEF AddError, AddDup, AddRefused
    <2>2. CASE \E d \in BOOLEAN : AddOk(d)
      BY <2>2 DEF AddOk, PushList
    <2> QED
      BY <1>2, <2>1, <2>2 DEF AddVTWord
  <1>3. CASE RemoveVTWord
    BY <1>1, <1>3 DEF RemoveVTWord, RemoveRefused, RemoveOk, PushList
  <1>4. CASE BaseTake \/ FrameArrives
    BY <1>4 DEF BaseTake, FrameArrives, Enqueue
  <1>5. CASE Fill \/ RequestSkip \/ RequestWrite \/ ProcessOther \/ ProcessSync \/ UNCHANGED vars
    BY <1>1, <1>5 DEF Fill, RequestSkip, RequestWrite, ProcessOther, ProcessSync, vars
  <1> QED
    BY <1>2, <1>3, <1>4, <1>5 DEF Next

\* Every step keeps the order until a queue overflows.
LEMMA StepInOrder ==
  ASSUME IInv, [Next]_vars
  PROVE  IInv'
  <1> SUFFICES ASSUME ~overflowed'
               PROVE  Orderly'
    BY DEF IInv
  <1>0. ~overflowed /\ Orderly
    BY OverflowStays DEF IInv
  <1>1. CASE UNCHANGED <<requests, channel, packages, serial, shown>>
    <2>1. Typed'
      BY <1>0, <1>1 DEF Orderly, Typed
    <2> QED
      BY <1>0, <1>1, <2>1 DEF Orderly, InOrder
  <1>2. CASE Fill
    BY <1>1, <1>2 DEF Fill
  <1>3. CASE AddVTWord
    <2>1. CASE AddError \/ AddDup
      BY <1>1, <2>1 DEF AddError, AddDup, AddRefused, Call
    <2>2. CASE \E d \in BOOLEAN : AddOk(d)
      <3>1. PushList(vt_words') /\ UNCHANGED <<channel, packages, shown>>
        BY <2>2 DEF AddOk, Call
      <3> QED
        BY <1>0, <3>1, PushInOrder
    <2> QED
      BY <1>3, <2>1, <2>2 DEF AddVTWord
  <1>4. CASE RemoveVTWord
    <2>1. PICK name \in Names : RemoveRefused(name) \/ RemoveOk(name)
      BY <1>4 DEF RemoveVTWord
    <2>2. CASE RemoveRefused(name)
      BY <1>1, <2>2 DEF RemoveRefused, Call
    <2>3. CASE RemoveOk(name)
      <3>1. PushList(vt_words') /\ UNCHANGED <<channel, packages, shown>>
        BY <2>3 DEF RemoveOk, Call
      <3> QED
        BY <1>0, <3>1, PushInOrder
    <2> QED
      BY <2>1, <2>2, <2>3
  <1>5. CASE UNCHANGED vars
    BY <1>1, <1>5 DEF vars
  <1> QED
    BY <1>0, <1>2, <1>3, <1>4, <1>5, SkipInOrder, WriteInOrder, TakeInOrder,
       FrameInOrder, ProcessInOrder DEF Next

\* Whatever words are added and removed and at whatever speed the queues are emptied, the
\* process thread of the base takes each list at most once and never one older than the
\* engine has, as long as no push has found its slot taken.
THEOREM EngineNeverGoesBack == Spec => ListsOnlyGetNewer
  <1>1. IInv /\ [Next]_vars => IInv'
    BY StepInOrder
  <1>2. IInv => [ProcessSync /\ ~overflowed => Head(packages).serial > shown]_vars
    BY ProcessInOrder DEF IInv
  <1> QED
    BY <1>1, <1>2, InitInOrder, PTL DEF Spec, ListsOnlyGetNewer

---------------------------------------------------------------------------
(* Induction.  The library's induction theorems take an operator; what is  *)
(* needed of them can be said of a set (NatSet), from WFMin.               *)

Below == {r \in Nat \X Nat : r[1] < r[2]}

\* The order of the naturals is well-founded, as WFMin needs it.
LEMMA BelowWF == IsWellFoundedOn(Below, Nat)
  <1>1. OpToRel(<, Nat) = Below
    BY DEF OpToRel, Below
  <1> QED BY <1>1, NatLessThanWellFounded

\* A set that holds 0 and with every number the next holds all of them.
LEMMA NatSet ==
  ASSUME NEW S, 0 \in S, \A n \in Nat : n \in S => n + 1 \in S
  PROVE  Nat \subseteq S
  <1> DEFINE T == Nat \ S
  <1>1. SUFFICES ASSUME T # {} PROVE FALSE
    OBVIOUS
  <1>2. PICK x \in T : \A y \in T : ~(<<y, x>> \in Below)
    <2> HIDE DEF T
    <2>1. T \subseteq Nat BY DEF T
    <2> QED BY <1>1, <2>1, BelowWF, WFMin
  <1>3. x \in Nat /\ x # 0
    OBVIOUS
  <1>4. x - 1 \in Nat /\ x - 1 < x /\ (x - 1) + 1 = x
    BY <1>3
  <1>5. x - 1 \in S
    <2>1. <<x - 1, x>> \in Below BY <1>3, <1>4 DEF Below
    <2> QED BY <1>2, <1>4, <2>1
  <1> QED BY <1>3, <1>4, <1>5

---------------------------------------------------------------------------
(* A sequence of sequences, joined *)

\* The recursive function of FlattenSeq, for the first n of the sequences.
Joins(seqs, n, f) == f = [i \in 1 .. n |-> IF i = 1 THEN seqs[i] ELSE f[i - 1] \o seqs[i]]

\* The recursion has a solution, by induction over the number of sequences.
LEMMA JoinsExists ==
  ASSUME NEW seqs, NEW n \in Nat
  PROVE  \E f : Joins(seqs, n, f)
  <1> DEFINE S == {k \in Nat : \E f : Joins(seqs, k, f)}
  <1>1. 0 \in S
    <2>1. Joins(seqs, 0, <<>>)
      BY DEF Joins
    <2> QED BY <2>1
  <1>2. ASSUME NEW k \in S PROVE k + 1 \in S
    <2>1. PICK f : Joins(seqs, k, f)
      OBVIOUS
    <2> DEFINE g == [i \in 1 .. (k + 1) |->
                       IF i = k + 1 THEN IF i = 1 THEN seqs[i] ELSE f[k] \o seqs[i] ELSE f[i]]
    <2>2. \A i \in 1 .. k : f[i] = IF i = 1 THEN seqs[i] ELSE f[i - 1] \o seqs[i]
      BY <2>1 DEF Joins
    <2>3. ASSUME NEW i \in 1 .. (k + 1)
          PROVE  g[i] = IF i = 1 THEN seqs[i] ELSE g[i - 1] \o seqs[i]
      <3>1. CASE i = 1 /\ k = 0
        BY <3>1
      <3>2. CASE i = 1 /\ k # 0
        <4>1. i # k + 1 /\ i \in 1 .. k
          BY <3>2
        <4> QED BY <2>2, <3>2, <4>1
      <3>3. CASE i # 1 /\ i = k + 1
        <4>1. i - 1 = k /\ i - 1 # k + 1 /\ i - 1 \in 1 .. (k + 1)
          BY <3>3
        <4>2. g[i - 1] = f[k]
          BY <4>1
        <4> QED BY <3>3, <4>2
      <3>4. CASE i # 1 /\ i # k + 1
        <4>1. i - 1 # k + 1 /\ i - 1 \in 1 .. (k + 1) /\ i \in 1 .. k
          BY <3>4
        <4>2. g[i] = f[i] /\ g[i - 1] = f[i - 1]
          BY <3>4, <4>1
        <4> QED BY <2>2, <3>4, <4>1, <4>2
      <3> QED BY <3>1, <3>2, <3>3, <3>4
    <2>4. g = [i \in 1 .. (k + 1) |-> g[i]]
      OBVIOUS
    <2> HIDE DEF g
    <2>5. Joins(seqs, k + 1, g)
      BY <2>3, <2>4 DEF Joins
    <2> QED BY <2>5
  <1> HIDE DEF S
  <1>3. n \in S
    BY <1>1, <1>2, NatSet
  <1> QED BY <1>3 DEF S

\* Where the sequences lie in what they are joined to.
Placed(seqs, n, all, at) ==
  /\ at \in [1 .. n -> Nat]
  /\ n > 0 => at[1] = 0
  /\ \A i \in 1 .. n : i > 1 => at[i] = at[i - 1] + Len(seqs[i - 1])
  /\ \A i \in 1 .. n : at[i] + Len(seqs[i]) <= Len(all)
  /\ \A i \in 1 .. n : \A j \in 1 .. Len(seqs[i]) : all[at[i] + j] = seqs[i][j]

\* What concatenation does, with the elements of the two parts apart.
LEMMA ConcatFacts ==
  ASSUME NEW S, NEW s \in Seq(S), NEW t \in Seq(S)
  PROVE  /\ s \o t \in Seq(S) /\ Len(s \o t) = Len(s) + Len(t)
         /\ Len(s) \in Nat /\ Len(t) \in Nat
         /\ \A i \in 1 .. Len(s) : (s \o t)[i] = s[i]
         /\ \A i \in 1 .. Len(t) : (s \o t)[Len(s) + i] = t[i]
  <1>1. /\ s \o t \in Seq(S) /\ Len(s \o t) = Len(s) + Len(t)
        /\ Len(s) \in Nat /\ Len(t) \in Nat
        /\ \A i \in 1 .. Len(s) + Len(t) :
             (s \o t)[i] = IF i <= Len(s) THEN s[i] ELSE t[i - Len(s)]
    BY ConcatProperties, LenProperties
  <1> DEFINE u == s \o t
  <1> HIDE DEF u
  <1>2. \A i \in 1 .. Len(s) : u[i] = s[i]
    BY <1>1 DEF u
  <1>3. \A i \in 1 .. Len(t) : u[Len(s) + i] = t[i]
    <2> TAKE i \in 1 .. Len(t)
    <2>1. Len(s) + i \in 1 .. Len(s) + Len(t) /\ ~(Len(s) + i <= Len(s))
          /\ (Len(s) + i) - Len(s) = i
      BY <1>1
    <2> QED BY <1>1, <2>1 DEF u
  <1> QED BY <1>1, <1>2, <1>3 DEF u

\* Each of the first m sequences is found whole in their join, behind the one before.
LEMMA JoinsPlaced ==
  ASSUME NEW S, NEW seqs \in Seq(Seq(S)), NEW f, NEW n \in Nat, n <= Len(seqs),
         Joins(seqs, n, f)
  PROVE  \A m \in 1 .. n : f[m] \in Seq(S) /\ \E at : Placed(seqs, m, f[m], at)
  <1> DEFINE P(m) == f[m] \in Seq(S) /\ \E at : Placed(seqs, m, f[m], at)
                       /\ at[m] + Len(seqs[m]) = Len(f[m])
             K == {k \in Nat : k \in 1 .. n => P(k)}
  <1>0. Len(seqs) \in Nat /\ \A i \in 1 .. n : seqs[i] \in Seq(S) /\ Len(seqs[i]) \in Nat
    BY LenProperties, ElementOfSeq
  <1>f. \A i \in 1 .. n : f[i] = IF i = 1 THEN seqs[i] ELSE f[i - 1] \o seqs[i]
    BY DEF Joins
  <1>1. 0 \in K
    OBVIOUS
  <1>2. ASSUME NEW k \in K PROVE k + 1 \in K
    <2> SUFFICES ASSUME k + 1 \in 1 .. n PROVE P(k + 1)
      OBVIOUS
    <2>1. CASE k = 0
      <3>1. f[1] = seqs[1] /\ seqs[1] \in Seq(S) /\ Len(seqs[1]) \in Nat /\ 1 \in 1 .. n
        BY <1>0, <1>f, <2>1
      <3> DEFINE at == [i \in 1 .. 1 |-> 0]
      <3>2. at \in [1 .. 1 -> Nat] /\ at[1] = 0
        OBVIOUS
      <3> HIDE DEF at
      <3>3. \A i \in 1 .. 1 : i = 1
        OBVIOUS
      <3>4. \A j \in 1 .. Len(seqs[1]) : f[1][at[1] + j] = seqs[1][j]
        BY <3>1, <3>2
      <3>5. at[1] + Len(seqs[1]) = Len(f[1])
        BY <3>1, <3>2
      <3>6. Placed(seqs, 1, f[1], at)
        BY <3>1, <3>2, <3>3, <3>4, <3>5 DEF Placed
      <3>7. k + 1 = 1
        BY <2>1
      <3> QED BY <3>1, <3>5, <3>6, <3>7
    <2>2. CASE k # 0
      <3>1. /\ k \in 1 .. n /\ k + 1 # 1 /\ (k + 1) - 1 = k
        BY <2>2
      <3>2. f[k] \in Seq(S)
        BY <3>1
      <3>3. PICK a : Placed(seqs, k, f[k], a) /\ a[k] + Len(seqs[k]) = Len(f[k])
        BY <3>1
      <3>4. f[k + 1] = f[k] \o seqs[k + 1]
        BY <1>f, <3>1
      <3> DEFINE x == f[k]
                 y == seqs[k + 1]
                 z == f[k + 1]
                 at == [i \in 1 .. (k + 1) |-> IF i = k + 1 THEN Len(x) ELSE a[i]]
      <3>5. /\ z \in Seq(S) /\ Len(z) = Len(x) + Len(y) /\ Len(x) \in Nat /\ Len(y) \in Nat
            /\ \A i \in 1 .. Len(x) : z[i] = x[i]
            /\ \A i \in 1 .. Len(y) : z[Len(x) + i] = y[i]
        <4>1. x \in Seq(S) /\ y \in Seq(S) /\ z = x \o y
          BY <1>0, <3>2, <3>4
        <4> HIDE DEF x, y, z
        <4> QED BY <4>1, ConcatFacts
      <3> HIDE DEF x, z
      <3>6. /\ \A i \in 1 .. (k + 1) : i = k + 1 \/ (i \in 1 .. k /\ i # k + 1)
            /\ 1 \in 1 .. k /\ k + 1 \in 1 .. (k + 1) /\ k \in 1 .. k
        BY <3>1
      <3>7. /\ at[k + 1] = Len(x) /\ \A i \in 1 .. k : at[i] = a[i]
            /\ at \in [1 .. (k + 1) -> Nat]
        <4>1. at[k + 1] = Len(x)
          BY <3>6
        <4>2. \A i \in 1 .. k : at[i] = a[i]
          OBVIOUS
        <4>3. \A i \in 1 .. k : a[i] \in Nat
          BY <3>3 DEF Placed
        <4>4. \A i \in 1 .. (k + 1) : (IF i = k + 1 THEN Len(x) ELSE a[i]) \in Nat
          BY <3>5, <3>6, <4>3
        <4> QED BY <4>1, <4>2, <4>4
      <3> HIDE DEF at, y
      <3>p. /\ \A i \in 1 .. k : a[i] \in Nat /\ Len(seqs[i]) \in Nat
            /\ \A i \in 1 .. k : a[i] + Len(seqs[i]) <= Len(x)
            /\ \A i \in 1 .. k : \A j \in 1 .. Len(seqs[i]) : x[a[i] + j] = seqs[i][j]
            /\ a[1] = 0 /\ \A i \in 1 .. k : i > 1 => a[i] = a[i - 1] + Len(seqs[i - 1])
            /\ a[k] + Len(seqs[k]) = Len(x)
        <4>1. \A i \in 1 .. k : Len(seqs[i]) \in Nat
          BY <1>0, <3>1
        <4>2. 1 \in 1 .. k /\ k > 0
          BY <3>1
        <4> QED BY ONLY <3>3, <4>1, <4>2 DEF Placed, x
      <3>8. \A i \in 1 .. (k + 1) : i > 1 => at[i] = at[i - 1] + Len(seqs[i - 1])
        <4> TAKE i \in 1 .. (k + 1)
        <4>1. CASE i = k + 1
          <5>1. i - 1 = k /\ at[i] = Len(x) /\ at[k] = a[k] /\ a[k] + Len(seqs[k]) = Len(x)
            BY <3>1, <3>6, <3>7, <3>p, <4>1
          <5> QED BY ONLY <5>1
        <4>2. CASE i \in 1 .. k
          <5>1. i > 1 => i - 1 \in 1 .. k
            BY <4>2
          <5> QED BY <3>7, <3>p, <4>2, <5>1
        <4> QED BY <3>6, <4>1, <4>2
      <3>9. \A i \in 1 .. (k + 1) : at[i] + Len(seqs[i]) <= Len(z)
        <4> TAKE i \in 1 .. (k + 1)
        <4>1. CASE i = k + 1
          BY <3>5, <3>7, <4>1 DEF y
        <4>2. CASE i \in 1 .. k
          <5> DEFINE l == Len(seqs[i])
                     b == at[i]
          <5>a. l \in Nat /\ b \in Nat /\ b + l <= Len(x)
            BY <3>7, <3>p, <4>2
          <5> HIDE DEF l, b
          <5>b. b + l <= Len(z)
            BY <3>5, <5>a
          <5> QED BY <5>b DEF b, l
        <4> QED BY <3>6, <4>1, <4>2
      <3>10. \A i \in 1 .. (k + 1) : \A j \in 1 .. Len(seqs[i]) : z[at[i] + j] = seqs[i][j]
        <4> TAKE i \in 1 .. (k + 1)
        <4> TAKE j \in 1 .. Len(seqs[i])
        <4>1. CASE i = k + 1
          BY <3>5, <3>7, <4>1 DEF y
        <4>2. CASE i \in 1 .. k
          <5> DEFINE l == Len(seqs[i])
                     b == a[i]
          <5>a. l \in Nat /\ b \in Nat /\ j \in 1 .. l /\ b + l <= Len(x)
            BY <3>p, <4>2
          <5> HIDE DEF l, b
          <5>b. b + j \in 1 .. Len(x)
            BY <3>5, <5>a
          <5>1. a[i] + j \in 1 .. Len(x)
            BY <5>b DEF b
          <5>2. z[a[i] + j] = x[a[i] + j]
            BY <3>5, <5>1
          <5> QED BY <3>7, <3>p, <4>2, <5>2
        <4> QED BY <3>6, <4>1, <4>2
      <3>11. Placed(seqs, k + 1, z, at)
        BY <3>6, <3>7, <3>8, <3>9, <3>10, <3>p DEF Placed
      <3>12. at[k + 1] + Len(seqs[k + 1]) = Len(z)
        BY <3>5, <3>7 DEF y
      <3> QED BY <3>5, <3>11, <3>12 DEF z
    <2> QED BY <2>1, <2>2
  <1> HIDE DEF K
  <1>3. Nat \subseteq K
    BY <1>1, <1>2, NatSet
  <1> QED BY <1>3 DEF K

\* The same of FlattenSeq itself.
LEMMA FlattenPlaced ==
  ASSUME NEW S, NEW seqs \in Seq(Seq(S)), seqs # <<>>
  PROVE  /\ FlattenSeq(seqs) \in Seq(S)
         /\ \E at : Placed(seqs, Len(seqs), FlattenSeq(seqs), at)
  <1> DEFINE n == Len(seqs)
             f == CHOOSE g : Joins(seqs, n, g)
  <1>1. n \in Nat /\ n # 0
    BY LenProperties, EmptySeq
  <1>2. Joins(seqs, n, f)
    BY <1>1, JoinsExists
  <1>3. FlattenSeq(seqs) = f[n]
    BY <1>1 DEF FlattenSeq, Joins
  <1> HIDE DEF f, n
  <1>4. n \in 1 .. n /\ n <= Len(seqs)
    BY <1>1 DEF n
  <1>5. f[n] \in Seq(S) /\ \E at : Placed(seqs, n, f[n], at)
    BY <1>1, <1>2, <1>4, JoinsPlaced
  <1> QED BY <1>3, <1>5 DEF n

---------------------------------------------------------------------------
(* The message: what getVTWordFromMessage reads is what                    *)
(* allocateMessageFromVTWord was given.                                    *)

\* A text is a sequence without NUL.
LEMMA TextFacts ==
  ASSUME NEW t, IsText(t)
  PROVE  /\ Len(t) \in Nat /\ t \in Seq(Range(t))
         /\ \A i \in 1 .. Len(t) : t[i] # NUL
  <1>1. t \in Seq(Range(t) \ {NUL})
    BY DEF IsText
  <1>2. \A i \in 1 .. Len(t) : t[i] \in Range(t) \ {NUL}
    BY <1>1, ElementOfSeq
  <1> QED BY <1>1, <1>2, SeqMonotonic, LenProperties

\* The text t and its NUL follow offset k.
Carries(data, k, t) ==
  /\ k + Len(t) + 1 <= Len(data)
  /\ \A i \in 1 .. Len(t) : data[k + i] = t[i]
  /\ data[k + Len(t) + 1] = NUL

\* c_str() read where a text and its NUL were written gives the text.
LEMMA CStringIs ==
  ASSUME NEW S, NEW data \in Seq(S), NEW k \in Nat, NEW t, IsText(t), Carries(data, k, t)
  PROVE  CString(data, k) = t
  <1> DEFINE I == {i \in (k + 1) .. Len(data) : data[i] = NUL}
             l == Len(t)
             m == Len(data)
             e == k + l + 1
  <1>1. l \in Nat /\ m \in Nat /\ e <= m
    BY TextFacts, LenProperties DEF Carries
  <1>2. \A i \in 1 .. l : data[k + i] = t[i] /\ t[i] # NUL
    BY TextFacts DEF Carries
  <1>3. data[e] = NUL
    BY DEF Carries
  <1> HIDE DEF l, m
  <1>4. e \in (k + 1) .. m
    BY <1>1
  <1>5. e \in I
    BY <1>3, <1>4 DEF m
  <1>6. ASSUME NEW i \in I PROVE e <= i
    <2>1. i \in (k + 1) .. m /\ data[i] = NUL
      BY DEF m
    <2>2. ASSUME i < e PROVE FALSE
      <3>1. i - k \in 1 .. l /\ k + (i - k) = i
        BY <1>1, <2>1, <2>2
      <3> QED BY <1>2, <2>1, <3>1
    <2> QED BY <1>1, <2>1, <2>2
  <1>7. Min(I) = e
    <2>1. \A i \in I : i \in Nat
      BY <1>1 DEF m
    <2>2. e \in Nat
      BY <1>1
    <2> HIDE DEF I, e
    <2>3. \E x \in I : \A y \in I : x <= y
      BY <1>5, <1>6
    <2>4. Min(I) \in I /\ \A y \in I : Min(I) <= y
      BY <2>3 DEF Min
    <2>5. e <= Min(I) /\ Min(I) <= e /\ Min(I) \in Nat
      BY <1>5, <1>6, <2>1, <2>4
    <2> QED BY <2>2, <2>5
  <1>8. CString(data, k) = SubSeq(data, k + 1, e - 1)
    <2>1. SelectInSubSeq(data, k + 1, m, LAMBDA b : b = NUL) = e
      BY <1>5, <1>7 DEF SelectInSubSeq, m
    <2> QED BY <2>1 DEF CString, m
  <1> DEFINE u == SubSeq(data, k + 1, e - 1)
  <1>9. /\ u \in Seq(S) /\ Len(u) = l /\ \A i \in 1 .. l : u[i] = data[k + i]
    <2> DEFINE from == k + 1
               to == e - 1
    <2>1. /\ from \in Int /\ to \in Int /\ to - from + 1 = l
          /\ \A i \in from .. to : i \in 1 .. m
          /\ (IF from <= to THEN to - from + 1 ELSE 0) = l
          /\ \A i \in 1 .. l : from + i - 1 = k + i
      BY <1>1
    <2>2. \A i \in from .. to : data[i] \in S
      BY <2>1, ElementOfSeq DEF m
    <2> HIDE DEF from, to
    <2>3. /\ SubSeq(data, from, to) \in Seq(S)
          /\ Len(SubSeq(data, from, to)) = IF from <= to THEN to - from + 1 ELSE 0
          /\ \A i \in 1 .. (to - from + 1) : SubSeq(data, from, to)[i] = data[from + i - 1]
      BY <2>1, <2>2, SubSeqProperties
    <2> DEFINE w == SubSeq(data, from, to)
    <2> HIDE DEF w
    <2>4. w \in Seq(S) /\ Len(w) = l /\ \A i \in 1 .. l : w[i] = data[from + i - 1]
      BY <2>1, <2>3 DEF w
    <2>5. u = w
      BY DEF u, w, from, to
    <2> HIDE DEF u
    <2> QED BY <2>1, <2>4, <2>5
  <1>10. t \in Seq(Range(t)) /\ Len(t) = l
    BY TextFacts DEF l
  <1> HIDE DEF u
  <1>11. u = t
    BY <1>2, <1>9, <1>10, SeqEqual
  <1> QED BY <1>8, <1>11 DEF u

\* A buffer goes on, is cut behind the text, or is part of a longer one.
LEMMA CarriesOn ==
  ASSUME NEW S, NEW s \in Seq(S), NEW u \in Seq(S), NEW k \in Nat, NEW t, IsText(t),
         Carries(s, k, t)
  PROVE  Carries(s \o u, k, t)
  <1> DEFINE l == Len(t)
  <1>1. l \in Nat /\ Len(s) \in Nat /\ Len(u) \in Nat /\ k + l + 1 <= Len(s)
    BY TextFacts, LenProperties DEF Carries
  <1>2. Len(s \o u) = Len(s) + Len(u) /\ \A i \in 1 .. Len(s) : (s \o u)[i] = s[i]
    BY ConcatFacts
  <1>3. (\A i \in 1 .. l : s[k + i] = t[i]) /\ s[k + l + 1] = NUL
    BY DEF Carries
  <1> DEFINE v == s \o u
             n == Len(s)
  <1> HIDE DEF v, l
  <1>4. (\A i \in 1 .. l : k + i \in 1 .. n) /\ k + l + 1 \in 1 .. n
    BY <1>1
  <1>5. k + l + 1 <= Len(v)
    BY <1>1, <1>2 DEF v
  <1>6. \A i \in 1 .. n : v[i] = s[i]
    BY <1>2 DEF v
  <1> HIDE DEF n
  <1>7. (\A i \in 1 .. l : v[k + i] = t[i]) /\ v[k + l + 1] = NUL
    BY <1>3, <1>4, <1>6
  <1> QED BY <1>5, <1>7 DEF v, l, Carries

\* What is appended begins where the first part ends.
LEMMA CarriesNext ==
  ASSUME NEW S, NEW s \in Seq(S), NEW t \in Seq(S), NUL \in S, IsText(t)
  PROVE  /\ s \o Append(t, NUL) \in Seq(S)
         /\ Len(s \o Append(t, NUL)) = Len(s) + Len(t) + 1
         /\ Carries(s \o Append(t, NUL), Len(s), t)
  <1> DEFINE a == Append(t, NUL)
             l == Len(t)
             n == Len(s)
             v == s \o a
  <1>1. /\ a \in Seq(S) /\ Len(a) = l + 1 /\ a[l + 1] = NUL
        /\ \A i \in 1 .. l : a[i] = t[i]
    BY AppendProperties
  <1> HIDE DEF a
  <1>2. /\ v \in Seq(S) /\ Len(v) = n + Len(a) /\ n \in Nat
        /\ \A i \in 1 .. Len(a) : v[n + i] = a[i]
    <2>1. /\ s \o a \in Seq(S) /\ Len(s \o a) = Len(s) + Len(a) /\ Len(s) \in Nat
          /\ \A i \in 1 .. Len(a) : (s \o a)[Len(s) + i] = a[i]
      <3>1. a \in Seq(S)
        BY <1>1
      <3> QED BY <3>1, ConcatFacts
    <2> QED BY <2>1
  <1>3. l \in Nat
    BY LenProperties
  <1> HIDE DEF v, l, n
  <1>4. \A i \in 1 .. l : v[n + i] = t[i]
    BY <1>1, <1>2, <1>3
  <1>5. v[n + l + 1] = NUL
    <2>1. l + 1 \in 1 .. Len(a) /\ n + (l + 1) = n + l + 1
      BY <1>1, <1>2, <1>3
    <2> QED BY <1>1, <1>2, <2>1
  <1>6. Len(v) = n + l + 1
    BY <1>1, <1>2, <1>3
  <1>7. n + l + 1 <= Len(v)
    BY <1>2, <1>3, <1>6
  <1> QED BY <1>2, <1>4, <1>5, <1>6, <1>7 DEF v, l, n, a, Carries

\* Data that agree on the bytes of a text carry it.
LEMMA CarriesElsewhere ==
  ASSUME NEW part, NEW data, NEW at \in Nat, NEW k \in Nat, NEW t, IsText(t),
         Len(part) \in Nat, Len(data) \in Nat, at + Len(part) <= Len(data),
         \A j \in 1 .. Len(part) : data[at + j] = part[j],
         Carries(part, k, t)
  PROVE  Carries(data, at + k, t)
  <1> DEFINE l == Len(t)
             n == Len(part)
             m == Len(data)
  <1>1. l \in Nat /\ k + l + 1 <= n /\ n \in Nat /\ m \in Nat /\ at + n <= m
    BY TextFacts DEF Carries
  <1>2. (\A i \in 1 .. l : part[k + i] = t[i]) /\ part[k + l + 1] = NUL
    BY DEF Carries
  <1>3. \A j \in 1 .. n : data[at + j] = part[j]
    OBVIOUS
  <1> HIDE DEF l, n, m
  <1>4. /\ \A i \in 1 .. l : k + i \in 1 .. n /\ at + (k + i) = (at + k) + i
        /\ k + l + 1 \in 1 .. n /\ at + (k + l + 1) = (at + k) + l + 1
        /\ (at + k) + l + 1 <= m
    BY <1>1
  <1>5. (\A i \in 1 .. l : data[(at + k) + i] = t[i]) /\ data[(at + k) + l + 1] = NUL
    BY <1>2, <1>3, <1>4
  <1> QED BY <1>4, <1>5 DEF l, n, m, Carries

\* The bytes of a packed word, and where its strings begin.
Bytes(w) ==
  {NUL, UnpackedVTConfig(w)} \cup Range(w.vt_word) \cup Range(w.vt_phone)
    \cup Range(w.alg.nnet_path)

WordAt(k) == k + ConfigBytes
PhoneAt(k, w) == WordAt(k) + Len(w.vt_word) + 1
PathAt(k, w) == PhoneAt(k, w) + Len(w.vt_phone) + 1

\* A word is packed at offset k.
Laid(data, k, w) ==
  /\ data[k + 1] = UnpackedVTConfig(w)
  /\ Carries(data, WordAt(k), w.vt_word)
  /\ Carries(data, PhoneAt(k, w), w.vt_phone)
  /\ Carries(data, PathAt(k, w), w.alg.nnet_path)

\* Padding is that many NULs.
LEMMA ZerosFacts ==
  ASSUME NEW n \in Nat, NEW S, NUL \in S
  PROVE  Zeros(n) \in Seq(S) /\ Len(Zeros(n)) = n
  BY DEF Zeros

\* The length is rounded up to a multiple of eight, and by eight if it is one.
LEMMA PackedLenIs ==
  ASSUME NEW w, IsWord(w)
  PROVE  LET len == PathAt(0, w) + Len(w.alg.nnet_path) + 1
         IN /\ len \in Nat /\ len > ConfigBytes
            /\ PackedLen(w) \in Nat /\ len < PackedLen(w) /\ PackedLen(w) <= len + 8
  <1> DEFINE a == Len(w.vt_word)
             b == Len(w.vt_phone)
             c == Len(w.alg.nnet_path)
             len == 37 + a + b + c + 3
  <1>1. a \in Nat /\ b \in Nat /\ c \in Nat
    BY TextFacts DEF IsWord
  <1>2. PackedLen(w) = len + (8 - (len % 8))
    BY DEF PackedLen, ConfigBytes
  <1>3. PathAt(0, w) + c + 1 = 0 + 37 + a + 1 + b + 1 + c + 1
    BY DEF PathAt, PhoneAt, WordAt, ConfigBytes
  <1> HIDE DEF a, b, c
  <1>4. len \in Nat /\ len > 37 /\ 0 + 37 + a + 1 + b + 1 + c + 1 = len
    BY <1>1
  <1> HIDE DEF len
  <1>5. len % 8 \in 0 .. 7
    BY <1>4
  <1> DEFINE r == len % 8
  <1> HIDE DEF r
  <1>6. len + (8 - r) \in Nat /\ len < len + (8 - r) /\ len + (8 - r) <= len + 8
    BY <1>4, <1>5 DEF r
  <1> QED BY <1>2, <1>3, <1>4, <1>6 DEF c, r, ConfigBytes

\* The bytes of a packed word before it is cut to its length.
LEMMA WordBytes ==
  ASSUME NEW w, IsWord(w)
  PROVE  /\ NUL \in Bytes(w) /\ UnpackedVTConfig(w) \in Bytes(w)
         /\ w.vt_word \in Seq(Bytes(w)) /\ w.vt_phone \in Seq(Bytes(w))
         /\ w.alg.nnet_path \in Seq(Bytes(w))
  <1>1. /\ w.vt_word \in Seq(Range(w.vt_word)) /\ w.vt_phone \in Seq(Range(w.vt_phone))
        /\ w.alg.nnet_path \in Seq(Range(w.alg.nnet_path))
    BY TextFacts DEF IsWord
  <1>2. /\ Range(w.vt_word) \subseteq Bytes(w) /\ Range(w.vt_phone) \subseteq Bytes(w)
        /\ Range(w.alg.nnet_path) \subseteq Bytes(w)
        /\ NUL \in Bytes(w) /\ UnpackedVTConfig(w) \in Bytes(w)
    BY DEF Bytes
  <1> QED BY <1>1, <1>2, SeqMonotonic

\* A packed word is laid out at the start of its own bytes.
LEMMA PackedLaid ==
  ASSUME NEW w, IsWord(w)
  PROVE  /\ Packed(w) \in Seq(Bytes(w)) /\ Len(Packed(w)) = PackedLen(w)
         /\ Laid(Packed(w), 0, w)
  <1> DEFINE S == Bytes(w)
             cfg == UnpackedVTConfig(w)
             s0 == <<cfg>> \o Zeros(ConfigBytes - 1)
             s1 == s0 \o Append(w.vt_word, NUL)
             s2 == s1 \o Append(w.vt_phone, NUL)
             s3 == s2 \o Append(w.alg.nnet_path, NUL)
             s4 == s3 \o Zeros(8)
             n == PackedLen(w)
             p == SubSeq(s4, 1, n)
  <1>p. Packed(w) = p
    BY DEF Packed
  <1>w. /\ IsText(w.vt_word) /\ IsText(w.vt_phone) /\ IsText(w.alg.nnet_path)
        /\ w.vt_word \in Seq(S) /\ w.vt_phone \in Seq(S) /\ w.alg.nnet_path \in Seq(S)
        /\ NUL \in S /\ cfg \in S
    BY WordBytes DEF IsWord
  <1>l. /\ Len(w.vt_word) \in Nat /\ Len(w.vt_phone) \in Nat /\ Len(w.alg.nnet_path) \in Nat
    BY <1>w, TextFacts
  <1> HIDE DEF S, cfg
  <1>0. /\ s0 \in Seq(S) /\ Len(s0) = 37 /\ s0[1] = cfg
    <2>1. <<cfg>> \in Seq(S) /\ Len(<<cfg>>) = 1 /\ <<cfg>>[1] = cfg
      BY <1>w
    <2>2. Zeros(ConfigBytes - 1) \in Seq(S) /\ Len(Zeros(ConfigBytes - 1)) = 36
      <3>1. ConfigBytes - 1 = 36 /\ 36 \in Nat
        BY DEF ConfigBytes
      <3> QED BY <1>w, <3>1, ZerosFacts
    <2> DEFINE h == <<cfg>>
               z == Zeros(ConfigBytes - 1)
    <2> HIDE DEF h, z
    <2>3. h \in Seq(S) /\ z \in Seq(S) /\ Len(h) = 1 /\ Len(z) = 36 /\ h[1] = cfg
      BY <2>1, <2>2 DEF h, z
    <2>4. h \o z \in Seq(S) /\ Len(h \o z) = Len(h) + Len(z)
          /\ \A i \in 1 .. Len(h) : (h \o z)[i] = h[i]
      <3>1. h \in Seq(S) /\ z \in Seq(S)
        BY <2>3
      <3> QED BY <3>1, ConcatFacts
    <2>5. h \o z \in Seq(S) /\ Len(h \o z) = 37 /\ (h \o z)[1] = cfg
      BY <2>3, <2>4
    <2> QED BY <2>5 DEF h, z
  <1> HIDE DEF s0
  <1>1. /\ s1 \in Seq(S) /\ Len(s1) = PhoneAt(0, w) /\ Carries(s1, WordAt(0), w.vt_word)
        /\ s1[1] = cfg
    <2>1. /\ s1 \in Seq(S) /\ Len(s1) = Len(s0) + Len(w.vt_word) + 1
          /\ Carries(s1, Len(s0), w.vt_word)
      BY <1>0, <1>w, CarriesNext
    <2>2. s1[1] = s0[1]
      <3>1. Append(w.vt_word, NUL) \in Seq(S)
        BY <1>w, AppendProperties
      <3>2. \A i \in 1 .. Len(s0) : s1[i] = s0[i]
        <4>1. s0 \in Seq(S)
          BY <1>0
        <4> QED BY <3>1, <4>1, ConcatFacts
      <3> HIDE DEF s1
      <3>3. 1 \in 1 .. Len(s0)
        BY <1>0
      <3> QED BY <3>2, <3>3
    <2>3. WordAt(0) = 37 /\ PhoneAt(0, w) = WordAt(0) + Len(w.vt_word) + 1
      BY DEF WordAt, PhoneAt, ConfigBytes
    <2> HIDE DEF s1
    <2> QED BY <1>0, <2>1, <2>2, <2>3
  <1> HIDE DEF s1
  <1>k. WordAt(0) \in Nat /\ PhoneAt(0, w) \in Nat /\ PathAt(0, w) \in Nat
        /\ PathAt(0, w) = PhoneAt(0, w) + Len(w.vt_phone) + 1
    <2>1. WordAt(0) = 37
      BY DEF WordAt, ConfigBytes
    <2>2. PhoneAt(0, w) = 37 + Len(w.vt_word) + 1
      BY <2>1 DEF PhoneAt
    <2> DEFINE x == Len(w.vt_word)
               y == Len(w.vt_phone)
    <2>3. x \in Nat /\ y \in Nat
      BY <1>l
    <2> HIDE DEF x, y
    <2>4. 37 + x + 1 \in Nat /\ 37 + x + 1 + y + 1 \in Nat
      BY <2>3
    <2> QED BY <2>1, <2>2, <2>4 DEF x, y, PathAt
  <1>a. Append(w.vt_phone, NUL) \in Seq(S) /\ Append(w.alg.nnet_path, NUL) \in Seq(S)
    BY <1>w, AppendProperties
  <1>2. /\ s2 \in Seq(S) /\ Len(s2) = PathAt(0, w)
        /\ Carries(s2, WordAt(0), w.vt_word) /\ Carries(s2, PhoneAt(0, w), w.vt_phone)
        /\ s2[1] = cfg
    <2>1. /\ s2 \in Seq(S) /\ Len(s2) = Len(s1) + Len(w.vt_phone) + 1
          /\ Carries(s2, Len(s1), w.vt_phone)
      BY <1>1, <1>w, CarriesNext
    <2>2. Carries(s2, WordAt(0), w.vt_word)
      BY <1>1, <1>a, <1>k, <1>w, CarriesOn
    <2>3. \A i \in 1 .. Len(s1) : s2[i] = s1[i]
      BY <1>1, <1>a, ConcatFacts
    <2> HIDE DEF s2
    <2>4. 1 \in 1 .. Len(s1)
      BY <1>1, <1>l DEF PhoneAt, WordAt, ConfigBytes
    <2> QED BY <1>1, <1>k, <2>1, <2>2, <2>3, <2>4
  <1> HIDE DEF s2
  <1> DEFINE len == PathAt(0, w) + Len(w.alg.nnet_path) + 1
  <1>3. /\ s3 \in Seq(S) /\ Len(s3) = len
        /\ Carries(s3, WordAt(0), w.vt_word) /\ Carries(s3, PhoneAt(0, w), w.vt_phone)
        /\ Carries(s3, PathAt(0, w), w.alg.nnet_path)
        /\ s3[1] = cfg
    <2>1. /\ s3 \in Seq(S) /\ Len(s3) = Len(s2) + Len(w.alg.nnet_path) + 1
          /\ Carries(s3, Len(s2), w.alg.nnet_path)
      BY <1>2, <1>w, CarriesNext
    <2>2. Carries(s3, WordAt(0), w.vt_word) /\ Carries(s3, PhoneAt(0, w), w.vt_phone)
      BY <1>2, <1>a, <1>k, <1>w, CarriesOn
    <2>3. \A i \in 1 .. Len(s2) : s3[i] = s2[i]
      BY <1>2, <1>a, ConcatFacts
    <2> HIDE DEF s3
    <2>4. 1 \in 1 .. Len(s2)
      <3>1. Len(s2) = PhoneAt(0, w) + Len(w.vt_phone) + 1
        BY <1>2, <1>k
      <3> DEFINE x == PhoneAt(0, w)
                 y == Len(w.vt_phone)
      <3>2. x \in Nat /\ y \in Nat
        BY <1>k, <1>l
      <3> HIDE DEF x, y
      <3>3. 1 \in 1 .. (x + y + 1)
        BY <3>2
      <3> QED BY <3>1, <3>3 DEF x, y
    <2> QED BY <1>2, <2>1, <2>2, <2>3, <2>4
  <1> HIDE DEF s3
  <1>4. len \in Nat /\ len > 37 /\ n \in Nat /\ len < n /\ n <= len + 8
    BY PackedLenIs DEF ConfigBytes
  <1> HIDE DEF len, n
  <1>5. /\ s4 \in Seq(S) /\ Len(s4) = len + 8 /\ \A i \in 1 .. len : s4[i] = s3[i]
    <2>1. Zeros(8) \in Seq(S) /\ Len(Zeros(8)) = 8
      BY <1>w, ZerosFacts
    <2> DEFINE z == Zeros(8)
    <2> HIDE DEF z
    <2>2. z \in Seq(S) /\ Len(z) = 8
      BY <2>1 DEF z
    <2>3. s3 \o z \in Seq(S) /\ Len(s3 \o z) = Len(s3) + Len(z)
          /\ \A i \in 1 .. Len(s3) : (s3 \o z)[i] = s3[i]
      <3>1. s3 \in Seq(S) /\ z \in Seq(S)
        BY <1>3, <2>2
      <3> QED BY <3>1, ConcatFacts
    <2>4. s3 \o z \in Seq(S) /\ Len(s3 \o z) = len + 8
          /\ \A i \in 1 .. len : (s3 \o z)[i] = s3[i]
      BY <1>3, <2>2, <2>3
    <2> QED BY <2>4 DEF z
  <1> HIDE DEF s4
  <1>6. /\ p \in Seq(S) /\ Len(p) = n /\ \A i \in 1 .. n : p[i] = s4[i]
    <2>1. \A i \in 1 .. n : s4[i] \in S
      BY <1>4, <1>5, ElementOfSeq
    <2>2. 1 \in Int /\ n \in Int /\ n - 1 + 1 = n
          /\ (IF 1 <= n THEN n - 1 + 1 ELSE 0) = n /\ \A i \in 1 .. n : 1 + i - 1 = i
      BY <1>4
    <2>3. /\ SubSeq(s4, 1, n) \in Seq(S)
          /\ Len(SubSeq(s4, 1, n)) = IF 1 <= n THEN n - 1 + 1 ELSE 0
          /\ \A i \in 1 .. (n - 1 + 1) : SubSeq(s4, 1, n)[i] = s4[1 + i - 1]
      BY <2>1, <2>2, SubSeqProperties
    <2> DEFINE u == SubSeq(s4, 1, n)
    <2>4. /\ u \in Seq(S) /\ Len(u) = (IF 1 <= n THEN n - 1 + 1 ELSE 0)
          /\ \A i \in 1 .. (n - 1 + 1) : u[i] = s4[1 + i - 1]
      BY <2>3
    <2> HIDE DEF u
    <2>5. u \in Seq(S) /\ Len(u) = n /\ \A i \in 1 .. n : u[i] = s4[i]
      BY <2>2, <2>4
    <2> QED BY <2>5 DEF u
  <1> HIDE DEF p
  <1>7. \A j \in 1 .. Len(s3) : p[0 + j] = s3[j]
    BY <1>3, <1>4, <1>5, <1>6
  <1>8. Len(s3) \in Nat /\ Len(p) \in Nat /\ 0 + Len(s3) <= Len(p) /\ 0 \in Nat
    BY <1>3, <1>4, <1>6
  <1>9. Carries(p, 0 + WordAt(0), w.vt_word) /\ Carries(p, 0 + PhoneAt(0, w), w.vt_phone)
        /\ Carries(p, 0 + PathAt(0, w), w.alg.nnet_path)
    BY <1>3, <1>7, <1>8, <1>k, <1>w, CarriesElsewhere
  <1>10. /\ 0 + WordAt(0) = WordAt(0) /\ 0 + PhoneAt(0, w) = PhoneAt(0, w)
         /\ 0 + PathAt(0, w) = PathAt(0, w)
    BY <1>k
  <1>11. p[0 + 1] = cfg
    BY <1>3, <1>4, <1>7
  <1>12. Laid(p, 0, w)
    BY <1>9, <1>10, <1>11 DEF Laid, cfg
  <1> QED BY <1>p, <1>6, <1>12 DEF S, n

\* A word laid out at an offset is what is unpacked there.
LEMMA UnpackedIs ==
  ASSUME NEW S, NEW data \in Seq(S), NEW k \in Nat, NEW w, IsWord(w), Laid(data, k, w)
  PROVE  Unpacked(data, k) = [ret |-> 0, word |-> w]
  <1> DEFINE c == data[k + 1]
             path == CString(data, PathAt(k, w))
  <1>1. /\ c.word_size = Len(w.vt_word) /\ c.phone_size = Len(w.vt_phone)
        /\ c.nnet_size = Len(w.alg.nnet_path) /\ c.vt_type = w.vt_type
        /\ c.avg = w.alg.avg /\ c.min = w.alg.min /\ c.flags = w.alg.flags
    BY DEF Laid, UnpackedVTConfig
  <1> HIDE DEF c
  <1>t. IsText(w.vt_word) /\ IsText(w.vt_phone) /\ IsText(w.alg.nnet_path)
    BY DEF IsWord
  <1>2. /\ WordAt(k) \in Nat /\ PhoneAt(k, w) \in Nat /\ PathAt(k, w) \in Nat
    <2> DEFINE x == Len(w.vt_word)
               y == Len(w.vt_phone)
    <2>1. x \in Nat /\ y \in Nat
      BY <1>t, TextFacts
    <2> HIDE DEF x, y
    <2>2. k + 37 \in Nat /\ k + 37 + x + 1 \in Nat /\ k + 37 + x + 1 + y + 1 \in Nat
      BY <2>1
    <2> QED BY <2>2 DEF x, y, WordAt, PhoneAt, PathAt, ConfigBytes
  <1>3. /\ CString(data, WordAt(k)) = w.vt_word /\ CString(data, PhoneAt(k, w)) = w.vt_phone
        /\ path = w.alg.nnet_path
    BY <1>2, <1>t, CStringIs DEF Laid
  <1>4. /\ data[WordAt(k) + c.word_size + 1] = NUL
        /\ data[PhoneAt(k, w) + c.phone_size + 1] = NUL
        /\ data[PathAt(k, w) + c.nnet_size + 1] = NUL
    BY <1>1 DEF Laid, Carries
  <1> HIDE DEF path
  <1>5. (IF c.nnet_size = 0 THEN <<>> ELSE path) = w.alg.nnet_path
    <2>1. CASE c.nnet_size = 0
      <3>1. Len(w.alg.nnet_path) = 0
        BY <1>1, <2>1
      <3>2. w.alg.nnet_path \in Seq(Range(w.alg.nnet_path))
        BY <1>t, TextFacts
      <3>3. w.alg.nnet_path = <<>>
        BY <3>1, <3>2, EmptySeq
      <3> QED BY <2>1, <3>3
    <2>2. CASE c.nnet_size # 0
      BY <1>3, <2>2
    <2> QED BY <2>1, <2>2
  <1>6. /\ k + ConfigBytes = WordAt(k)
        /\ WordAt(k) + c.word_size + 1 = PhoneAt(k, w)
        /\ PhoneAt(k, w) + c.phone_size + 1 = PathAt(k, w)
    BY <1>1 DEF WordAt, PhoneAt, PathAt
  <1>7. Unpacked(data, k) =
          [ret |-> 0,
           word |-> [vt_type |-> c.vt_type, vt_word |-> CString(data, WordAt(k)),
                     vt_phone |-> CString(data, PhoneAt(k, w)),
                     alg |-> [avg |-> c.avg, min |-> c.min, flags |-> c.flags,
                              nnet_path |-> IF c.nnet_size = 0 THEN <<>> ELSE path]]]
    BY <1>4, <1>6 DEF Unpacked, c, path
  <1>8. w.alg = [avg |-> c.avg, min |-> c.min, flags |-> c.flags,
                 nnet_path |-> w.alg.nnet_path]
    BY <1>1 DEF IsWord
  <1>9. w = [vt_type |-> c.vt_type, vt_word |-> w.vt_word, vt_phone |-> w.vt_phone,
             alg |-> w.alg]
    BY <1>1 DEF IsWord
  <1> QED BY <1>3, <1>5, <1>7, <1>8, <1>9

\* The layout moves with the bytes.
LEMMA LaidElsewhere ==
  ASSUME NEW w, IsWord(w), NEW data, NEW at \in Nat, Len(data) \in Nat,
         at + PackedLen(w) <= Len(data),
         \A j \in 1 .. PackedLen(w) : data[at + j] = Packed(w)[j]
  PROVE  Laid(data, at, w)
  <1>1. /\ Laid(Packed(w), 0, w) /\ Len(Packed(w)) = PackedLen(w)
        /\ PackedLen(w) \in Nat /\ PackedLen(w) >= 1
    <2>1. PackedLen(w) \in Nat /\ PackedLen(w) >= 1
      <3> DEFINE n == PackedLen(w)
                 l == PathAt(0, w) + Len(w.alg.nnet_path) + 1
      <3>1. l \in Nat /\ n \in Nat /\ l < n
        BY PackedLenIs
      <3> HIDE DEF n, l
      <3>2. n >= 1
        BY <3>1
      <3> QED BY <3>1, <3>2 DEF n
    <2> QED BY <2>1, PackedLaid
  <1>2. IsText(w.vt_word) /\ IsText(w.vt_phone) /\ IsText(w.alg.nnet_path)
    BY DEF IsWord
  <1> DEFINE x == Len(w.vt_word)
             y == Len(w.vt_phone)
  <1>3. x \in Nat /\ y \in Nat
    BY <1>2, TextFacts
  <1>4. WordAt(0) = 0 + 37 /\ PhoneAt(0, w) = 0 + 37 + x + 1 /\ PathAt(0, w) = 0 + 37 + x + 1 + y + 1
        /\ WordAt(at) = at + 37 /\ PhoneAt(at, w) = at + 37 + x + 1
        /\ PathAt(at, w) = at + 37 + x + 1 + y + 1
    BY DEF WordAt, PhoneAt, PathAt, ConfigBytes
  <1> HIDE DEF x, y
  <1>5. /\ WordAt(0) \in Nat /\ PhoneAt(0, w) \in Nat /\ PathAt(0, w) \in Nat
        /\ at + WordAt(0) = WordAt(at) /\ at + PhoneAt(0, w) = PhoneAt(at, w)
        /\ at + PathAt(0, w) = PathAt(at, w)
    BY <1>3, <1>4
  <1>6. /\ Carries(Packed(w), WordAt(0), w.vt_word) /\ Carries(Packed(w), PhoneAt(0, w), w.vt_phone)
        /\ Carries(Packed(w), PathAt(0, w), w.alg.nnet_path)
        /\ Packed(w)[0 + 1] = UnpackedVTConfig(w)
    BY <1>1 DEF Laid
  <1>7. /\ Carries(data, at + WordAt(0), w.vt_word)
        /\ Carries(data, at + PhoneAt(0, w), w.vt_phone)
        /\ Carries(data, at + PathAt(0, w), w.alg.nnet_path)
    BY <1>1, <1>2, <1>5, <1>6, CarriesElsewhere
  <1>8. data[at + 1] = UnpackedVTConfig(w)
    BY <1>1, <1>6
  <1> QED BY <1>5, <1>7, <1>8 DEF Laid

\* The words begin at the offsets at, the first behind the heading.
Begin(data, n, at) ==
  /\ n \in Nat /\ data[1] = n
  /\ at \in [1 .. n -> Nat]
  /\ n > 0 => at[1] = 0
  /\ \A i \in 1 .. n :
       i > 1 => /\ data[CountBytes + at[i - 1] + 1].total_len \in Nat
                /\ at[i] = at[i - 1] + data[CountBytes + at[i - 1] + 1].total_len

\* The reader finds the words where the writer put them.
LEMMA OffsetsAre ==
  ASSUME NEW data, NEW n, NEW at, Begin(data, n, at)
  PROVE  \A i \in 1 .. n : Offsets(data)[i] = CountBytes + at[i]
  <1>b. /\ n \in Nat /\ data[1] = n /\ at \in [1 .. n -> Nat] /\ (n > 0 => at[1] = 0)
        /\ \A i \in 1 .. n :
             i > 1 => /\ data[CountBytes + at[i - 1] + 1].total_len \in Nat
                      /\ at[i] = at[i - 1] + data[CountBytes + at[i - 1] + 1].total_len
    BY DEF Begin
  <1> DEFINE Rec(g) == g = [i \in 1 .. n |->
                              IF i = 1 THEN CountBytes
                              ELSE g[i - 1] + data[g[i - 1] + 1].total_len]
             o == CHOOSE g : Rec(g)
             p == [i \in 1 .. n |-> CountBytes + at[i]]
  <1>c. CountBytes = 16
    BY DEF CountBytes
  <1>1. Offsets(data) = o
    BY <1>b DEF Offsets
  <1>d. ASSUME NEW i \in 1 .. n, i > 1
        PROVE  /\ CountBytes + at[i]
                    = (CountBytes + at[i - 1]) + data[(CountBytes + at[i - 1]) + 1].total_len
               /\ i - 1 \in 1 .. n
    <2>1. i - 1 \in 1 .. n
      BY <1>b, <1>d
    <2>2. /\ data[CountBytes + at[i - 1] + 1].total_len \in Nat
          /\ at[i] = at[i - 1] + data[CountBytes + at[i - 1] + 1].total_len
      BY <1>b, <1>d
    <2>3. at[i] \in Nat /\ at[i - 1] \in Nat
      BY <1>b, <2>1
    <2> DEFINE a == at[i - 1]
               b == at[i]
               t == data[CountBytes + a + 1].total_len
    <2>4. b = a + t /\ a \in Nat /\ b \in Nat /\ t \in Nat
      BY <2>2, <2>3
    <2> HIDE DEF a, b, t
    <2>5. 16 + b = (16 + a) + t
      BY <2>4
    <2> QED BY <1>c, <2>1, <2>5 DEF a, b, t
  <1>2. Rec(p)
    <2>1. ASSUME NEW i \in 1 .. n
          PROVE  CountBytes + at[i] = IF i = 1 THEN CountBytes
                                      ELSE p[i - 1] + data[p[i - 1] + 1].total_len
      <3>1. CASE i = 1
        <4>1. n > 0 /\ at[i] = 0
          BY <1>b, <3>1
        <4> QED BY <1>c, <3>1, <4>1
      <3>2. CASE i # 1
        <4>1. i > 1
          BY <3>2
        <4>2. p[i - 1] = CountBytes + at[i - 1]
          BY <1>d, <4>1
        <4> QED BY <1>d, <3>2, <4>1, <4>2
      <3> QED BY <3>1, <3>2
    <2> QED BY <2>1
  <1>3. Rec(o)
    <2> HIDE DEF Rec, p
    <2> QED BY <1>2
  <1> HIDE DEF o, p
  <1>4. \A i \in 1 .. n : o[i] = IF i = 1 THEN CountBytes
                                 ELSE o[i - 1] + data[o[i - 1] + 1].total_len
    BY <1>3
  <1> HIDE DEF Rec
  <1> DEFINE K == {k \in Nat : k \in 1 .. n => o[k] = CountBytes + at[k]}
  <1>5. 0 \in K
    OBVIOUS
  <1>6. ASSUME NEW k \in K PROVE k + 1 \in K
    <2> SUFFICES ASSUME k + 1 \in 1 .. n PROVE o[k + 1] = CountBytes + at[k + 1]
      OBVIOUS
    <2>1. CASE k = 0
      <3>1. k + 1 = 1 /\ n > 0 /\ at[k + 1] = 0
        BY <1>b, <2>1
      <3> QED BY <1>4, <1>c, <3>1
    <2>2. CASE k # 0
      <3>1. k \in 1 .. n /\ (k + 1) - 1 = k /\ k + 1 > 1 /\ k + 1 # 1
        BY <1>b, <2>2
      <3>2. o[k] = CountBytes + at[k]
        BY <3>1
      <3>3. o[k + 1] = o[k] + data[o[k] + 1].total_len
        BY <1>4, <3>1
      <3>4. CountBytes + at[k + 1] = (CountBytes + at[k]) + data[(CountBytes + at[k]) + 1].total_len
        BY <1>d, <3>1
      <3> QED BY <3>2, <3>3, <3>4
    <2> QED BY <2>1, <2>2
  <1> HIDE DEF K
  <1>7. Nat \subseteq K
    BY <1>5, <1>6, NatSet
  <1> QED BY <1>1, <1>7, <1>b DEF K

IsWordList(l) == l \in Seq(Range(l)) /\ \A i \in 1 .. Len(l) : IsWord(l[i])

\* The data of a message that carries words.
Heading(n) == <<n>> \o Zeros(CountBytes - 1)
PackedWords(words) == [i \in DOMAIN words |-> Packed(words[i])]
Payload(words) == Heading(Len(words)) \o FlattenSeq(PackedWords(words))

\* The words are packed one after the other, each as long as it says.
LEMMA PackedWordsAre ==
  ASSUME NEW words, IsWordList(words)
  PROVE  \E S : /\ PackedWords(words) \in Seq(Seq(S)) /\ NUL \in S /\ Len(words) \in S
                /\ Len(PackedWords(words)) = Len(words) /\ Len(words) \in Nat
                /\ \A i \in 1 .. Len(words) : PackedWords(words)[i] = Packed(words[i])
  <1> DEFINE n == Len(words)
             S == {NUL, n} \cup UNION {Bytes(words[i]) : i \in 1 .. n}
             q == PackedWords(words)
  <1>1. n \in Nat /\ DOMAIN words = 1 .. n
    BY LenProperties DEF IsWordList
  <1>2. q = [i \in 1 .. n |-> Packed(words[i])]
    BY <1>1 DEF PackedWords
  <1>3. \A i \in 1 .. n : Packed(words[i]) \in Seq(S)
    <2> TAKE i \in 1 .. n
    <2>1. Packed(words[i]) \in Seq(Bytes(words[i]))
      BY PackedLaid DEF IsWordList
    <2>2. Bytes(words[i]) \subseteq S
      OBVIOUS
    <2> HIDE DEF S
    <2> QED BY <2>1, <2>2, SeqMonotonic
  <1>4. NUL \in S /\ n \in S
    OBVIOUS
  <1> HIDE DEF S, q, n
  <1>5. q \in Seq(Seq(S)) /\ Len(q) = n
    <2>1. q \in [1 .. n -> Seq(S)]
      BY <1>2, <1>3
    <2> QED BY <1>1, <2>1
  <1>6. \A i \in 1 .. n : q[i] = Packed(words[i])
    BY <1>2
  <1> QED BY <1>1, <1>4, <1>5, <1>6 DEF q, n

\* The words lie behind each other, the first behind the heading, each with more bytes
\* than the structure alone takes.
LEMMA PayloadLaid ==
  ASSUME NEW words, IsWordList(words), words # <<>>
  PROVE  \E S, at :
           /\ Payload(words) \in Seq(S) /\ Payload(words)[1] = Len(words)
           /\ Len(words) \in Nat /\ Len(words) > 0
           /\ at \in [1 .. Len(words) -> Nat] /\ at[1] = 0
           /\ \A i \in 1 .. Len(words) : i > 1 => at[i] = at[i - 1] + PackedLen(words[i - 1])
           /\ \A i \in 1 .. Len(words) :
                /\ PackedLen(words[i]) \in Nat /\ PackedLen(words[i]) > ConfigBytes
                /\ CountBytes + at[i] + PackedLen(words[i]) <= Len(Payload(words))
                /\ Laid(Payload(words), CountBytes + at[i], words[i])
  <1> DEFINE n == Len(words)
             q == PackedWords(words)
             flat == FlattenSeq(q)
             data == Payload(words)
             h == Heading(n)
  <1>1. PICK S : /\ q \in Seq(Seq(S)) /\ NUL \in S /\ n \in S
                 /\ Len(q) = n /\ n \in Nat
                 /\ \A i \in 1 .. n : q[i] = Packed(words[i])
    BY PackedWordsAre
  <1>2. n # 0
    BY EmptySeq DEF IsWordList
  <1>3. \A i \in 1 .. n : IsWord(words[i])
    BY DEF IsWordList
  <1>4. \A i \in 1 .. n : /\ Len(q[i]) = PackedLen(words[i])
                          /\ PackedLen(words[i]) \in Nat /\ PackedLen(words[i]) > ConfigBytes
    <2> TAKE i \in 1 .. n
    <2> DEFINE x == PackedLen(words[i])
               l == PathAt(0, words[i]) + Len(words[i].alg.nnet_path) + 1
    <2>1. l \in Nat /\ l > ConfigBytes /\ x \in Nat /\ l < x
      BY <1>3, PackedLenIs
    <2>2. Len(q[i]) = x
      BY <1>1, <1>3, PackedLaid
    <2> HIDE DEF x, l
    <2>3. x > ConfigBytes
      BY <2>1 DEF ConfigBytes
    <2> QED BY <2>1, <2>2, <2>3 DEF x
  <1>5. q # <<>>
    BY <1>1, <1>2
  <1>6. flat \in Seq(S) /\ \E at : Placed(q, Len(q), flat, at)
    <2>1. q \in Seq(Seq(S))
      BY <1>1
    <2> HIDE DEF q
    <2> QED BY <1>5, <2>1, FlattenPlaced
  <1>7. PICK at : Placed(q, Len(q), flat, at)
    BY <1>6
  <1>d. data = h \o flat
    BY DEF Payload
  <1>8. h \in Seq(S) /\ Len(h) = 16 /\ h[1] = n
    <2>1. <<n>> \in Seq(S) /\ Len(<<n>>) = 1 /\ <<n>>[1] = n
      BY <1>1
    <2>2. Zeros(CountBytes - 1) \in Seq(S) /\ Len(Zeros(CountBytes - 1)) = 15
      <3>1. CountBytes - 1 = 15 /\ 15 \in Nat
        BY DEF CountBytes
      <3> QED BY <1>1, <3>1, ZerosFacts
    <2> DEFINE a == <<n>>
               z == Zeros(CountBytes - 1)
    <2>3. h = a \o z
      BY DEF Heading
    <2>4. a \in Seq(S) /\ z \in Seq(S) /\ Len(a) = 1 /\ Len(z) = 15 /\ a[1] = n
      BY <2>1, <2>2
    <2> HIDE DEF a, z, h, n
    <2>5. a \o z \in Seq(S) /\ Len(a \o z) = Len(a) + Len(z)
          /\ \A i \in 1 .. Len(a) : (a \o z)[i] = a[i]
      <3>1. a \in Seq(S) /\ z \in Seq(S)
        BY <2>4
      <3> QED BY <3>1, ConcatFacts
    <2>6. h \in Seq(S) /\ Len(h) = Len(a) + Len(z) /\ \A i \in 1 .. Len(a) : h[i] = a[i]
      BY <2>3, <2>5
    <2> QED BY <2>4, <2>6
  <1> HIDE DEF h, flat, data, q
  <1>9. /\ data \in Seq(S) /\ Len(data) = 16 + Len(flat) /\ Len(flat) \in Nat
        /\ data[1] = n /\ \A i \in 1 .. Len(flat) : data[16 + i] = flat[i]
    <2>1. h \in Seq(S) /\ flat \in Seq(S)
      BY <1>6, <1>8
    <2>2. /\ h \o flat \in Seq(S) /\ Len(h \o flat) = Len(h) + Len(flat)
          /\ Len(flat) \in Nat
          /\ \A i \in 1 .. Len(h) : (h \o flat)[i] = h[i]
          /\ \A i \in 1 .. Len(flat) : (h \o flat)[Len(h) + i] = flat[i]
      BY <2>1, ConcatFacts
    <2>3. /\ data \in Seq(S) /\ Len(data) = Len(h) + Len(flat) /\ Len(flat) \in Nat
          /\ \A i \in 1 .. Len(h) : data[i] = h[i]
          /\ \A i \in 1 .. Len(flat) : data[Len(h) + i] = flat[i]
      BY <1>d, <2>2
    <2>4. Len(h) = 16 /\ h[1] = n /\ 1 \in 1 .. 16
      BY <1>8
    <2> HIDE DEF n
    <2> QED BY <2>3, <2>4
  <1>10. /\ at \in [1 .. n -> Nat] /\ at[1] = 0
         /\ \A i \in 1 .. n : i > 1 => at[i] = at[i - 1] + Len(q[i - 1])
         /\ \A i \in 1 .. n : at[i] + Len(q[i]) <= Len(flat)
         /\ \A i \in 1 .. n : \A j \in 1 .. Len(q[i]) : flat[at[i] + j] = q[i][j]
    BY <1>1, <1>2, <1>7 DEF Placed
  <1>11. ASSUME NEW i \in 1 .. n, i > 1 PROVE at[i] = at[i - 1] + PackedLen(words[i - 1])
    <2>1. i - 1 \in 1 .. n
      BY <1>1, <1>11
    <2> QED BY <1>4, <1>10, <1>11, <2>1
  <1>12. ASSUME NEW i \in 1 .. n
         PROVE  /\ CountBytes + at[i] + PackedLen(words[i]) <= Len(data)
                /\ Laid(data, CountBytes + at[i], words[i])
    <2> DEFINE a == at[i]
               l == PackedLen(words[i])
               f == Len(flat)
    <2>1. a \in Nat /\ l \in Nat /\ f \in Nat /\ a + l <= f /\ Len(q[i]) = l
          /\ Len(data) = 16 + f
      BY <1>4, <1>9, <1>10
    <2>2. \A j \in 1 .. l : flat[a + j] = Packed(words[i])[j]
      BY <1>1, <1>10, <2>1
    <2>3. \A j \in 1 .. f : data[16 + j] = flat[j]
      BY <1>9
    <2> HIDE DEF a, l, f
    <2>4. \A j \in 1 .. l : a + j \in 1 .. f /\ 16 + (a + j) = (16 + a) + j
      BY <2>1
    <2>5. \A j \in 1 .. l : data[(16 + a) + j] = Packed(words[i])[j]
      BY <2>2, <2>3, <2>4
    <2>6. 16 + a \in Nat /\ (16 + a) + l <= Len(data) /\ Len(data) \in Nat
      BY <2>1
    <2>7. Laid(data, 16 + a, words[i])
      BY <1>3, <2>5, <2>6, LaidElsewhere DEF l
    <2> QED BY <2>6, <2>7 DEF a, l, CountBytes
  <1>13. n > 0 /\ n \in Nat
    BY <1>1, <1>2
  <1> QED BY <1>4, <1>9, <1>10, <1>11, <1>12, <1>13 DEF data

\* Packing and unpacking agree on every length and offset: whatever words with texts are
\* sent, getVTWordFromMessage returns them, in their order, and no error
\* (siren_channel.cpp:62 and :180).
THEOREM MessageCarriesWords ==
  ASSUME NEW words, IsWordList(words)
  PROVE  GetVTWordFromMessage(AllocateMessageFromVTWord(words))
           = [ret |-> IF words = <<>> THEN -2 ELSE 0, words |-> words]
  <1>1. CASE words = <<>>
    <2>1. AllocateMessageFromVTWord(words).len = 0
      BY <1>1 DEF AllocateMessageFromVTWord
    <2> QED BY <1>1, <2>1 DEF GetVTWordFromMessage
  <1>2. CASE words # <<>>
    <2> DEFINE n == Len(words)
               data == Payload(words)
               m == AllocateMessageFromVTWord(words)
    <2>1. PICK S, at :
            /\ data \in Seq(S) /\ data[1] = n /\ n \in Nat /\ n > 0
            /\ at \in [1 .. n -> Nat] /\ at[1] = 0
            /\ \A i \in 1 .. n : i > 1 => at[i] = at[i - 1] + PackedLen(words[i - 1])
            /\ \A i \in 1 .. n :
                 /\ PackedLen(words[i]) \in Nat /\ PackedLen(words[i]) > ConfigBytes
                 /\ CountBytes + at[i] + PackedLen(words[i]) <= Len(data)
                 /\ Laid(data, CountBytes + at[i], words[i])
      BY <1>2, PayloadLaid
    <2>2. m.len = Len(data) /\ m.data = data
      BY <1>2 DEF AllocateMessageFromVTWord, Payload, Heading, PackedWords
    <2> HIDE DEF data, m
    <2>3. Len(data) \in Nat /\ CountBytes = 16 /\ ConfigBytes = 37
      BY <2>1, LenProperties DEF CountBytes, ConfigBytes
    <2>4. \A i \in 1 .. n : Offsets(data)[i] = CountBytes + at[i]
      <3>1. ASSUME NEW i \in 1 .. n, i > 1
            PROVE  /\ data[CountBytes + at[i - 1] + 1].total_len \in Nat
                   /\ at[i] = at[i - 1] + data[CountBytes + at[i - 1] + 1].total_len
        <4>1. i - 1 \in 1 .. n
          BY <2>1, <3>1
        <4>2. Laid(data, CountBytes + at[i - 1], words[i - 1]) /\ PackedLen(words[i - 1]) \in Nat
          BY <2>1, <4>1
        <4>3. data[CountBytes + at[i - 1] + 1].total_len = PackedLen(words[i - 1])
          BY <4>2 DEF Laid, UnpackedVTConfig
        <4> QED BY <2>1, <3>1, <4>2, <4>3
      <3>2. n \in Nat /\ data[1] = n /\ at \in [1 .. n -> Nat] /\ (n > 0 => at[1] = 0)
        BY <2>1
      <3> HIDE DEF n
      <3>3. \A i \in 1 .. n :
              i > 1 => /\ data[CountBytes + at[i - 1] + 1].total_len \in Nat
                       /\ at[i] = at[i - 1] + data[CountBytes + at[i - 1] + 1].total_len
        BY <3>1
      <3>4. Begin(data, n, at)
        BY <3>2, <3>3 DEF Begin
      <3> QED BY <3>4, OffsetsAre
    <2>5. \A i \in 1 .. n : Unpacked(data, Offsets(data)[i]) = [ret |-> 0, word |-> words[i]]
      <3> TAKE i \in 1 .. n
      <3>1. IsWord(words[i]) /\ Laid(data, CountBytes + at[i], words[i]) /\ at[i] \in Nat
        BY <2>1 DEF IsWordList
      <3>2. CountBytes + at[i] \in Nat
        BY <2>3, <3>1
      <3>3. Unpacked(data, CountBytes + at[i]) = [ret |-> 0, word |-> words[i]]
        BY <2>1, <3>1, <3>2, UnpackedIs
      <3> QED BY <2>4, <3>3
    <2>6. ~(Len(data) < ConfigBytes * n)
      <3> DEFINE K == {k \in Nat : k \in 1 .. n => at[k] >= 37 * (k - 1)}
      <3>1. 0 \in K
        OBVIOUS
      <3>2. ASSUME NEW k \in K PROVE k + 1 \in K
        <4> SUFFICES ASSUME k + 1 \in 1 .. n PROVE at[k + 1] >= 37 * k
          OBVIOUS
        <4>1. CASE k = 0
          BY <2>1, <4>1
        <4>2. CASE k # 0
          <5>1. k \in 1 .. n /\ k + 1 > 1 /\ (k + 1) - 1 = k
            BY <4>2
          <5>2. at[k + 1] = at[k] + PackedLen(words[k])
            BY <2>1, <5>1
          <5> DEFINE a == at[k]
                     l == PackedLen(words[k])
          <5>3. a >= 37 * (k - 1) /\ a \in Nat /\ l \in Nat /\ l > 37
            BY <2>1, <2>3, <5>1
          <5> HIDE DEF a, l
          <5>4. a + l >= 37 * k
            BY <5>1, <5>3
          <5> QED BY <5>2, <5>4 DEF a, l
        <4> QED BY <4>1, <4>2
      <3> HIDE DEF K
      <3>3. n \in K
        BY <2>1, <3>1, <3>2, NatSet
      <3>4. at[n] >= 37 * (n - 1) /\ n \in 1 .. n
        BY <2>1, <3>3 DEF K
      <3> DEFINE a == at[n]
                 l == PackedLen(words[n])
                 d == Len(data)
      <3>5. a \in Nat /\ l \in Nat /\ l > 37 /\ d \in Nat /\ 16 + a + l <= d
        BY <2>1, <2>3, <3>4
      <3> HIDE DEF a, l, d, n
      <3>6. d >= 37 * n
        BY <2>1, <3>4, <3>5 DEF a
      <3> QED BY <2>1, <2>3, <3>5, <3>6 DEF d
    <2>7. Len(data) # 0
      <3> DEFINE l == PackedLen(words[1])
                 d == Len(data)
      <3>1. 1 \in 1 .. n
        BY <2>1
      <3>2. l \in Nat /\ l > 37 /\ d \in Nat /\ 16 + 0 + l <= d
        BY <2>1, <2>3, <3>1
      <3> HIDE DEF l, d
      <3>3. d # 0
        BY <3>2
      <3> QED BY <3>3 DEF d
    <2> DEFINE unpacked == [i \in 1 .. n |-> Unpacked(data, Offsets(data)[i])]
               bad == {i \in 1 .. n : unpacked[i].ret # 0}
    <2>8. GetVTWordFromMessage(m) =
            [ret |-> IF bad = {} THEN 0 ELSE unpacked[Min(bad)].ret,
             words |-> [i \in 1 .. n |-> unpacked[i].word]]
      <3>1. m.data[1] = n
        BY <2>1, <2>2
      <3> HIDE DEF n
      <3> QED BY <2>2, <2>6, <2>7, <3>1 DEF GetVTWordFromMessage
    <2>9. \A i \in 1 .. n : unpacked[i].ret = 0 /\ unpacked[i].word = words[i]
      <3> TAKE i \in 1 .. n
      <3>1. unpacked[i] = Unpacked(data, Offsets(data)[i])
        OBVIOUS
      <3> HIDE DEF unpacked
      <3>2. unpacked[i] = [ret |-> 0, word |-> words[i]]
        BY <2>5, <3>1
      <3> QED BY <3>2
    <2>10. bad = {}
      BY <2>9
    <2>11. [i \in 1 .. n |-> unpacked[i].word] = [i \in 1 .. n |-> words[i]]
      BY <2>9
    <2>12. words = [i \in 1 .. n |-> words[i]]
      <3>1. words \in [1 .. n -> Range(words)]
        BY LenProperties DEF IsWordList
      <3> QED BY <3>1
    <2> HIDE DEF unpacked, bad
    <2>13. GetVTWordFromMessage(m) = [ret |-> 0, words |-> words]
      BY <2>8, <2>10, <2>11, <2>12
    <2> QED BY <1>2, <2>13 DEF m
  <1> QED BY <1>1, <1>2

---------------------------------------------------------------------------
(* The words SirenProxy keeps *)

\* What has no NUL among its characters is a text.
LEMMA TextFrom ==
  ASSUME NEW S, NEW t \in Seq(S), NUL \notin S
  PROVE  IsText(t)
  <1>1. Len(t) \in Nat /\ DOMAIN t = 1 .. Len(t) /\ t \in [1 .. Len(t) -> S]
    BY LenProperties
  <1>2. \A i \in 1 .. Len(t) : t[i] \in Range(t) \ {NUL}
    BY <1>1 DEF Range
  <1>3. t \in [1 .. Len(t) -> Range(t) \ {NUL}]
    BY <1>1, <1>2
  <1> QED BY <1>1, <1>3, SeqDef DEF IsText

\* The phonemes of a word are a text again.
LEMMA PhonemeIsText ==
  ASSUME NEW pinyin, IsText(pinyin), HasPhoneme(pinyin)
  PROVE  IsText(Pinyin2Phoneme(pinyin))
  <1> DEFINE P == UNION {Range(Phonemes[s]) : s \in DOMAIN Phonemes}
             S == P \cup {" "}
             syllables == Syllables(pinyin)
             tones == {i \in DOMAIN pinyin : pinyin[i] \in Digits}
             n == Cardinality(tones)
             q == [k \in DOMAIN syllables |-> Append(Phonemes[syllables[k]], " ")]
  <1>0. \A s \in DOMAIN Phonemes : Range(Phonemes[s]) \subseteq P
    OBVIOUS
  <1>1. NUL \notin S
    <2>1. ASSUME NEW s \in DOMAIN Phonemes PROVE NUL \notin Range(Phonemes[s])
      <3>1. IsText(Phonemes[s])
        BY PhonemesAreTexts
      <3>2. DOMAIN Phonemes[s] = 1 .. Len(Phonemes[s])
        BY <3>1, TextFacts, LenProperties
      <3> QED BY <3>1, <3>2, TextFacts DEF Range
    <2>2. NUL \notin P
      BY ONLY <2>1
    <2> HIDE DEF P
    <2>3. " " # NUL
      BY PhonemesAreTexts
    <2> QED BY ONLY <2>2, <2>3
  <1>2. n \in Nat /\ DOMAIN syllables = 1 .. n /\ syllables = [k \in 1 .. n |-> syllables[k]]
    <2>1. Len(pinyin) \in Nat /\ DOMAIN pinyin = 1 .. Len(pinyin)
      BY TextFacts, LenProperties
    <2>2. IsFiniteSet(tones)
      <3>1. IsFiniteSet(1 .. Len(pinyin))
        BY <2>1, FS_Interval
      <3> QED BY <2>1, <3>1, FS_Subset
    <2>3. n \in Nat
      BY <2>2, FS_CardinalityType
    <2>4. DOMAIN syllables = 1 .. n
      BY DEF Syllables
    <2> DEFINE UpTo(i) == {t \in tones : t <= i}
               end(k) == CHOOSE t \in tones : Cardinality(UpTo(t)) = k
               start(k) == Max({0} \cup UpTo(end(k) - 1)) + 1
    <2>5. syllables = [k \in 1 .. n |-> syllables[k]]
      <3>1. syllables = [k \in 1 .. n |-> SubSeq(pinyin, start(k), end(k))]
        BY DEF Syllables
      <3> HIDE DEF syllables, n, start, end
      <3> QED BY <3>1
    <2> QED BY <2>3, <2>4, <2>5
  <1>3. \A k \in 1 .. n : syllables[k] \in DOMAIN Phonemes
    BY <1>2 DEF HasPhoneme, Range
  <1>4. \A k \in 1 .. n : Append(Phonemes[syllables[k]], " ") \in Seq(S)
    <2> TAKE k \in 1 .. n
    <2> DEFINE t == Phonemes[syllables[k]]
               space == " "
    <2>1. t \in Seq(Range(t)) /\ Range(t) \subseteq P
      BY <1>0, <1>3, PhonemesAreTexts, TextFacts
    <2> HIDE DEF P, syllables, t, space
    <2>2. t \in Seq(S) /\ space \in S
      <3>1. Range(t) \subseteq S /\ space \in S
        BY <2>1 DEF space
      <3> HIDE DEF S
      <3> QED BY <2>1, <3>1, SeqMonotonic
    <2> HIDE DEF S
    <2>3. Append(t, space) \in Seq(S)
      BY <2>2, AppendProperties
    <2> QED BY <2>3 DEF t, space
  <1>5. n # 0
    <2>1. syllables # <<>>
      BY DEF HasPhoneme
    <2> HIDE DEF syllables, n
    <2>2. ASSUME n = 0 PROVE syllables \in [1 .. 0 -> {}]
      <3>1. syllables = [k \in 1 .. 0 |-> syllables[k]]
        BY <1>2, <2>2
      <3>2. \A k \in 1 .. 0 : syllables[k] \in {}
        OBVIOUS
      <3> QED BY <3>1, <3>2
    <2>3. ASSUME n = 0 PROVE syllables \in Seq({}) /\ Len(syllables) = 0
      <3>1. DOMAIN syllables = 1 .. 0
        BY <1>2, <2>3
      <3>2. syllables \in Seq({})
        BY <2>2, <2>3, SeqDef
      <3> QED BY <3>1, <3>2, LenProperties
    <2> QED BY <2>1, <2>3, EmptySeq
  <1> HIDE DEF n, P, S, syllables
  <1>6. q = [k \in 1 .. n |-> Append(Phonemes[syllables[k]], " ")]
    BY <1>2
  <1> HIDE DEF q
  <1>7. q \in Seq(Seq(S)) /\ q # <<>>
    <2> DEFINE T == Seq(S)
    <2>1. q \in [1 .. n -> T]
      BY <1>4, <1>6
    <2> HIDE DEF T
    <2>2. q \in Seq(T)
      BY <1>2, <2>1, SeqDef
    <2>3. DOMAIN q = 1 .. n
      BY ONLY <2>1
    <2>4. Len(q) = n
      BY ONLY <1>2, <2>2, <2>3, LenProperties
    <2>5. q # <<>>
      BY <1>5, <2>2, <2>4, EmptySeq
    <2> QED BY <2>2, <2>5 DEF T
  <1> DEFINE spaced == FlattenSeq(q)
  <1>8. spaced \in Seq(S)
    <2> DEFINE T == Seq(S)
    <2> QED BY <1>7, FlattenPlaced
  <1>9. Pinyin2Phoneme(pinyin) = SubSeq(spaced, 1, Len(spaced) - 1)
    BY DEF Pinyin2Phoneme, Front, syllables, q
  <1> HIDE DEF spaced
  <1>10. SubSeq(spaced, 1, Len(spaced) - 1) \in Seq(S)
    <2>1. Len(spaced) \in Nat
      BY <1>8, LenProperties
    <2> DEFINE m == Len(spaced) - 1
    <2>2. m \in Int /\ \A i \in 1 .. m : i \in 1 .. Len(spaced)
      BY <2>1
    <2>3. \A i \in 1 .. m : spaced[i] \in S
      BY <1>8, <2>2, ElementOfSeq
    <2> HIDE DEF m
    <2>4. SubSeq(spaced, 1, m) \in Seq(S)
      BY <2>2, <2>3, SubSeqProperties
    <2> QED BY <2>4 DEF m
  <1> QED BY <1>1, <1>9, <1>10, TextFrom

\* The list has the names of its words only once.
Distinct(l) == \A i, j \in 1 .. Len(l) : l[i].vt_word = l[j].vt_word => i = j

IsListed(l) == IsWordList(l) /\ Distinct(l)

\* A new name behind the list keeps its names distinct.
LEMMA AddIsListed ==
  ASSUME NEW l, IsListed(l), NEW w, IsWord(w),
         \A i \in DOMAIN l : l[i].vt_word # w.vt_word
  PROVE  IsListed(Append(l, w))
  <1> DEFINE m == Append(l, w)
             S == Range(l) \cup {w}
             n == Len(l)
  <1>1. /\ l \in Seq(S) /\ n \in Nat /\ w \in S /\ DOMAIN l = 1 .. n
    <2>1. l \in Seq(Range(l)) /\ Range(l) \subseteq S /\ w \in S
      BY DEF IsListed, IsWordList
    <2> QED BY <2>1, SeqMonotonic, LenProperties
  <1>2. /\ m \in Seq(S) /\ Len(m) = n + 1 /\ m[n + 1] = w
        /\ \A i \in 1 .. n : m[i] = l[i]
    BY <1>1, AppendProperties
  <1>3. m \in Seq(Range(m))
    BY <1>2, SeqOfRange
  <1> HIDE DEF m, n
  <1>4. \A i \in 1 .. (n + 1) : i \in 1 .. n \/ i = n + 1
    BY <1>1
  <1>5. (\A i \in 1 .. n : IsWord(l[i])) /\ \A i, j \in 1 .. n : l[i].vt_word = l[j].vt_word => i = j
    BY DEF IsListed, IsWordList, Distinct, n
  <1>6. \A i \in 1 .. Len(m) : IsWord(m[i])
    BY <1>2, <1>4, <1>5
  <1>7. Distinct(m)
    <2> SUFFICES ASSUME NEW i \in 1 .. (n + 1), NEW j \in 1 .. (n + 1),
                        m[i].vt_word = m[j].vt_word
                 PROVE  i = j
      BY <1>2 DEF Distinct
    <2>1. CASE i \in 1 .. n /\ j \in 1 .. n
      BY <1>2, <1>5, <2>1
    <2>2. CASE i \in 1 .. n /\ j = n + 1
      BY <1>1, <1>2, <2>2
    <2>3. CASE i = n + 1 /\ j \in 1 .. n
      BY <1>1, <1>2, <2>3
    <2> QED BY <1>4, <2>1, <2>2, <2>3
  <1> QED BY <1>3, <1>6, <1>7 DEF IsListed, IsWordList, m

\* So does taking a word away.
LEMMA RemoveIsListed ==
  ASSUME NEW l, IsListed(l), NEW k \in DOMAIN l
  PROVE  IsListed(RemoveAt(l, k))
  <1> DEFINE m == RemoveAt(l, k)
             S == Range(l)
             n == Len(l)
             a == SubSeq(l, 1, k - 1)
             b == SubSeq(l, k + 1, n)
  <1>1. l \in Seq(S) /\ n \in Nat /\ k \in 1 .. n
    BY LenProperties DEF IsListed, IsWordList
  <1>5. /\ \A i \in 1 .. n : IsWord(l[i]) /\ l[i] \in S
        /\ \A i, j \in 1 .. n : l[i].vt_word = l[j].vt_word => i = j
    BY <1>1, ElementOfSeq DEF IsListed, IsWordList, Distinct
  <1>m. m = a \o b
    BY DEF RemoveAt
  <1> HIDE DEF n, m
  <1>2. a \in Seq(S) /\ Len(a) = k - 1 /\ \A i \in 1 .. (k - 1) : a[i] = l[i]
    <2> DEFINE to == k - 1
    <2>1. to \in Int /\ 1 \in Int /\ (\A i \in 1 .. to : i \in 1 .. n) /\ to - 1 + 1 = to
          /\ (IF 1 <= to THEN to - 1 + 1 ELSE 0) = to /\ \A i \in 1 .. to : 1 + i - 1 = i
      BY <1>1
    <2>2. \A i \in 1 .. to : l[i] \in S
      BY <1>5, <2>1
    <2> HIDE DEF to, S
    <2>3. /\ SubSeq(l, 1, to) \in Seq(S)
          /\ Len(SubSeq(l, 1, to)) = IF 1 <= to THEN to - 1 + 1 ELSE 0
          /\ \A i \in 1 .. (to - 1 + 1) : SubSeq(l, 1, to)[i] = l[1 + i - 1]
      BY <2>1, <2>2, SubSeqProperties
    <2> DEFINE u == SubSeq(l, 1, to)
    <2> HIDE DEF u
    <2>4. u \in Seq(S) /\ Len(u) = to /\ \A i \in 1 .. to : u[i] = l[i]
      BY <2>1, <2>3 DEF u
    <2> QED BY <2>4 DEF u, to
  <1>3. b \in Seq(S) /\ Len(b) = n - k /\ \A i \in 1 .. (n - k) : b[i] = l[k + i]
    <2> DEFINE from == k + 1
    <2>1. from \in Int /\ n \in Int /\ (\A i \in from .. n : i \in 1 .. n) /\ n - from + 1 = n - k
          /\ (IF from <= n THEN n - from + 1 ELSE 0) = n - k
          /\ \A i \in 1 .. (n - k) : from + i - 1 = k + i
      BY <1>1
    <2>2. \A i \in from .. n : l[i] \in S
      BY <1>5, <2>1
    <2> HIDE DEF from, S
    <2>3. /\ SubSeq(l, from, n) \in Seq(S)
          /\ Len(SubSeq(l, from, n)) = IF from <= n THEN n - from + 1 ELSE 0
          /\ \A i \in 1 .. (n - from + 1) : SubSeq(l, from, n)[i] = l[from + i - 1]
      BY <2>1, <2>2, SubSeqProperties
    <2> DEFINE u == SubSeq(l, from, n)
    <2> HIDE DEF u
    <2>4. u \in Seq(S) /\ Len(u) = n - k /\ \A i \in 1 .. (n - k) : u[i] = l[k + i]
      BY <2>1, <2>3 DEF u
    <2> QED BY <2>4 DEF u, from
  <1> HIDE DEF a, b, S
  <1>4. /\ m \in Seq(S) /\ Len(m) = n - 1
        /\ \A i \in 1 .. (k - 1) : m[i] = l[i]
        /\ \A i \in 1 .. (n - k) : m[Len(a) + i] = l[k + i]
    <2>1. a \in Seq(S) /\ b \in Seq(S)
      BY <1>2, <1>3
    <2>2. /\ a \o b \in Seq(S) /\ Len(a \o b) = Len(a) + Len(b)
          /\ \A i \in 1 .. Len(a) : (a \o b)[i] = a[i]
          /\ \A i \in 1 .. Len(b) : (a \o b)[Len(a) + i] = b[i]
      BY <2>1, ConcatFacts
    <2>3. /\ m \in Seq(S) /\ Len(m) = Len(a) + Len(b)
          /\ \A i \in 1 .. Len(a) : m[i] = a[i]
          /\ \A i \in 1 .. Len(b) : m[Len(a) + i] = b[i]
      BY <1>m, <2>2
    <2>4. (k - 1) + (n - k) = n - 1
      BY <1>1
    <2> QED BY <1>2, <1>3, <2>3, <2>4
  <1>6. \A i \in 1 .. (n - 1) : m[i] = IF i < k THEN l[i] ELSE l[i + 1]
    <2> TAKE i \in 1 .. (n - 1)
    <2>1. CASE i < k
      <3>1. i \in 1 .. (k - 1)
        BY <1>1, <2>1
      <3> QED BY <1>4, <2>1, <3>1
    <2>2. CASE ~(i < k)
      <3>1. i - k + 1 \in 1 .. (n - k) /\ (k - 1) + (i - k + 1) = i /\ k + (i - k + 1) = i + 1
        BY <1>1, <2>2
      <3> DEFINE j == i - k + 1
      <3>2. j \in 1 .. (n - k) /\ (k - 1) + j = i /\ k + j = i + 1
        BY <3>1
      <3> HIDE DEF j
      <3>3. m[Len(a) + j] = l[k + j] /\ Len(a) = k - 1
        BY <1>2, <1>4, <3>2
      <3> QED BY <2>2, <3>2, <3>3
    <2> QED BY <2>1, <2>2
  <1>7. \A i \in 1 .. (n - 1) : i \in 1 .. n /\ i + 1 \in 1 .. n
    BY <1>1
  <1>8. \A i \in 1 .. Len(m) : IsWord(m[i])
    BY <1>4, <1>5, <1>6, <1>7
  <1>9. Distinct(m)
    <2> SUFFICES ASSUME NEW i \in 1 .. (n - 1), NEW j \in 1 .. (n - 1),
                        m[i].vt_word = m[j].vt_word
                 PROVE  i = j
      BY <1>4 DEF Distinct
    <2> DEFINE x == IF i < k THEN i ELSE i + 1
               y == IF j < k THEN j ELSE j + 1
    <2>1. x \in 1 .. n /\ y \in 1 .. n /\ (x = y => i = j)
      BY <1>1
    <2>2. m[i] = l[x] /\ m[j] = l[y]
      BY <1>6
    <2> HIDE DEF x, y
    <2> QED BY <1>5, <2>1, <2>2
  <1>10. m \in Seq(Range(m))
    BY <1>4, SeqOfRange
  <1> QED BY <1>8, <1>9, <1>10 DEF IsListed, IsWordList, m

\* A list on its way carries the words SirenProxy had when it was pushed.
Faithful(p, newest, words) ==
  IsSync(p) =>
    /\ p.serial \in 1 .. newest
    /\ \E l : /\ IsListed(l) /\ p.msg = AllocateMessageFromVTWord(l)
              /\ p.serial = newest => l = words

AllFaithful(q, newest, words) ==
  q \in Seq(Range(q)) /\ \A p \in Range(q) : Faithful(p, newest, words)

NewestIn(q, newest) == \E i \in 1 .. Len(q) : IsSync(q[i]) /\ q[i].serial = newest

EngineHas(words) ==
  \E l : /\ IsListed(l) /\ engine = Defaults \o l
         /\ shown = serial => l = words

\* Where the newest list is as long as no queue has dropped anything.
NewestSomewhere ==
  \/ shown = serial
  \/ NewestIn(requests, serial) \/ NewestIn(channel, serial) \/ NewestIn(packages, serial)

Contents ==
  /\ IsWord(word) /\ IsListed(vt_words)
  /\ serial \in Nat /\ shown \in 0 .. serial
  /\ AllFaithful(requests, serial, vt_words)
  /\ AllFaithful(channel, serial, vt_words)
  /\ AllFaithful(packages, serial, vt_words)
  /\ EngineHas(vt_words)
  /\ ~overflowed => NewestSomewhere

\* A queue of faithful items is one.
LEMMA FaithfulFrom ==
  ASSUME NEW S, NEW q \in Seq(S), NEW newest, NEW words,
         \A p \in S : Faithful(p, newest, words)
  PROVE  AllFaithful(q, newest, words)
  <1>1. q \in Seq(Range(q)) /\ Range(q) \in SUBSET S
    BY SeqOfRange, RangeOfSeq
  <1> QED BY <1>1 DEF AllFaithful

\* A queue loses its head, gets one more, or drops something: what it holds came from it.
LEMMA TailFaithful ==
  ASSUME NEW q, NEW newest, NEW words, AllFaithful(q, newest, words), q # <<>>
  PROVE  /\ AllFaithful(Tail(q), newest, words)
         /\ Faithful(Head(q), newest, words)
  <1>1. Tail(q) \in Seq(Range(q)) /\ Head(q) \in Range(q)
    BY HeadTailProperties DEF AllFaithful
  <1> QED BY <1>1, FaithfulFrom DEF AllFaithful

\* A faithful item may be appended.
LEMMA AppendFaithful ==
  ASSUME NEW q, NEW newest, NEW words, AllFaithful(q, newest, words),
         NEW e, Faithful(e, newest, words)
  PROVE  AllFaithful(Append(q, e), newest, words)
  <1>1. Append(q, e) \in Seq(Range(q) \cup {e})
    BY AppendFacts DEF AllFaithful
  <1>2. \A p \in Range(q) \cup {e} : Faithful(p, newest, words)
    BY DEF AllFaithful
  <1> QED BY <1>1, <1>2, FaithfulFrom

\* And pushed, even into a queue that is full.
LEMMA PushFaithful ==
  ASSUME NEW q, NEW newest, NEW words, AllFaithful(q, newest, words),
         NEW e, Faithful(e, newest, words), NEW slots \in Nat \ {0}
  PROVE  AllFaithful(Push(q, e, slots), newest, words)
  <1> DEFINE S == Range(q) \cup {Surplus}
  <1>1. q \in Seq(Range(q)) /\ Len(q) \in Nat
    BY LenProperties DEF AllFaithful
  <1>2. CASE Len(q) < slots
    BY <1>2, AppendFaithful DEF Push, PushTo
  <1>3. CASE ~(Len(q) < slots)
    <2>1. PICK last : last = Len(q) + 1 - slots
      OBVIOUS
    <2>2. last \in 1 .. Len(q)
      BY <1>1, <1>3, <2>1
    <2> DEFINE r == [q EXCEPT ![last] = Surplus]
    <2>3. q \in Seq(S) /\ Surplus \in S
      BY <1>1, SeqMonotonic
    <2>4. q[last] \in S
      BY <1>1, <2>2, ElementOfSeq
    <2>5. Push(q, e, slots) = Append(r, q[last])
      BY <1>3, <2>1 DEF Push, PushTo
    <2> HIDE DEF S
    <2>6. r \in Seq(S)
      BY <2>2, <2>3, ExceptSeq
    <2> HIDE DEF r
    <2>7. Append(r, q[last]) \in Seq(S)
      BY <2>4, <2>6, AppendProperties
    <2>8. \A p \in S : Faithful(p, newest, words)
      <3>1. Faithful(Surplus, newest, words)
        BY DEF Faithful, IsSync, Surplus
      <3> QED BY <3>1 DEF S, AllFaithful
    <2> QED BY <2>5, <2>7, <2>8, FaithfulFrom
  <1> QED BY <1>2, <1>3

\* The newest list moves with the head, or stays behind it.
LEMMA NewestTail ==
  ASSUME NEW S, NEW q \in Seq(S), q # <<>>, NEW newest, NewestIn(q, newest)
  PROVE  \/ IsSync(Head(q)) /\ Head(q).serial = newest
         \/ NewestIn(Tail(q), newest)
  <1>1. PICK i \in 1 .. Len(q) : IsSync(q[i]) /\ q[i].serial = newest
    BY DEF NewestIn
  <1>2. /\ Len(q) \in Nat /\ Head(q) = q[1] /\ Len(Tail(q)) = Len(q) - 1
        /\ \A j \in 1 .. Len(Tail(q)) : Tail(q)[j] = q[j + 1]
    BY HeadTailProperties, LenProperties
  <1>3. CASE i = 1
    BY <1>1, <1>2, <1>3
  <1>4. CASE i # 1
    <2>1. i - 1 \in 1 .. Len(Tail(q)) /\ (i - 1) + 1 = i
      BY <1>2, <1>4
    <2> DEFINE j == i - 1
    <2>2. j \in 1 .. Len(Tail(q)) /\ j + 1 = i
      BY <2>1
    <2> HIDE DEF j
    <2>3. Tail(q)[j] = q[i]
      BY <1>2, <2>2
    <2> QED BY <1>1, <2>2, <2>3 DEF NewestIn
  <1> QED BY <1>3, <1>4

\* An item behind the newest list leaves it there.
LEMMA NewestAppend ==
  ASSUME NEW S, NEW q \in Seq(S), NEW e, NEW newest
  PROVE  /\ NewestIn(q, newest) => NewestIn(Append(q, e), newest)
         /\ IsSync(e) /\ e.serial = newest => NewestIn(Append(q, e), newest)
  BY AppendFacts DEF NewestIn

\* No word is kept and none is on its way when the application starts.
LEMMA InitContents == Init => Contents
  <1> SUFFICES ASSUME Init PROVE Contents
    OBVIOUS
  <1>1. IsWord(word)
    BY WordsAreWords DEF Init
  <1>2. <<>> \in Seq({}) /\ Len(<<>>) = 0
    BY EmptySeq
  <1>3. IsListed(<<>>)
    BY <1>2, SeqOfRange DEF IsListed, IsWordList, Distinct
  <1>4. AllFaithful(<<>>, serial, vt_words)
    <2>1. PICK S, none : S = {} /\ none = <<>>
      OBVIOUS
    <2>2. none \in Seq(S) /\ \A p \in S : Faithful(p, serial, vt_words)
      BY <1>2, <2>1
    <2>3. AllFaithful(none, serial, vt_words)
      BY ONLY <2>2, FaithfulFrom
    <2> QED BY <2>1, <2>3
  <1>5. EngineHas(vt_words)
    <2>1. Defaults \o <<>> = Defaults
      BY WordsAreWords, ConcatEmptySeq
    <2> QED BY <1>3, <2>1 DEF Init, EngineHas
  <1> QED BY <1>1, <1>3, <1>4, <1>5 DEF Init, Contents, NewestSomewhere

\* What is in a queue while a newer list is pushed is no longer the newest.
LEMMA FaithfulWhilePushed ==
  ASSUME NEW newest \in Nat, NEW words, NEW other, NEW q, AllFaithful(q, newest, words)
  PROVE  AllFaithful(q, newest + 1, other)
  <1>1. ASSUME NEW p, Faithful(p, newest, words), IsSync(p)
        PROVE  Faithful(p, newest + 1, other)
    <2>1. p.serial \in 1 .. newest
      BY <1>1 DEF Faithful
    <2>2. p.serial \in 1 .. (newest + 1) /\ p.serial # newest + 1
      BY <2>1
    <2> QED BY <1>1, <2>2 DEF Faithful
  <1>2. ASSUME NEW p, Faithful(p, newest, words)
        PROVE  Faithful(p, newest + 1, other)
    <2>1. CASE ~IsSync(p)
      BY <2>1 DEF Faithful
    <2> QED BY <1>1, <1>2, <2>1
  <1> QED BY <1>2 DEF AllFaithful

\* A change pushes the list it leaves, and only that list is the newest.
LEMMA PushContents ==
  ASSUME Contents, IsWord(word)', IsListed(vt_words'), PushList(vt_words'),
         UNCHANGED <<channel, packages, engine, shown>>
  PROVE  Contents'
  <1> DEFINE sync == Sync(vt_words')
  <1>1. /\ serial \in Nat /\ serial' = serial + 1 /\ shown' = shown /\ shown \in 0 .. serial
        /\ channel' = channel /\ packages' = packages /\ engine' = engine
        /\ overflowed' = (overflowed \/ Len(requests) >= RequestSlots)
        /\ requests' = Push(requests, sync, RequestSlots)
    BY DEF Contents, PushList
  <1>2. IsSync(sync) /\ sync.serial = serial + 1 /\ sync.msg = AllocateMessageFromVTWord(vt_words')
    BY DEF Sync, IsSync
  <1> HIDE DEF sync
  <1>3. Faithful(sync, serial + 1, vt_words')
    <2>1. serial + 1 \in 1 .. (serial + 1)
      BY <1>1
    <2> QED BY <1>2, <2>1 DEF Faithful
  <1>4. /\ AllFaithful(requests, serial + 1, vt_words')
        /\ AllFaithful(channel, serial + 1, vt_words')
        /\ AllFaithful(packages, serial + 1, vt_words')
    BY <1>1, FaithfulWhilePushed DEF Contents
  <1>5. AllFaithful(requests', serial + 1, vt_words')
    BY <1>1, <1>3, <1>4, PushFaithful, SlotsAreCounted
  <1>6. EngineHas(vt_words)'
    <2>1. PICK l : IsListed(l) /\ engine = Defaults \o l
      BY DEF Contents, EngineHas
    <2>2. shown' # serial'
      BY <1>1
    <2> QED BY <1>1, <2>1, <2>2 DEF EngineHas
  <1>7. shown' \in 0 .. serial' /\ serial' \in Nat
    BY <1>1
  <1>8. ASSUME ~overflowed' PROVE NewestSomewhere'
    <2>1. requests \in Seq(Range(requests))
      BY DEF Contents, AllFaithful
    <2>2. requests' = Append(requests, sync)
      BY <1>1, <1>8, <2>1, PushAppends, SlotsAreCounted
    <2>3. NewestIn(requests', serial + 1)
      BY <1>2, <2>1, <2>2, NewestAppend
    <2> QED BY <1>1, <2>3 DEF NewestSomewhere
  <1> QED BY <1>1, <1>4, <1>5, <1>6, <1>7, <1>8 DEF Contents

\* The caller's structure holds a word again after add_vt_word has written into it.
LEMMA AddedIsWord ==
  ASSUME NEW w, IsWord(w), HasPhoneme(w.vt_phone)
  PROVE  /\ IsWord(Spelt(w)) /\ Spelt(w).vt_word = w.vt_word
         /\ IsWord(WithDefaults(Spelt(w), w.vt_phone))
         /\ WithDefaults(Spelt(w), w.vt_phone).vt_word = w.vt_word
  <1> DEFINE phone == Pinyin2Phoneme(w.vt_phone)
  <1>1. IsText(phone)
    BY PhonemeIsText DEF IsWord
  <1>2. Spelt(w) = [vt_type |-> w.vt_type, vt_word |-> w.vt_word, vt_phone |-> phone,
                    alg |-> w.alg]
    BY DEF Spelt, IsWord
  <1> HIDE DEF phone
  <1>3. IsWord(Spelt(w)) /\ Spelt(w).vt_word = w.vt_word
    BY <1>1, <1>2 DEF IsWord
  <1>4. PICK avg, min : WithDefaults(Spelt(w), w.vt_phone)
          = [Spelt(w) EXCEPT !.alg = [avg |-> avg, min |-> min, flags |-> "default",
                                      nnet_path |-> <<>>]]
    BY DEF WithDefaults
  <1> DEFINE a == [avg |-> avg, min |-> min, flags |-> "default", nnet_path |-> <<>>]
  <1>5. WithDefaults(Spelt(w), w.vt_phone)
          = [vt_type |-> w.vt_type, vt_word |-> w.vt_word, vt_phone |-> phone, alg |-> a]
    BY <1>2, <1>4
  <1>6. IsText(<<>>)
    BY EmptySeq DEF IsText
  <1>7. a = [avg |-> a.avg, min |-> a.min, flags |-> a.flags, nnet_path |-> a.nnet_path]
        /\ IsText(a.nnet_path)
    BY <1>6
  <1> HIDE DEF a
  <1> QED BY <1>1, <1>3, <1>5, <1>7 DEF IsWord

\* add_vt_word keeps what is said of the contents.
LEMMA AddContents ==
  ASSUME Contents, NEW d \in BOOLEAN, AddOk(d)
  PROVE  Contents'
  <1> DEFINE added == IF d THEN WithDefaults(Spelt(word), word.vt_phone) ELSE Spelt(word)
  <1>1. /\ word' = added /\ vt_words' = Append(vt_words, added) /\ PushList(vt_words')
        /\ HasVTWord(word.vt_word) = {} /\ HasPhoneme(word.vt_phone)
        /\ UNCHANGED <<channel, packages, engine, shown>>
    BY DEF AddOk, WriteBack, Call
  <1>2. IsWord(added) /\ added.vt_word = word.vt_word
    BY <1>1, AddedIsWord DEF Contents
  <1> HIDE DEF added
  <1>3. \A i \in DOMAIN vt_words : vt_words[i].vt_word # added.vt_word
    BY <1>1, <1>2 DEF HasVTWord
  <1>4. IsListed(vt_words')
    BY <1>1, <1>2, <1>3, AddIsListed DEF Contents
  <1> QED BY <1>1, <1>2, <1>4, PushContents

\* So does remove_vt_word.
LEMMA RemoveContents ==
  ASSUME Contents, NEW name, RemoveOk(name)
  PROVE  Contents'
  <1>1. PICK i \in HasVTWord(name) :
          /\ vt_words' = RemoveAt(vt_words, i) /\ PushList(vt_words')
          /\ UNCHANGED <<channel, packages, engine, shown>> /\ word' = word
    BY DEF RemoveOk, Call
  <1>2. i \in DOMAIN vt_words
    BY DEF HasVTWord
  <1>3. IsListed(vt_words')
    BY <1>1, <1>2, RemoveIsListed DEF Contents
  <1> QED BY <1>1, <1>3, PushContents DEF Contents

\* The request thread and the reader of the base pass a list on.
LEMMA MoveContents ==
  ASSUME Contents, RequestSkip \/ RequestWrite \/ BaseTake
  PROVE  Contents'
  <1>1. /\ UNCHANGED <<word, vt_words, engine, serial, shown>>
        /\ overflowed => overflowed'
    <2>1. UNCHANGED <<word, vt_words, engine, serial, shown>>
      BY DEF RequestSkip, RequestWrite, BaseTake
    <2> QED BY <2>1, OverflowStays DEF Next
  <1>2. /\ requests \in Seq(Range(requests)) /\ channel \in Seq(Range(channel))
        /\ packages \in Seq(Range(packages))
    BY DEF Contents, AllFaithful
  <1>3. CASE RequestSkip
    <2>1. /\ requests # <<>> /\ ~IsSync(Head(requests)) /\ requests' = Tail(requests)
          /\ channel' = channel /\ packages' = packages
      BY <1>3 DEF RequestSkip
    <2>2. AllFaithful(Tail(requests), serial, vt_words)
      BY <2>1, TailFaithful DEF Contents
    <2>3. NewestSomewhere => NewestSomewhere'
      BY <1>1, <1>2, <2>1, NewestTail DEF NewestSomewhere
    <2> QED BY <1>1, <2>1, <2>2, <2>3 DEF Contents, EngineHas
  <1>4. CASE RequestWrite
    <2>1. /\ requests # <<>> /\ requests' = Tail(requests)
          /\ channel' = Append(channel, Head(requests)) /\ packages' = packages
      BY <1>4 DEF RequestWrite
    <2>2. /\ AllFaithful(Tail(requests), serial, vt_words)
          /\ AllFaithful(Append(channel, Head(requests)), serial, vt_words)
      BY <2>1, TailFaithful, AppendFaithful DEF Contents
    <2>3. NewestSomewhere => NewestSomewhere'
      BY <1>1, <1>2, <2>1, NewestTail, NewestAppend DEF NewestSomewhere
    <2> QED BY <1>1, <2>1, <2>2, <2>3 DEF Contents, EngineHas
  <1>5. CASE BaseTake
    <2>1. /\ channel # <<>> /\ channel' = Tail(channel) /\ requests' = requests
          /\ packages' = Push(packages, Head(channel), PackageSlots)
          /\ overflowed' = (overflowed \/ Len(packages) >= PackageSlots)
      BY <1>5 DEF BaseTake, Enqueue
    <2>2. /\ AllFaithful(Tail(channel), serial, vt_words)
          /\ AllFaithful(packages', serial, vt_words)
      BY <2>1, TailFaithful, PushFaithful, SlotsAreCounted DEF Contents
    <2>3. ASSUME ~overflowed' PROVE NewestSomewhere => NewestSomewhere'
      <3>1. packages' = Append(packages, Head(channel))
        BY <1>2, <2>1, <2>3, PushAppends, SlotsAreCounted
      <3>2. /\ NewestIn(packages, serial) => NewestIn(packages', serial)
            /\ IsSync(Head(channel)) /\ Head(channel).serial = serial
                 => NewestIn(packages', serial)
        BY <1>2, <3>1, NewestAppend
      <3>3. NewestIn(channel, serial)
              => \/ IsSync(Head(channel)) /\ Head(channel).serial = serial
                 \/ NewestIn(Tail(channel), serial)
        BY <1>2, <2>1, NewestTail
      <3> QED BY <1>1, <2>1, <3>2, <3>3 DEF NewestSomewhere
    <2> QED BY <1>1, <2>1, <2>2, <2>3 DEF Contents, EngineHas
  <1> QED BY <1>3, <1>4, <1>5

\* A frame carries no words.
LEMMA FrameContents ==
  ASSUME Contents, FrameArrives
  PROVE  Contents'
  <1>1. /\ UNCHANGED <<word, vt_words, engine, serial, shown, requests, channel>>
        /\ packages' = Push(packages, Frame, PackageSlots)
        /\ overflowed' = (overflowed \/ Len(packages) >= PackageSlots)
    BY DEF FrameArrives, Enqueue
  <1>2. AllFaithful(packages', serial, vt_words)
    <2>1. Faithful(Frame, serial, vt_words)
      BY DEF Faithful, IsSync, Frame
    <2> QED BY <1>1, <2>1, PushFaithful, SlotsAreCounted DEF Contents
  <1>3. ASSUME ~overflowed' PROVE NewestSomewhere => NewestSomewhere'
    <2>1. packages \in Seq(Range(packages))
      BY DEF Contents, AllFaithful
    <2>2. packages' = Append(packages, Frame)
      BY <1>1, <1>3, <2>1, PushAppends, SlotsAreCounted
    <2> QED BY <1>1, <2>1, <2>2, NewestAppend DEF NewestSomewhere
  <1> QED BY <1>1, <1>2, <1>3 DEF Contents, EngineHas

\* What the process thread unpacks is the list that was packed.
LEMMA ProcessContents ==
  ASSUME Contents, IInv, ProcessOther \/ ProcessSync
  PROVE  Contents'
  <1> DEFINE p == Head(packages)
  <1>1. /\ UNCHANGED <<word, vt_words, serial, requests, channel, overflowed>>
        /\ packages # <<>> /\ packages' = Tail(packages)
    BY DEF ProcessOther, ProcessSync
  <1>2. packages \in Seq(Range(packages))
    BY DEF Contents, AllFaithful
  <1>3. AllFaithful(packages', serial, vt_words) /\ Faithful(p, serial, vt_words)
    BY <1>1, TailFaithful DEF Contents
  <1>4. CASE ProcessOther
    <2>1. ~IsSync(p) /\ UNCHANGED <<engine, shown>>
      BY <1>4 DEF ProcessOther
    <2>2. NewestSomewhere => NewestSomewhere'
      BY <1>1, <1>2, <2>1, NewestTail DEF NewestSomewhere
    <2> QED BY <1>1, <1>3, <2>1, <2>2 DEF Contents, EngineHas
  <1>5. CASE ProcessSync
    <2>1. IsSync(p)
      BY <1>5 DEF ProcessSync
    <2>2. PICK l : /\ IsListed(l) /\ p.msg = AllocateMessageFromVTWord(l)
                   /\ p.serial = serial => l = vt_words
      BY <1>3, <2>1 DEF Faithful
    <2>3. p.serial \in 1 .. serial
      BY <1>3, <2>1 DEF Faithful
    <2>4. GetVTWordFromMessage(p.msg) = [ret |-> IF l = <<>> THEN -2 ELSE 0, words |-> l]
      BY <2>2, MessageCarriesWords DEF IsListed
    <2>5. /\ Syncable(GetVTWordFromMessage(p.msg).ret)
          /\ SyncVTWord(GetVTWordFromMessage(p.msg).words) = Defaults \o l
      BY <2>4 DEF Syncable, SyncVTWord
    <2>6. engine' = Defaults \o l /\ shown' = p.serial
      BY <1>5, <2>5 DEF ProcessSync
    <2> HIDE DEF p
    <2>7. EngineHas(vt_words)'
      BY <1>1, <2>2, <2>6 DEF EngineHas
    <2>8. shown' \in 0 .. serial /\ serial \in Nat
      BY <2>3, <2>6 DEF Contents
    <2>9. ASSUME ~overflowed' PROVE NewestSomewhere'
      <3>1. p.serial > shown
        BY <1>1, <1>5, <2>9, ProcessInOrder DEF IInv, p
      <3>2. shown # serial
        <4>1. shown \in Nat /\ serial \in Nat /\ p.serial \in Nat /\ p.serial <= serial
          BY <2>3 DEF Contents
        <4> QED BY <3>1, <4>1
      <3>3. NewestSomewhere
        BY <1>1, <2>9 DEF Contents
      <3>4. \/ NewestIn(requests, serial) \/ NewestIn(channel, serial)
            \/ p.serial = serial \/ NewestIn(Tail(packages), serial)
        BY <1>1, <1>2, <3>2, <3>3, NewestTail DEF NewestSomewhere, p
      <3> QED BY <1>1, <2>6, <3>4 DEF NewestSomewhere
    <2> QED BY <1>1, <1>3, <2>7, <2>8, <2>9 DEF Contents
  <1> QED BY <1>4, <1>5

\* Every step keeps what is said of the contents.
LEMMA StepContents ==
  ASSUME Contents, IInv, [Next]_vars
  PROVE  Contents'
  <1>1. ASSUME UNCHANGED <<word, vt_words, requests, channel, packages, engine, overflowed,
                           serial, shown>>
        PROVE  Contents'
    BY <1>1 DEF Contents, EngineHas, NewestSomewhere
  <1>2. CASE Fill
    <2>1. /\ UNCHANGED <<vt_words, requests, channel, packages, engine, overflowed, serial, shown>>
          /\ word' \in Fillings
      BY <1>2 DEF Fill
    <2>2. IsWord(word')
      BY <2>1, WordsAreWords
    <2> QED BY <2>1, <2>2 DEF Contents, EngineHas, NewestSomewhere
  <1>3. CASE AddVTWord
    <2>1. CASE AddError \/ AddDup
      BY <1>1, <2>1 DEF AddError, AddDup, AddRefused, Call
    <2> QED BY <1>3, <2>1, AddContents DEF AddVTWord
  <1>4. CASE RemoveVTWord
    <2>1. PICK name \in Names : RemoveRefused(name) \/ RemoveOk(name)
      BY <1>4 DEF RemoveVTWord
    <2>2. CASE RemoveRefused(name)
      BY <1>1, <2>2 DEF RemoveRefused, Call
    <2> QED BY <2>1, <2>2, RemoveContents
  <1>5. CASE UNCHANGED vars
    BY <1>1, <1>5 DEF vars
  <1> QED BY <1>2, <1>3, <1>4, <1>5, MoveContents, FrameContents, ProcessContents DEF Next

\* The words behind the defaults are those of the list: their names are distinct.
LEMMA DistinctBehind ==
  ASSUME NEW l, IsListed(l), engine = Defaults \o l
  PROVE  \A i, j \in Len(Defaults) + 1 .. Len(engine) :
           engine[i].vt_word = engine[j].vt_word => i = j
  <1> DEFINE S == Range(Defaults) \cup Range(l)
             d == Len(Defaults)
             n == Len(l)
  <1>1. Defaults \in Seq(S) /\ l \in Seq(S)
    <2>1. Defaults \in Seq(Range(Defaults)) /\ l \in Seq(Range(l))
      BY WordsAreWords DEF IsListed, IsWordList
    <2> QED BY <2>1, SeqMonotonic
  <1>2. d \in Nat /\ n \in Nat
    BY <1>1, LenProperties
  <1> HIDE DEF S
  <1>3. /\ Len(Defaults \o l) = Len(Defaults) + Len(l)
        /\ \A k \in 1 .. Len(l) : (Defaults \o l)[Len(Defaults) + k] = l[k]
    BY <1>1, ConcatFacts
  <1>4. Len(engine) = d + n /\ \A k \in 1 .. n : engine[d + k] = l[k]
    BY <1>3
  <1>5. \A i, j \in 1 .. n : l[i].vt_word = l[j].vt_word => i = j
    BY DEF IsListed, Distinct
  <1> HIDE DEF d, n
  <1>6. \A i \in d + 1 .. d + n : \E k \in 1 .. n : i = d + k
    <2> TAKE i \in d + 1 .. d + n
    <2>1. i - d \in 1 .. n /\ i = d + (i - d)
      BY <1>2
    <2> QED BY <2>1
  <1> SUFFICES ASSUME NEW i \in d + 1 .. d + n, NEW j \in d + 1 .. d + n,
                      engine[i].vt_word = engine[j].vt_word
               PROVE  i = j
    BY <1>4 DEF d
  <1>7. PICK k \in 1 .. n, m \in 1 .. n : i = d + k /\ j = d + m
    BY <1>6
  <1>8. k = m
    BY <1>4, <1>5, <1>7
  <1> QED BY <1>7, <1>8

\* Once the newest list has arrived the engine has the configured words and then exactly
\* the words SirenProxy keeps; the newest list does not get lost unless a queue
\* overflows; and the engine never has two words of the application with one name.  All
\* of it for any words, any number of calls and queues of any length.
THEOREM EngineHasTheWords == Spec => []EngineFollows
  <1>1. Init => Contents /\ IInv
    BY InitContents, InitInOrder
  <1>2. Contents /\ IInv /\ [Next]_vars => Contents' /\ IInv'
    BY StepContents, StepInOrder
  <1>3. Contents => EngineFollows
    <2> SUFFICES ASSUME Contents PROVE EngineFollows
      OBVIOUS
    <2>1. PICK l : IsListed(l) /\ engine = Defaults \o l /\ (shown = serial => l = vt_words)
      BY DEF Contents, EngineHas
    <2>2. shown = serial => engine = Defaults \o vt_words
      BY <2>1
    <2>3. Quiet /\ ~overflowed => shown = serial
      <3> SUFFICES ASSUME Quiet, NewestSomewhere PROVE shown = serial
        BY DEF Contents
      <3>1. ~NewestIn(requests, serial) /\ ~NewestIn(channel, serial)
        BY EmptySeq DEF Quiet, NewestIn
      <3>2. DOMAIN packages = 1 .. Len(packages)
        BY LenProperties DEF Contents, AllFaithful
      <3>3. ~NewestIn(packages, serial)
        BY <3>2 DEF Quiet, NewestIn
      <3> QED BY <3>1, <3>3 DEF NewestSomewhere
    <2>4. \A i, j \in Len(Defaults) + 1 .. Len(engine) :
            engine[i].vt_word = engine[j].vt_word => i = j
      BY <2>1, DistinctBehind
    <2> QED BY <2>2, <2>3, <2>4 DEF EngineFollows
  <1> QED BY <1>1, <1>2, <1>3, PTL DEF Spec
=============================================================================
