---------------------------- MODULE LFQueueProofs ----------------------------
(***************************************************************************)
(* Proofs about LFQueue, for every number of producers, consumers, items   *)
(* and slots.                                                              *)
(***************************************************************************)
EXTENDS LFQueueRing, FiniteSetTheorems, SequenceTheorems, WellFoundedInduction, TLAPS

-----------------------------------------------------------------------------
(* Counting threads *)

LEMMA SlotIsSlot == \A t \in Nat : Slot(t) \in Slots
  BY SizePositive DEF Slot, Slots

LEMMA CountAdd ==
  ASSUME NEW S, IsFiniteSet(S), NEW x, x \notin S
  PROVE  Cardinality(S \cup {x}) = Cardinality(S) + 1
  BY FS_AddElement

LEMMA CountRemove ==
  ASSUME NEW S, IsFiniteSet(S), NEW x \in S
  PROVE  Cardinality(S \ {x}) = Cardinality(S) - 1
  BY FS_RemoveElement

\* The sets of threads that the accounting counts are finite, and so are theirs
\* after a step.
LEMMA ThreadSetsFinite ==
  ASSUME NEW s
  PROVE  /\ IsFiniteSet(Waiting(s)) /\ Cardinality(Waiting(s)) \in Nat
         /\ IsFiniteSet(Taking(s)) /\ Cardinality(Taking(s)) \in Nat
         /\ IsFiniteSet(Committing(s)) /\ Cardinality(Committing(s)) \in Nat
         /\ IsFiniteSet(Waiting(s)') /\ Cardinality(Waiting(s)') \in Nat
         /\ IsFiniteSet(Taking(s)') /\ Cardinality(Taking(s)') \in Nat
         /\ IsFiniteSet(Committing(s)') /\ Cardinality(Committing(s)') \in Nat
  <1>1. /\ Waiting(s) \subseteq Consumers /\ Waiting(s)' \subseteq Consumers
        /\ Taking(s) \subseteq Consumers /\ Taking(s)' \subseteq Consumers
        /\ Committing(s) \subseteq Producers /\ Committing(s)' \subseteq Producers
    BY DEF Waiting, Taking, Committing
  <1> QED
    BY <1>1, ThreadsFinite, FS_Subset, FS_CardinalityType

-----------------------------------------------------------------------------
(* Type correctness, together with the count of waiters it needs: --waiters *)
(* stays a natural number only because the thread that runs it is counted.  *)

WInv == TypeOK /\ WaitersCounted

\* Steps that change neither a consumer's place nor a waiter count keep it.
LEMMA WaitersKept ==
  ASSUME WaitersCounted, waiters' = waiters, \A s \in Slots : Waiting(s)' = Waiting(s)
  PROVE  WaitersCounted'
  BY DEF WaitersCounted

LEMMA WInvInit == Init => WInv
  <1> SUFFICES ASSUME Init PROVE WInv
    OBVIOUS
  <1>1. TypeOK
      <2>1. SlotTypes
      BY DEF Init, SlotTypes
    <2>2. ProducerTypes
      BY SizePositive DEF Init, ProducerTypes, PushPC, Slots, Unfilled
    <2>3. ConsumerTypes
      BY SizePositive DEF Init, ConsumerTypes, PopPC, Slots
    <2>4. HistoryTypes
      BY EmptySeq DEF Init, HistoryTypes
    <2> QED BY <2>1, <2>2, <2>3, <2>4 DEF TypeOK
  <1>2. ASSUME NEW s \in Slots PROVE waiters[s] = Cardinality(Waiting(s))
    <2>1. Waiting(s) = {}
      BY DEF Init, Waiting
    <2> QED BY <2>1, FS_EmptySet DEF Init
  <1> QED BY <1>1, <1>2 DEF WInv, WaitersCounted

LEMMA WInvPush ==
  ASSUME WInv, NEW p \in Producers, Push(p)
  PROVE  WInv'
  <1>1. ASSUME NEW v \in Items, PushTicket(p, v) PROVE WInv'
    <2>1. TypeOK'
      <3>a. /\ push_' = push_ + 1
            /\ pslot' = [pslot EXCEPT ![p] = Slot(push_)]
            /\ pitem' = [pitem EXCEPT ![p] = v]
            /\ order' = Append(order, v)
            /\ ppc' = [ppc EXCEPT ![p] = "inc"]
            /\ UNCHANGED <<slotVars, consVars, perr, pret, dropped>>
        BY <1>1, Zenon DEF PushTicket
      <3>b. lapped' = lapped \cup {v} \/ lapped' = lapped
        BY <1>1, Zenon DEF PushTicket
      <3>1. SlotTypes'
        BY <3>a DEF WInv, TypeOK, SlotTypes, slotVars, consVars
      <3>2. ProducerTypes'
        BY <3>a, SlotIsSlot DEF WInv, TypeOK, SlotTypes, ProducerTypes, PushPC, Unfilled
      <3>3. ConsumerTypes'
        BY <3>a DEF WInv, TypeOK, ConsumerTypes, consVars
      <3>4. HistoryTypes'
        BY <3>a, <3>b, AppendProperties DEF WInv, TypeOK, HistoryTypes, consVars
      <3> QED BY <3>1, <3>2, <3>3, <3>4 DEF TypeOK
    <2>2. waiters' = waiters /\ \A s \in Slots : Waiting(s)' = Waiting(s)
      BY <1>1 DEF PushTicket, slotVars, consVars, Waiting
    <2> QED BY <2>1, <2>2, WaitersKept DEF WInv
  <1>2. CASE PushInc(p)
    <2>1. TypeOK'
      <3>1. SlotTypes'
        BY <1>2 DEF WInv, TypeOK, SlotTypes, PushInc, consVars, ProducerTypes, ConsumerTypes
      <3>2. ProducerTypes'
        BY <1>2 DEF WInv, TypeOK, ProducerTypes, PushInc, consVars, PushPC, Unfilled
      <3>3. ConsumerTypes'
        BY <1>2 DEF WInv, TypeOK, ConsumerTypes, PushInc, consVars, PopPC
      <3>4. HistoryTypes'
        BY <1>2 DEF WInv, TypeOK, HistoryTypes, PushInc, consVars, ProducerTypes, SlotTypes
      <3> QED BY <3>1, <3>2, <3>3, <3>4 DEF TypeOK
    <2>2. waiters' = waiters /\ \A s \in Slots : Waiting(s)' = Waiting(s)
      BY <1>2 DEF PushInc, consVars, Waiting
    <2> QED BY <2>1, <2>2, WaitersKept DEF WInv
  <1>3. CASE PushAdd(p)
    <2>1. TypeOK'
      <3>1. SlotTypes'
        BY <1>3 DEF WInv, TypeOK, SlotTypes, PushAdd, consVars, ProducerTypes, ConsumerTypes
      <3>2. ProducerTypes'
        BY <1>3 DEF WInv, TypeOK, ProducerTypes, PushAdd, consVars, PushPC, Unfilled
      <3>3. ConsumerTypes'
        BY <1>3 DEF WInv, TypeOK, ConsumerTypes, PushAdd, consVars, PopPC
      <3>4. HistoryTypes'
        BY <1>3 DEF WInv, TypeOK, HistoryTypes, PushAdd, consVars, ProducerTypes, SlotTypes, Unfilled
      <3> QED BY <3>1, <3>2, <3>3, <3>4 DEF TypeOK
    <2>2. waiters' = waiters /\ \A s \in Slots : Waiting(s)' = Waiting(s)
      BY <1>3 DEF PushAdd, consVars, Waiting
    <2> QED BY <2>1, <2>2, WaitersKept DEF WInv
  <1>4. CASE PushStore(p)
    <2>1. TypeOK'
      <3>1. SlotTypes'
        BY <1>4 DEF WInv, TypeOK, SlotTypes, PushStore, consVars, ProducerTypes, ConsumerTypes
      <3>2. ProducerTypes'
        BY <1>4 DEF WInv, TypeOK, ProducerTypes, PushStore, consVars, PushPC, Unfilled
      <3>3. ConsumerTypes'
        BY <1>4 DEF WInv, TypeOK, ConsumerTypes, PushStore, consVars, PopPC
      <3>4. HistoryTypes'
        BY <1>4 DEF WInv, TypeOK, HistoryTypes, PushStore, consVars, ProducerTypes, SlotTypes
      <3> QED BY <3>1, <3>2, <3>3, <3>4 DEF TypeOK
    <2>2. waiters' = waiters /\ \A s \in Slots : Waiting(s)' = Waiting(s)
      BY <1>4 DEF PushStore, consVars, Waiting
    <2> QED BY <2>1, <2>2, WaitersKept DEF WInv
  <1>5. CASE PushCheck(p)
    <2>1. TypeOK'
      <3>1. SlotTypes'
        BY <1>5 DEF WInv, TypeOK, SlotTypes, PushCheck, slotVars, consVars, ProducerTypes, ConsumerTypes
      <3>2. ProducerTypes'
        BY <1>5 DEF WInv, TypeOK, ProducerTypes, PushCheck, slotVars, consVars, PushPC, Unfilled
      <3>3. ConsumerTypes'
        BY <1>5 DEF WInv, TypeOK, ConsumerTypes, PushCheck, slotVars, consVars, PopPC
      <3>4. HistoryTypes'
        BY <1>5 DEF WInv, TypeOK, HistoryTypes, PushCheck, slotVars, consVars, ProducerTypes, SlotTypes
      <3> QED BY <3>1, <3>2, <3>3, <3>4 DEF TypeOK
    <2>2. waiters' = waiters /\ \A s \in Slots : Waiting(s)' = Waiting(s)
      BY <1>5 DEF PushCheck, slotVars, consVars, Waiting
    <2> QED BY <2>1, <2>2, WaitersKept DEF WInv
  <1>6. CASE PushWake(p)
    <2>1. TypeOK'
      <3>1. SlotTypes'
        BY <1>6 DEF WInv, TypeOK, SlotTypes, PushWake, WakeAll, slotVars, PopPC, ProducerTypes, ConsumerTypes
      <3>2. ProducerTypes'
        BY <1>6 DEF WInv, TypeOK, ProducerTypes, PushWake, WakeAll, slotVars, PopPC, PushPC, Unfilled
      <3>3. ConsumerTypes'
        BY <1>6 DEF WInv, TypeOK, ConsumerTypes, PushWake, WakeAll, slotVars, PopPC, PopPC
      <3>4. HistoryTypes'
        BY <1>6 DEF WInv, TypeOK, HistoryTypes, PushWake, WakeAll, slotVars, PopPC, ProducerTypes, SlotTypes
      <3> QED BY <3>1, <3>2, <3>3, <3>4 DEF TypeOK
    <2>2. waiters' = waiters /\ \A s \in Slots : Waiting(s)' = Waiting(s)
      BY <1>6 DEF WInv, TypeOK, ConsumerTypes, PushWake, WakeAll, slotVars, Waiting
    <2> QED BY <2>1, <2>2, WaitersKept DEF WInv
  <1>7. CASE PushReturn(p)
    <2>1. TypeOK'
      <3>1. SlotTypes'
        BY <1>7 DEF WInv, TypeOK, SlotTypes, PushReturn, slotVars, consVars, ProducerTypes, ConsumerTypes
      <3>2. ProducerTypes'
        BY <1>7 DEF WInv, TypeOK, ProducerTypes, PushReturn, slotVars, consVars, PushPC, Unfilled
      <3>3. ConsumerTypes'
        BY <1>7 DEF WInv, TypeOK, ConsumerTypes, PushReturn, slotVars, consVars, PopPC
      <3>4. HistoryTypes'
        BY <1>7 DEF WInv, TypeOK, HistoryTypes, PushReturn, slotVars, consVars, ProducerTypes, SlotTypes
      <3> QED BY <3>1, <3>2, <3>3, <3>4 DEF TypeOK
    <2>2. waiters' = waiters /\ \A s \in Slots : Waiting(s)' = Waiting(s)
      BY <1>7 DEF PushReturn, slotVars, consVars, Waiting
    <2> QED BY <2>1, <2>2, WaitersKept DEF WInv
  <1> QED
    BY <1>1, <1>2, <1>3, <1>4, <1>5, <1>6, <1>7 DEF Push

\* What a pop leaves alone.
LEMMA ProducersKept ==
  ASSUME ProducerTypes, UNCHANGED prodVars
  PROVE  ProducerTypes'
  BY DEF ProducerTypes, prodVars, Unfilled

LEMMA WInvPop ==
  ASSUME WInv, NEW c \in Consumers, PopStep(c) \/ PopInterrupted(c)
  PROVE  WInv'
  <1>1. CASE PopTicket(c)
    <2>1. TypeOK'
      <3>1. SlotTypes'
        BY <1>1
          DEF WInv, TypeOK, SlotTypes, PopTicket, slotVars, ConsumerTypes, prodVars
      <3>2. ProducerTypes'
        BY <1>1, ProducersKept DEF WInv, TypeOK, PopTicket
      <3>3. ConsumerTypes'
        BY <1>1, SlotIsSlot
          DEF WInv, TypeOK, ConsumerTypes, PopTicket, slotVars, PopPC, SlotTypes
      <3>4. HistoryTypes'
        BY <1>1
          DEF WInv, TypeOK, HistoryTypes, PopTicket, slotVars, prodVars, SlotTypes, ConsumerTypes
      <3> QED BY <3>1, <3>2, <3>3, <3>4 DEF TypeOK
    <2>2. waiters' = waiters /\ \A s \in Slots : Waiting(s)' = Waiting(s)
      BY <1>1 DEF WInv, TypeOK, ConsumerTypes, Waiting, PopTicket, slotVars
    <2> QED BY <2>1, <2>2, WaitersKept DEF WInv
  <1>2. CASE PopDec(c)
    <2>1. TypeOK'
      <3>1. SlotTypes'
        BY <1>2
          DEF WInv, TypeOK, SlotTypes, PopDec, Decrement, ConsumerTypes, prodVars
      <3>2. ProducerTypes'
        BY <1>2, ProducersKept DEF WInv, TypeOK, PopDec
      <3>3. ConsumerTypes'
        BY <1>2
          DEF WInv, TypeOK, ConsumerTypes, PopDec, Decrement, PopPC, SlotTypes
      <3>4. HistoryTypes'
        BY <1>2
          DEF WInv, TypeOK, HistoryTypes, PopDec, Decrement, prodVars, SlotTypes, ConsumerTypes
      <3> QED BY <3>1, <3>2, <3>3, <3>4 DEF TypeOK
    <2>2. waiters' = waiters /\ \A s \in Slots : Waiting(s)' = Waiting(s)
      BY <1>2 DEF WInv, TypeOK, ConsumerTypes, Waiting, PopDec, Decrement
    <2> QED BY <2>1, <2>2, WaitersKept DEF WInv
  <1>3. CASE PopWait(c)
    <2>1. TypeOK'
      <3>1. SlotTypes'
        BY <1>3
          DEF WInv, TypeOK, SlotTypes, PopWait, slotVars, ConsumerTypes, prodVars
      <3>2. ProducerTypes'
        BY <1>3, ProducersKept DEF WInv, TypeOK, PopWait
      <3>3. ConsumerTypes'
        BY <1>3
          DEF WInv, TypeOK, ConsumerTypes, PopWait, slotVars, PopPC, SlotTypes
      <3>4. HistoryTypes'
        BY <1>3
          DEF WInv, TypeOK, HistoryTypes, PopWait, slotVars, prodVars, SlotTypes, ConsumerTypes
      <3> QED BY <3>1, <3>2, <3>3, <3>4 DEF TypeOK
    <2>2. waiters' = waiters /\ \A s \in Slots : Waiting(s)' = Waiting(s)
      BY <1>3 DEF WInv, TypeOK, ConsumerTypes, Waiting, PopWait, slotVars
    <2> QED BY <2>1, <2>2, WaitersKept DEF WInv
  <1>4. CASE PopRetry(c)
    <2>1. TypeOK'
      <3>1. SlotTypes'
        BY <1>4
          DEF WInv, TypeOK, SlotTypes, PopRetry, Decrement, ConsumerTypes, prodVars
      <3>2. ProducerTypes'
        BY <1>4, ProducersKept DEF WInv, TypeOK, PopRetry
      <3>3. ConsumerTypes'
        BY <1>4
          DEF WInv, TypeOK, ConsumerTypes, PopRetry, Decrement, PopPC, SlotTypes
      <3>4. HistoryTypes'
        BY <1>4
          DEF WInv, TypeOK, HistoryTypes, PopRetry, Decrement, prodVars, SlotTypes, ConsumerTypes
      <3> QED BY <3>1, <3>2, <3>3, <3>4 DEF TypeOK
    <2>2. waiters' = waiters /\ \A s \in Slots : Waiting(s)' = Waiting(s)
      BY <1>4 DEF WInv, TypeOK, ConsumerTypes, Waiting, PopRetry, Decrement
    <2> QED BY <2>1, <2>2, WaitersKept DEF WInv
  <1>5. CASE PopCheck(c)
    <2>1. TypeOK'
      <3>1. SlotTypes'
        BY <1>5
          DEF WInv, TypeOK, SlotTypes, PopCheck, AfterWake, slotVars, ConsumerTypes, prodVars
      <3>2. ProducerTypes'
        BY <1>5, ProducersKept DEF WInv, TypeOK, PopCheck
      <3>3. ConsumerTypes'
        BY <1>5
          DEF WInv, TypeOK, ConsumerTypes, PopCheck, AfterWake, slotVars, PopPC, SlotTypes
      <3>4. HistoryTypes'
        BY <1>5
          DEF WInv, TypeOK, HistoryTypes, PopCheck, AfterWake, slotVars, prodVars, SlotTypes, ConsumerTypes
      <3> QED BY <3>1, <3>2, <3>3, <3>4 DEF TypeOK
    <2>2. waiters' = waiters /\ \A s \in Slots : Waiting(s)' = Waiting(s)
      BY <1>5 DEF WInv, TypeOK, ConsumerTypes, Waiting, PopCheck, AfterWake, slotVars
    <2> QED BY <2>1, <2>2, WaitersKept DEF WInv
  <1>6. CASE PopWake(c)
    <2>1. TypeOK'
      <3>1. SlotTypes'
        BY <1>6
          DEF WInv, TypeOK, SlotTypes, PopWake, AfterWake, slotVars, ConsumerTypes, prodVars
      <3>2. ProducerTypes'
        BY <1>6, ProducersKept DEF WInv, TypeOK, PopWake
      <3>3. ConsumerTypes'
        BY <1>6
          DEF WInv, TypeOK, ConsumerTypes, PopWake, AfterWake, slotVars, PopPC, SlotTypes
      <3>4. HistoryTypes'
        BY <1>6
          DEF WInv, TypeOK, HistoryTypes, PopWake, AfterWake, slotVars, prodVars, SlotTypes, ConsumerTypes
      <3> QED BY <3>1, <3>2, <3>3, <3>4 DEF TypeOK
    <2>2. waiters' = waiters /\ \A s \in Slots : Waiting(s)' = Waiting(s)
      BY <1>6 DEF WInv, TypeOK, ConsumerTypes, Waiting, PopWake, AfterWake, slotVars
    <2> QED BY <2>1, <2>2, WaitersKept DEF WInv
  <1>7. CASE PopTake(c)
    <2>1. TypeOK'
      <3>1. SlotTypes'
        BY <1>7
          DEF WInv, TypeOK, SlotTypes, PopTake, ConsumerTypes, prodVars
      <3>2. ProducerTypes'
        BY <1>7, ProducersKept DEF WInv, TypeOK, PopTake
      <3>3. ConsumerTypes'
        BY <1>7
          DEF WInv, TypeOK, ConsumerTypes, PopTake, PopPC, SlotTypes
      <3>4. HistoryTypes'
        BY <1>7, AppendProperties
          DEF WInv, TypeOK, HistoryTypes, PopTake, prodVars, SlotTypes, ConsumerTypes
      <3> QED BY <3>1, <3>2, <3>3, <3>4 DEF TypeOK
    <2>2. waiters' = waiters /\ \A s \in Slots : Waiting(s)' = Waiting(s)
      BY <1>7 DEF WInv, TypeOK, ConsumerTypes, Waiting, PopTake
    <2> QED BY <2>1, <2>2, WaitersKept DEF WInv
  <1>8. CASE PopInterrupted(c)
    <2>1. TypeOK'
      <3>1. SlotTypes'
        BY <1>8
          DEF WInv, TypeOK, SlotTypes, PopInterrupted, slotVars, ConsumerTypes, prodVars
      <3>2. ProducerTypes'
        BY <1>8, ProducersKept DEF WInv, TypeOK, PopInterrupted
      <3>3. ConsumerTypes'
        BY <1>8
          DEF WInv, TypeOK, ConsumerTypes, PopInterrupted, slotVars, PopPC, SlotTypes
      <3>4. HistoryTypes'
        BY <1>8
          DEF WInv, TypeOK, HistoryTypes, PopInterrupted, slotVars, prodVars, SlotTypes, ConsumerTypes
      <3> QED BY <3>1, <3>2, <3>3, <3>4 DEF TypeOK
    <2>2. waiters' = waiters /\ \A s \in Slots : Waiting(s)' = Waiting(s)
      BY <1>8 DEF WInv, TypeOK, ConsumerTypes, Waiting, PopInterrupted, slotVars
    <2> QED BY <2>1, <2>2, WaitersKept DEF WInv
  <1>9. CASE PopEnter(c)
    <2>1. TypeOK'
      <3>1. SlotTypes'
        BY <1>9
          DEF WInv, TypeOK, SlotTypes, PopEnter, ConsumerTypes, prodVars
      <3>2. ProducerTypes'
        BY <1>9, ProducersKept DEF WInv, TypeOK, PopEnter
      <3>3. ConsumerTypes'
        BY <1>9
          DEF WInv, TypeOK, ConsumerTypes, PopEnter, PopPC, SlotTypes
      <3>4. HistoryTypes'
        BY <1>9
          DEF WInv, TypeOK, HistoryTypes, PopEnter, prodVars, SlotTypes, ConsumerTypes
      <3> QED BY <3>1, <3>2, <3>3, <3>4 DEF TypeOK
    <2>2. ASSUME NEW s \in Slots PROVE waiters'[s] = Cardinality(Waiting(s)')
      <3>1. CASE s = cslot[c]
        <4>1. Waiting(s)' = Waiting(s) \cup {c} /\ c \notin Waiting(s)
          BY <1>9, <3>1 DEF WInv, TypeOK, ConsumerTypes, PopEnter, Waiting
        <4>2. waiters'[s] = waiters[s] + 1
          BY <1>9, <3>1 DEF WInv, TypeOK, SlotTypes, PopEnter
        <4> QED
          BY <4>1, <4>2, ThreadSetsFinite, CountAdd DEF WInv, WaitersCounted
      <3>2. CASE s # cslot[c]
        <4>1. Waiting(s)' = Waiting(s)
          BY <1>9, <3>2 DEF WInv, TypeOK, ConsumerTypes, PopEnter, Waiting
        <4>2. waiters'[s] = waiters[s]
          BY <1>9, <3>2 DEF WInv, TypeOK, SlotTypes, PopEnter
        <4> QED BY <4>1, <4>2 DEF WInv, WaitersCounted
      <3> QED BY <3>1, <3>2
    <2> QED BY <2>1, <2>2 DEF WInv, WaitersCounted
  <1>10. CASE PopLeave(c)
    <2>0. ASSUME NEW s \in Slots, s = cslot[c]
          PROVE  c \in Waiting(s) /\ waiters[s] \in Nat /\ waiters[s] > 0
      <3>1. c \in Waiting(s)
        BY <1>10, <2>0 DEF PopLeave, Waiting
      <3> QED
        BY <3>1, ThreadSetsFinite, FS_EmptySet DEF WInv, WaitersCounted
    <2>1. TypeOK'
      <3>1. SlotTypes'
        BY <1>10, <2>0
          DEF WInv, TypeOK, SlotTypes, PopLeave, ConsumerTypes, prodVars
      <3>2. ProducerTypes'
        BY <1>10, ProducersKept DEF WInv, TypeOK, PopLeave
      <3>3. ConsumerTypes'
        BY <1>10
          DEF WInv, TypeOK, ConsumerTypes, PopLeave, PopPC, SlotTypes
      <3>4. HistoryTypes'
        BY <1>10
          DEF WInv, TypeOK, HistoryTypes, PopLeave, prodVars, SlotTypes, ConsumerTypes
      <3> QED BY <3>1, <3>2, <3>3, <3>4 DEF TypeOK
    <2>2. ASSUME NEW s \in Slots PROVE waiters'[s] = Cardinality(Waiting(s)')
      <3>1. CASE s = cslot[c]
        <4>1. Waiting(s)' = Waiting(s) \ {c} /\ c \in Waiting(s)
          BY <1>10, <3>1, <2>0 DEF WInv, TypeOK, ConsumerTypes, PopLeave, Waiting
        <4>2. waiters'[s] = waiters[s] - 1
          BY <1>10, <3>1 DEF WInv, TypeOK, SlotTypes, PopLeave
        <4> QED
          BY <4>1, <4>2, ThreadSetsFinite, CountRemove DEF WInv, WaitersCounted
      <3>2. CASE s # cslot[c]
        <4>1. Waiting(s)' = Waiting(s)
          BY <1>10, <3>2 DEF WInv, TypeOK, ConsumerTypes, PopLeave, Waiting
        <4>2. waiters'[s] = waiters[s]
          BY <1>10, <3>2 DEF WInv, TypeOK, SlotTypes, PopLeave
        <4> QED BY <4>1, <4>2 DEF WInv, WaitersCounted
      <3> QED BY <3>1, <3>2
    <2> QED BY <2>1, <2>2 DEF WInv, WaitersCounted
  <1> QED
    BY <1>1, <1>2, <1>3, <1>4, <1>5, <1>6, <1>7, <1>8, <1>9, <1>10 DEF PopStep

LEMMA WInvStutter == WInv /\ UNCHANGED vars => WInv'
  BY DEF vars, slotVars, prodVars, consVars, WInv, TypeOK, SlotTypes,
         ProducerTypes, ConsumerTypes, HistoryTypes, Unfilled, WaitersCounted,
         Waiting

\* TypeOK and WaitersCounted hold in every reachable state: the fields keep their
\* types, and the waiters count that lets wake_if_needed skip the futex call is
\* the number of consumers in the waiting loop of LFCounter::dec.
THEOREM TypeAndWaiters == Spec => [](TypeOK /\ WaitersCounted)
  <1>1. WInv /\ [Next]_vars => WInv'
    BY WInvPush, WInvPop, WInvStutter DEF Next
  <1> QED
    BY WInvInit, <1>1, PTL DEF Spec, WInv
-----------------------------------------------------------------------------
(* The futex protocol.  A sleeper was counted in waiters before it slept, and *)
(* slept only on a counter of 0; whoever raises the counter reads waiters     *)
(* afterwards, so it finds the sleeper counted and wakes it.                  *)

Waker(p, s) == pslot[p] = s /\ ppc[p] \in {"cas", "check", "wake"}

\* A thread asleep now was asleep before, on the same slot, unless it is the one
\* that just found the counter at 0.
LEMMA WakeInvPush ==
  ASSUME WInv, NoLostWakeup, NEW p \in Producers, Push(p)
  PROVE  NoLostWakeup'
  <1> SUFFICES ASSUME NEW d \in Consumers,
                      cpc'[d] = "sleep", val'[cslot'[d]] > 0
               PROVE  \E q \in Producers : Waker(q, cslot[d])'
    BY DEF NoLostWakeup, Waker
  <1>1. cslot' = cslot /\ cpc[d] = "sleep"
    <2>1. CASE PushWake(p)
      BY <2>1 DEF PushWake, WakeAll, slotVars
    <2>2. CASE ~PushWake(p)
      BY <2>2 DEF Push, PushTicket, PushInc, PushAdd, PushStore, PushCheck,
                  PushReturn, consVars
    <2> QED BY <2>1, <2>2
  <1>2. cslot[d] \in Slots
    BY DEF WInv, TypeOK, ConsumerTypes
  <1>3. CASE val[cslot[d]] > 0
    <2>1. PICK q \in Producers : Waker(q, cslot[d])
      BY <1>1, <1>3 DEF NoLostWakeup, Waker
    <2>2. CASE q # p
      <3>1. pslot'[q] = pslot[q] /\ ppc'[q] = ppc[q]
        BY <2>2 DEF WInv, TypeOK, ProducerTypes, Push, PushTicket, PushInc, PushAdd,
                    PushStore, PushCheck, PushWake, PushReturn
      <3> QED BY <2>1, <3>1, <1>1 DEF Waker
    <2>3. CASE q = p
      <3>1. PushStore(p) \/ PushCheck(p) \/ PushWake(p)
        BY <2>1, <2>3 DEF Push, PushTicket, PushInc, PushAdd, PushReturn, Waker
      <3>2. CASE PushStore(p)
        BY <2>1, <2>3, <3>2, <1>1 DEF PushStore, Waker, WInv, TypeOK, ProducerTypes
      <3>3. CASE PushCheck(p)
        <4>1. d \in Waiting(pslot[p])
          BY <2>1, <2>3, <1>1 DEF Waiting, Waker
        <4>2. waiters[pslot[p]] # 0
          BY <4>1, <2>1, <2>3, <1>2, ThreadSetsFinite, FS_EmptySet
            DEF WInv, WaitersCounted, Waker
        <4>3. waiters[pslot[p]] > 0
          BY <4>2, <2>1, <2>3, <1>2 DEF WInv, TypeOK, SlotTypes, Waker
        <4> QED
          BY <4>3, <3>3, <2>1, <2>3, <1>1
            DEF PushCheck, Waker, WInv, TypeOK, ProducerTypes
      <3>4. CASE PushWake(p)
        BY <3>4, <2>1, <2>3, <1>1 DEF PushWake, WakeAll, Waker
      <3> QED BY <3>1, <3>2, <3>3, <3>4
    <2> QED BY <2>2, <2>3
  <1>4. CASE ~(val[cslot[d]] > 0)
    <2>1. (PushInc(p) \/ PushAdd(p)) /\ pslot[p] = cslot[d]
      BY <1>1, <1>2, <1>4 DEF WInv, TypeOK, SlotTypes, ProducerTypes, Push, PushTicket,
                         PushInc, PushAdd, PushStore, PushCheck, PushWake,
                         PushReturn, slotVars
    <2>2. Waker(p, cslot[d])'
      BY <2>1, <1>1, <1>2, <1>4
        DEF Waker, PushInc, PushAdd, WInv, TypeOK, SlotTypes, ProducerTypes
    <2> QED BY <2>2
  <1> QED BY <1>3, <1>4

LEMMA WakeInvPop ==
  ASSUME WInv, NoLostWakeup, NEW c \in Consumers, PopStep(c) \/ PopInterrupted(c)
  PROVE  NoLostWakeup'
  <1> SUFFICES ASSUME NEW d \in Consumers,
                      cpc'[d] = "sleep", val'[cslot'[d]] > 0
               PROVE  \E q \in Producers : Waker(q, cslot[d])'
    BY DEF NoLostWakeup, Waker
  <1>1. pslot' = pslot /\ ppc' = ppc
    BY DEF PopStep, PopTicket, PopDec, PopEnter, PopWait, PopRetry, PopLeave,
           PopCheck, PopWake, PopTake, PopInterrupted, prodVars
  <1>2. CASE PopWait(c) /\ d = c
    BY <1>2 DEF PopWait, slotVars, WInv, TypeOK, ConsumerTypes
  <1>3. CASE ~(PopWait(c) /\ d = c)
    <2>1. cpc[d] = "sleep" /\ cslot'[d] = cslot[d]
      BY <1>3 DEF PopStep, PopTicket, PopDec, PopEnter, PopWait, PopRetry, PopLeave,
                  PopCheck, PopWake, PopTake, PopInterrupted, Decrement, AfterWake,
                  WInv, TypeOK, ConsumerTypes
    <2>2. val[cslot[d]] > 0
      <3>1. CASE PopDec(c)
        BY <3>1, <2>1 DEF PopDec, Decrement, WInv, TypeOK, SlotTypes, ConsumerTypes
      <3>2. CASE PopRetry(c)
        BY <3>2, <2>1 DEF PopRetry, Decrement, WInv, TypeOK, SlotTypes, ConsumerTypes
      <3>3. CASE ~PopDec(c) /\ ~PopRetry(c)
        BY <3>3, <2>1 DEF PopStep, PopTicket, PopEnter, PopWait, PopLeave, PopCheck,
                          PopWake, PopTake, PopInterrupted, slotVars
      <3> QED BY <3>1, <3>2, <3>3
    <2>3. PICK q \in Producers : Waker(q, cslot[d])
      BY <2>1, <2>2 DEF NoLostWakeup, Waker
    <2> QED BY <2>1, <2>3, <1>1 DEF Waker
  <1> QED BY <1>2, <1>3

\* No wake-up is lost: in every reachable state a consumer asleep on a slot that
\* holds a unit is about to be woken by a producer inside LFItem::push.
THEOREM WakeupsKept == Spec => []NoLostWakeup
  <1>1. Init => NoLostWakeup
    BY DEF Init, NoLostWakeup
  <1>2. WInv /\ NoLostWakeup /\ [Next]_vars => NoLostWakeup'
    <2>1. WInv /\ NoLostWakeup /\ UNCHANGED vars => NoLostWakeup'
      BY DEF NoLostWakeup, vars, slotVars, prodVars, consVars
    <2> QED BY <2>1, WakeInvPush, WakeInvPop DEF Next
  <1>3. WInv /\ [Next]_vars => WInv'
    BY WInvPush, WInvPop, WInvStutter DEF Next
  <1> QED
    BY WInvInit, <1>1, <1>2, <1>3, PTL DEF Spec
-----------------------------------------------------------------------------
(* Slot accounting *)

Held(s) == IF data[s] = Null THEN 0 ELSE 1
Claimed(s) == IF val[s] > 0 THEN 1 ELSE 0

\* A slot whose four quantities stay put keeps its balance.
LEMMA AccountKept ==
  ASSUME SlotAccounting, NEW s \in Slots,
         Committing(s)' = Committing(s), Taking(s)' = Taking(s),
         Held(s)' = Held(s), Claimed(s)' = Claimed(s)
  PROVE  Cardinality(Committing(s)') + Held(s)'
           = Cardinality(Taking(s)') + Claimed(s)'
  BY DEF SlotAccounting, Held, Claimed

LEMMA AccountPush ==
  ASSUME WInv, SlotAccounting, NEW p \in Producers, Push(p)
  PROVE  SlotAccounting'
  <1> SUFFICES ASSUME NEW s \in Slots
               PROVE  Cardinality(Committing(s)') + Held(s)'
                        = Cardinality(Taking(s)') + Claimed(s)'
    BY DEF SlotAccounting, Held, Claimed
  <1>1. Taking(s)' = Taking(s)
    <2>1. CASE PushWake(p)
      BY <2>1 DEF PushWake, WakeAll, Taking
    <2>2. CASE ~PushWake(p)
      BY <2>2 DEF Push, PushTicket, PushInc, PushAdd, PushStore, PushCheck,
                  PushReturn, consVars, Taking
    <2> QED BY <2>1, <2>2
  <1>2. CASE /\ (PushInc(p) \/ PushAdd(p)) /\ pslot[p] = s /\ val[s] = 0
    <2>1. Committing(s)' = Committing(s) \cup {p} /\ p \notin Committing(s)
      BY <1>2 DEF PushInc, PushAdd, Committing, WInv, TypeOK, ProducerTypes
    <2>2. Held(s)' = Held(s)
      BY <1>2 DEF PushInc, PushAdd, Held
    <2>3. Claimed(s) = 0 /\ Claimed(s)' = 1
      BY <1>2 DEF PushInc, PushAdd, Claimed, WInv, TypeOK, SlotTypes
    <2>4. Cardinality(Committing(s)') = Cardinality(Committing(s)) + 1
      BY <2>1, CountAdd, ThreadSetsFinite
    <2>5. Cardinality(Committing(s)) + Held(s) = Cardinality(Taking(s)) + Claimed(s)
      BY DEF SlotAccounting, Held, Claimed
    <2> QED
      BY <1>1, <2>2, <2>3, <2>4, <2>5, ThreadSetsFinite DEF Held
  <1>3. CASE PushStore(p) /\ pslot[p] = s
    <2>1. Committing(s)' = Committing(s) \ {p} /\ p \in Committing(s)
      BY <1>3 DEF PushStore, Committing, WInv, TypeOK, ProducerTypes
    <2>2. pitem[p] # Null
      BY <1>3, NullIsNoItem DEF PushStore, WInv, TypeOK, ProducerTypes, Unfilled
    <2>3. Held(s) = 0 /\ Held(s)' = 1
      BY <1>3, <2>2 DEF PushStore, Held, WInv, TypeOK, SlotTypes
    <2>4. Claimed(s)' = Claimed(s)
      BY <1>3 DEF PushStore, Claimed
    <2>5. Cardinality(Committing(s)') = Cardinality(Committing(s)) - 1
      BY <2>1, CountRemove, ThreadSetsFinite
    <2>6. Cardinality(Committing(s)) + Held(s) = Cardinality(Taking(s)) + Claimed(s)
      BY DEF SlotAccounting, Held, Claimed
    <2> QED
      BY <1>1, <2>3, <2>4, <2>5, <2>6, ThreadSetsFinite DEF Claimed
  <1>4. CASE /\ ~((PushInc(p) \/ PushAdd(p)) /\ pslot[p] = s /\ val[s] = 0)
             /\ ~(PushStore(p) /\ pslot[p] = s)
    <2>1. Committing(s)' = Committing(s)
      BY <1>4 DEF Push, PushTicket, PushInc, PushAdd, PushStore, PushCheck, PushWake,
                  PushReturn, Committing, WInv, TypeOK, SlotTypes, ProducerTypes
    <2>2. Held(s)' = Held(s)
      BY <1>4 DEF Push, PushTicket, PushInc, PushAdd, PushStore, PushCheck, PushWake,
                  PushReturn, Held, slotVars, WInv, TypeOK, SlotTypes
    <2>3. Claimed(s)' = Claimed(s)
      BY <1>4 DEF Push, PushTicket, PushInc, PushAdd, PushStore, PushCheck, PushWake,
                  PushReturn, Claimed, slotVars, WInv, TypeOK, SlotTypes
    <2> QED BY <1>1, <2>1, <2>2, <2>3, AccountKept
  <1> QED BY <1>2, <1>3, <1>4

LEMMA AccountPop ==
  ASSUME WInv, SlotAccounting, NEW c \in Consumers, PopStep(c) \/ PopInterrupted(c)
  PROVE  SlotAccounting'
  <1> SUFFICES ASSUME NEW s \in Slots
               PROVE  Cardinality(Committing(s)') + Held(s)'
                        = Cardinality(Taking(s)') + Claimed(s)'
    BY DEF SlotAccounting, Held, Claimed
  <1>1. Committing(s)' = Committing(s)
    BY DEF PopStep, PopTicket, PopDec, PopEnter, PopWait, PopRetry, PopLeave,
           PopCheck, PopWake, PopTake, PopInterrupted, prodVars, Committing
  <1>2. CASE (PopDec(c) \/ PopRetry(c)) /\ cslot[c] = s /\ val[s] = 1
    <2>1. Taking(s)' = Taking(s) \cup {c} /\ c \notin Taking(s)
      BY <1>2 DEF PopDec, PopRetry, Decrement, Taking, WInv, TypeOK, ConsumerTypes
    <2>2. Held(s)' = Held(s)
      BY <1>2 DEF PopDec, PopRetry, Held
    <2>3. Claimed(s) = 1 /\ Claimed(s)' = 0
      BY <1>2 DEF PopDec, PopRetry, Decrement, Claimed, WInv, TypeOK, SlotTypes
    <2>4. Cardinality(Taking(s)') = Cardinality(Taking(s)) + 1
      BY <2>1, CountAdd, ThreadSetsFinite
    <2>5. Cardinality(Committing(s)) + Held(s) = Cardinality(Taking(s)) + Claimed(s)
      BY DEF SlotAccounting, Held, Claimed
    <2> QED
      BY <1>1, <2>2, <2>3, <2>4, <2>5, ThreadSetsFinite DEF Held
  <1>3. CASE PopTake(c) /\ cslot[c] = s
    <2>1. Taking(s)' = Taking(s) \ {c} /\ c \in Taking(s)
      BY <1>3 DEF PopTake, Taking, WInv, TypeOK, ConsumerTypes
    <2>2. Held(s) = 1 /\ Held(s)' = 0
      BY <1>3 DEF PopTake, Held, WInv, TypeOK, SlotTypes
    <2>3. Claimed(s)' = Claimed(s)
      BY <1>3 DEF PopTake, Claimed
    <2>4. Cardinality(Taking(s)') = Cardinality(Taking(s)) - 1
      BY <2>1, CountRemove, ThreadSetsFinite
    <2>5. Cardinality(Committing(s)) + Held(s) = Cardinality(Taking(s)) + Claimed(s)
      BY DEF SlotAccounting, Held, Claimed
    <2> QED
      BY <1>1, <2>2, <2>3, <2>4, <2>5, ThreadSetsFinite DEF Claimed
  <1>4. CASE /\ ~((PopDec(c) \/ PopRetry(c)) /\ cslot[c] = s /\ val[s] = 1)
             /\ ~(PopTake(c) /\ cslot[c] = s)
    <2>1. Taking(s)' = Taking(s)
      BY <1>4 DEF PopStep, PopTicket, PopDec, PopEnter, PopWait, PopRetry, PopLeave,
                  PopCheck, PopWake, PopTake, PopInterrupted, Decrement, AfterWake,
                  Taking, WInv, TypeOK, SlotTypes, ConsumerTypes
    <2>2. Held(s)' = Held(s)
      BY <1>4 DEF PopStep, PopTicket, PopDec, PopEnter, PopWait, PopRetry, PopLeave,
                  PopCheck, PopWake, PopTake, PopInterrupted, slotVars,
                  Held, WInv, TypeOK, SlotTypes
    <2>3. Claimed(s)' = Claimed(s)
      BY <1>4 DEF PopStep, PopTicket, PopDec, PopEnter, PopWait, PopRetry, PopLeave,
                  PopCheck, PopWake, PopTake, PopInterrupted, Decrement, slotVars,
                  Claimed, WInv, TypeOK, SlotTypes
    <2> QED BY <1>1, <2>1, <2>2, <2>3, AccountKept
  <1> QED BY <1>2, <1>3, <1>4

LEMMA AccountInit == Init => SlotAccounting
  <1> SUFFICES ASSUME Init, NEW s \in Slots
               PROVE  Cardinality(Committing(s)) + Held(s)
                        = Cardinality(Taking(s)) + Claimed(s)
    BY DEF SlotAccounting, Held, Claimed
  <1>1. Committing(s) = {} /\ Taking(s) = {}
    BY DEF Init, Committing, Taking
  <1>2. Held(s) = 0 /\ Claimed(s) = 0
    BY DEF Init, Held, Claimed
  <1> QED BY <1>1, <1>2, FS_EmptySet

\* The balance of a slot: the counter claims a pointer exactly when one is in the
\* slot or on its way there and no consumer has been promised it.
THEOREM CountersMatchPointers == Spec => []SlotAccounting
  <1>1. WInv /\ SlotAccounting /\ [Next]_vars => SlotAccounting'
    <2>1. WInv /\ SlotAccounting /\ UNCHANGED vars => SlotAccounting'
      BY DEF SlotAccounting, Committing, Taking, vars, slotVars, prodVars, consVars
    <2> QED BY <2>1, AccountPush, AccountPop DEF Next
  <1>2. WInv /\ [Next]_vars => WInv'
    BY WInvPush, WInvPop, WInvStutter DEF Next
  <1> QED
    BY WInvInit, AccountInit, <1>1, <1>2, PTL DEF Spec

\* A consequence of the balance: a consumer that spins on a null pointer has a
\* producer about to store, a producer that spins on a pointer has a consumer
\* about to take it.
THEOREM SpinsEnd == Spec => []SpinsAreServed
  <1>1. SlotAccounting => SpinsAreServed
    <2> SUFFICES ASSUME SlotAccounting, NEW s \in Slots
                 PROVE  /\ Taking(s) # {} /\ data[s] = Null => Committing(s) # {}
                        /\ Committing(s) # {} /\ data[s] # Null => Taking(s) # {}
      BY DEF SpinsAreServed
    <2>1. Cardinality(Committing(s)) + Held(s) = Cardinality(Taking(s)) + Claimed(s)
      BY DEF SlotAccounting, Held, Claimed
    <2>2. /\ Committing(s) = {} <=> Cardinality(Committing(s)) = 0
          /\ Taking(s) = {} <=> Cardinality(Taking(s)) = 0
      BY ThreadSetsFinite, FS_EmptySet
    <2>3. Cardinality(Committing(s)) \in Nat /\ Cardinality(Taking(s)) \in Nat
      BY ThreadSetsFinite
    <2> QED BY <2>1, <2>2, <2>3 DEF Held, Claimed
  <1> QED BY <1>1, CountersMatchPointers, PTL

-----------------------------------------------------------------------------
(* The surplus of the counters.  The induction theorems of the library take *)
(* an operator as a parameter; here induction is a closure property of a    *)
(* set (NatSet), from WFMin.                                                *)

Below == {r \in Nat \X Nat : r[1] < r[2]}

\* The order of the naturals is well-founded, as WFMin needs it.
LEMMA BelowWF == IsWellFoundedOn(Below, Nat)
  <1>1. OpToRel(<, Nat) = Below
    BY DEF OpToRel, Below
  <1> QED BY <1>1, NatLessThanWellFounded

\* A set that holds 0 and with every number the next holds all of them.
LEMMA NatSet ==
  ASSUME NEW S, 0 \in S, \A n \in Nat : n \in S => n + 1 \in S
  PROVE  Nat \subseteq S
  <1> DEFINE T == Nat \ S
  <1>1. SUFFICES ASSUME T # {} PROVE FALSE
    OBVIOUS
  <1>2. PICK x \in T : \A y \in T : ~(<<y, x>> \in Below)
    <2> HIDE DEF T
    <2>1. T \subseteq Nat BY DEF T
    <2> QED BY <1>1, <2>1, BelowWF, WFMin
  <1>3. x \in Nat /\ x # 0
    OBVIOUS
  <1>4. x - 1 \in Nat /\ x - 1 < x /\ (x - 1) + 1 = x
    BY <1>3
  <1>5. x - 1 \in S
    <2>1. <<x - 1, x>> \in Below BY <1>3, <1>4 DEF Below
    <2> QED BY <1>2, <1>4, <2>1
  <1> QED BY <1>3, <1>4, <1>5

\* The units of slot s beyond the first, and their sum over the slots up to each.
Extra(v, s) == IF v[s] > 1 THEN v[s] - 1 ELSE 0
Sums(v, f) == f = [s \in Nat |-> Extra(v, s) + (IF s = 0 THEN 0 ELSE f[s - 1])]
SumsTo(v, n, f) == f = [s \in 0..n |-> Extra(v, s) + (IF s = 0 THEN 0 ELSE f[s - 1])]

\* There are sums up to every slot ...
LEMMA SumsToExists ==
  ASSUME NEW v
  PROVE  \A n \in Nat : \E f : SumsTo(v, n, f)
  <1> DEFINE S == {n \in Nat : \E f : SumsTo(v, n, f)}
  <1>1. 0 \in S
    <2> DEFINE f == [s \in 0..0 |-> Extra(v, s) + 0]
    <2>1. SumsTo(v, 0, f)
      BY DEF SumsTo
    <2> QED BY <2>1
  <1>2. ASSUME NEW n \in Nat, n \in S PROVE n + 1 \in S
    <2>1. PICK f : SumsTo(v, n, f)
      BY <1>2
    <2>2. \A s \in 0..n : f[s] = Extra(v, s) + (IF s = 0 THEN 0 ELSE f[s - 1])
      BY <2>1 DEF SumsTo
    <2> DEFINE g == [s \in 0..(n + 1) |-> IF s = n + 1 THEN Extra(v, s) + f[n] ELSE f[s]]
    <2>3. SumsTo(v, n + 1, g)
      <3>1. ASSUME NEW s \in 0..(n + 1)
            PROVE  g[s] = Extra(v, s) + (IF s = 0 THEN 0 ELSE g[s - 1])
        <4>1. CASE s = n + 1
          <5>1. g[s] = Extra(v, s) + f[n] /\ s # 0 /\ s - 1 = n
            BY <4>1
          <5>2. g[n] = f[n]
            OBVIOUS
          <5> QED BY <5>1, <5>2
        <4>2. CASE s # n + 1 /\ s # 0
          <5>1. s \in 0..n /\ s - 1 \in 0..n
            BY <4>2
          <5>2. g[s] = f[s] /\ g[s - 1] = f[s - 1]
            BY <5>1
          <5> QED BY <2>2, <4>2, <5>1, <5>2
        <4>3. CASE s # n + 1 /\ s = 0
          <5>1. g[s] = f[s] /\ s \in 0..n
            BY <4>3
          <5> QED BY <2>2, <4>3, <5>1
        <4> QED BY <4>1, <4>2, <4>3
      <3>2. g = [s \in 0..(n + 1) |-> g[s]]
        OBVIOUS
      <3> HIDE DEF g
      <3>3. g = [s \in 0..(n + 1) |-> Extra(v, s) + (IF s = 0 THEN 0 ELSE g[s - 1])]
        BY <3>1, <3>2
      <3> QED BY <3>3 DEF SumsTo
    <2> QED BY <2>3
  <1>3. Nat \subseteq S
    <2> HIDE DEF S
    <2> QED BY <1>1, <1>2, NatSet
  <1> QED BY <1>3

\* ... and two of them agree where both go.
LEMMA SumsToAgree ==
  ASSUME NEW v
  PROVE  \A i, m, n \in Nat : \A f, g :
           SumsTo(v, m, f) /\ SumsTo(v, n, g) /\ i <= m /\ i <= n => f[i] = g[i]
  <1> DEFINE S == {i \in Nat : \A m, n \in Nat : \A f, g :
                     SumsTo(v, m, f) /\ SumsTo(v, n, g) /\ i <= m /\ i <= n => f[i] = g[i]}
  <1>1. 0 \in S
    <2> SUFFICES ASSUME NEW m \in Nat, NEW n \in Nat, NEW f, NEW g,
                        SumsTo(v, m, f), SumsTo(v, n, g)
                 PROVE  f[0] = g[0]
      OBVIOUS
    <2>1. f[0] = Extra(v, 0) + 0 /\ g[0] = Extra(v, 0) + 0
      BY DEF SumsTo
    <2> QED BY <2>1
  <1>2. ASSUME NEW i \in Nat, i \in S PROVE i + 1 \in S
    <2> SUFFICES ASSUME NEW m \in Nat, NEW n \in Nat, NEW f, NEW g,
                        SumsTo(v, m, f), SumsTo(v, n, g), i + 1 <= m, i + 1 <= n
                 PROVE  f[i + 1] = g[i + 1]
      OBVIOUS
    <2>1. f[i] = g[i]
      BY <1>2
    <2>2. i + 1 \in 0..m /\ i + 1 \in 0..n /\ i + 1 # 0 /\ (i + 1) - 1 = i
      OBVIOUS
    <2>3. f[i + 1] = Extra(v, i + 1) + f[i] /\ g[i + 1] = Extra(v, i + 1) + g[i]
      BY <2>2 DEF SumsTo
    <2> QED BY <2>1, <2>3
  <1>3. Nat \subseteq S
    <2> HIDE DEF S
    <2> QED BY <1>1, <1>2, NatSet
  <1> QED BY <1>3

\* So there are sums for all slots.
LEMMA SumsExist ==
  ASSUME NEW v
  PROVE  \E f : Sums(v, f)
  <1> DEFINE to(n) == CHOOSE f : SumsTo(v, n, f)
             f == [n \in Nat |-> to(n)[n]]
  <1>1. \A n \in Nat : SumsTo(v, n, to(n))
    BY SumsToExists
  <1>2. ASSUME NEW n \in Nat
        PROVE  f[n] = Extra(v, n) + (IF n = 0 THEN 0 ELSE f[n - 1])
    <2>1. to(n)[n] = Extra(v, n) + (IF n = 0 THEN 0 ELSE to(n)[n - 1])
      <3>1. SumsTo(v, n, to(n)) /\ n \in 0..n
        BY <1>1
      <3> HIDE DEF to
      <3> QED BY <3>1 DEF SumsTo
    <2>2. CASE n = 0
      BY <2>1, <2>2
    <2>3. CASE n # 0
      <3>1. n - 1 \in Nat /\ n - 1 <= n /\ n - 1 <= n - 1
        BY <2>3
      <3>2. to(n)[n - 1] = to(n - 1)[n - 1]
        <4>1. SumsTo(v, n, to(n)) /\ SumsTo(v, n - 1, to(n - 1))
          BY <1>1, <3>1
        <4> HIDE DEF to
        <4> QED BY <3>1, <4>1, SumsToAgree
      <3> HIDE DEF to
      <3> QED BY <2>1, <2>3, <3>1, <3>2
    <2> QED BY <2>2, <2>3
  <1>3. f = [n \in Nat |-> f[n]]
    OBVIOUS
  <1> HIDE DEF f
  <1>4. f = [n \in Nat |-> Extra(v, n) + (IF n = 0 THEN 0 ELSE f[n - 1])]
    BY <1>2, <1>3
  <1> QED BY <1>4 DEF Sums

LEMMA SurplusIs == Sums(val, Surplus)
  <1> DEFINE R(f) == f = [s \in Nat |-> (IF val[s] > 1 THEN val[s] - 1 ELSE 0)
                                          + (IF s = 0 THEN 0 ELSE f[s - 1])]
  <1>1. \E f : R(f)
    BY SumsExist DEF Sums, Extra
  <1>2. Surplus = CHOOSE f : R(f)
    BY DEF Surplus
  <1>3. R(Surplus)
    <2> HIDE DEF R
    <2> QED BY <1>1, <1>2
  <1> QED BY <1>3 DEF Sums, Extra

\* A sum changes by what one slot's surplus changes.
LEMMA SumsChange ==
  ASSUME NEW v, NEW w, NEW f, NEW g, Sums(v, f), Sums(w, g), NEW c \in Slots,
         \A s \in Slots : Extra(v, s) \in Nat,
         \A s \in Slots \ {c} : Extra(w, s) = Extra(v, s), Extra(w, c) \in Nat
  PROVE  /\ f[Size - 1] \in Nat /\ g[Size - 1] \in Nat
         /\ g[Size - 1] = f[Size - 1] + Extra(w, c) - Extra(v, c)
  <1> DEFINE S == {n \in Nat : n < Size =>
                     /\ f[n] \in Nat /\ g[n] \in Nat
                     /\ g[n] = f[n] + (IF n < c THEN 0 ELSE Extra(w, c) - Extra(v, c))}
  <1>0. c \in Nat /\ Size \in Nat /\ c < Size
    BY SizePositive DEF Slots
  <1>1. 0 \in S
    <2>1. f[0] = Extra(v, 0) + 0 /\ g[0] = Extra(w, 0) + 0
      BY DEF Sums
    <2>2. 0 \in Slots
      BY SizePositive DEF Slots
    <2>3. CASE c = 0
      BY <2>1, <2>2, <2>3
    <2>4. CASE c # 0
      <3>1. 0 < c /\ Extra(w, 0) = Extra(v, 0) /\ Extra(v, 0) \in Nat
        BY <1>0, <2>2, <2>4
      <3> QED BY <2>1, <3>1
    <2> QED BY <2>3, <2>4
  <1>2. ASSUME NEW n \in Nat, n \in S PROVE n + 1 \in S
    <2> SUFFICES ASSUME n + 1 < Size
                 PROVE  /\ f[n + 1] \in Nat /\ g[n + 1] \in Nat
                        /\ g[n + 1] = f[n + 1] + (IF n + 1 < c THEN 0
                                                  ELSE Extra(w, c) - Extra(v, c))
      OBVIOUS
    <2>1. n < Size /\ n + 1 \in Nat /\ n + 1 # 0 /\ (n + 1) - 1 = n
      BY <1>0
    <2>2. f[n + 1] = Extra(v, n + 1) + f[n] /\ g[n + 1] = Extra(w, n + 1) + g[n]
      BY <2>1 DEF Sums
    <2>3. n + 1 \in Slots
      BY <1>0, <2>1 DEF Slots
    <2>4. /\ f[n] \in Nat /\ g[n] \in Nat
          /\ g[n] = f[n] + (IF n < c THEN 0 ELSE Extra(w, c) - Extra(v, c))
      BY <1>2, <2>1
    <2> HIDE DEF S
    <2>5. CASE n + 1 = c
      <3>1. Extra(v, n + 1) = Extra(v, c) /\ Extra(w, n + 1) = Extra(w, c) /\ n < c
        BY <2>1, <2>5
      <3>2. Extra(v, c) \in Nat /\ Extra(w, c) \in Nat
        OBVIOUS
      <3> DEFINE a == Extra(v, c)
                 b == Extra(w, c)
      <3>3. f[n + 1] = a + f[n] /\ g[n + 1] = b + g[n] /\ a \in Nat /\ b \in Nat
        BY <2>2, <3>1, <3>2
      <3>4. g[n] = f[n]
        BY <2>4, <3>1
      <3> HIDE DEF a, b
      <3>5. f[n + 1] \in Nat /\ g[n + 1] \in Nat /\ g[n + 1] = f[n + 1] + (b - a)
        BY <2>4, <3>3, <3>4
      <3> QED BY <1>0, <2>5, <3>5 DEF a, b
    <2>6. CASE n + 1 # c
      <3>1. Extra(w, n + 1) = Extra(v, n + 1) /\ Extra(v, n + 1) \in Nat
        BY <2>3, <2>6
      <3>2. n < c <=> n + 1 < c
        BY <1>0, <2>6
      <3>3. Extra(v, c) \in Nat /\ Extra(w, c) \in Nat
        OBVIOUS
      <3> DEFINE a == Extra(v, c)
                 b == Extra(w, c)
                 e == Extra(v, n + 1)
      <3>4. f[n + 1] = e + f[n] /\ g[n + 1] = e + g[n] /\ e \in Nat /\ a \in Nat /\ b \in Nat
        BY <2>2, <3>1, <3>3
      <3>5. g[n] = f[n] + (IF n + 1 < c THEN 0 ELSE b - a)
        BY <2>4, <3>2
      <3> HIDE DEF a, b, e
      <3>6. /\ f[n + 1] \in Nat /\ g[n + 1] \in Nat
            /\ g[n + 1] = f[n + 1] + (IF n + 1 < c THEN 0 ELSE b - a)
        BY <2>4, <3>4, <3>5
      <3> QED BY <3>6 DEF a, b
    <2> QED BY <2>5, <2>6
  <1>3. Nat \subseteq S
    <2> HIDE DEF S
    <2> QED BY <1>1, <1>2, NatSet
  <1>4. Size - 1 \in Nat /\ Size - 1 < Size /\ ~(Size - 1 < c)
    BY <1>0
  <1>5. /\ f[Size - 1] \in Nat /\ g[Size - 1] \in Nat
        /\ g[Size - 1] = f[Size - 1] + (Extra(w, c) - Extra(v, c))
    BY <1>3, <1>4
  <1>6. Extra(v, c) \in Nat /\ Extra(w, c) \in Nat
    OBVIOUS
  <1> HIDE DEF S
  <1> DEFINE a == Extra(v, c)
             b == Extra(w, c)
             k == f[Size - 1]
             l == g[Size - 1]
  <1>7. k \in Nat /\ l \in Nat /\ l = k + (b - a) /\ a \in Nat /\ b \in Nat
    BY <1>5, <1>6
  <1> HIDE DEF a, b, k, l
  <1>8. l = k + b - a
    BY <1>7
  <1> QED BY <1>7, <1>8 DEF a, b, k, l

\* No surplus, no sum.
LEMMA SumsZero ==
  ASSUME NEW v, NEW f, Sums(v, f), \A s \in Slots : Extra(v, s) = 0
  PROVE  f[Size - 1] = 0
  <1> DEFINE S == {n \in Nat : n < Size => f[n] = 0}
  <1>0. Size \in Nat \ {0}
    BY SizePositive
  <1>1. 0 \in S
    <2>1. f[0] = Extra(v, 0) + 0 /\ 0 \in Slots
      BY <1>0 DEF Sums, Slots
    <2> QED BY <2>1
  <1>2. ASSUME NEW n \in Nat, n \in S PROVE n + 1 \in S
    <2> SUFFICES ASSUME n + 1 < Size PROVE f[n + 1] = 0
      OBVIOUS
    <2>1. n < Size /\ n + 1 # 0 /\ (n + 1) - 1 = n /\ n + 1 \in Slots
      BY <1>0 DEF Slots
    <2>2. f[n + 1] = Extra(v, n + 1) + f[n]
      BY <2>1 DEF Sums
    <2> QED BY <1>2, <2>1, <2>2
  <1>3. Nat \subseteq S
    <2> HIDE DEF S
    <2> QED BY <1>1, <1>2, NatSet
  <1>4. Size - 1 \in Nat /\ Size - 1 < Size
    BY <1>0
  <1> QED BY <1>3, <1>4

-----------------------------------------------------------------------------
(* Where each item is *)

Place(v) == {i \in DOMAIN order : order[i] = v}
Gone(v) == IF v \in dropped THEN 1 ELSE 0
Balanced(v) ==
  Cardinality(InHand(v)) + Cardinality(InRing(v)) + Cardinality(Popped(v)) + Gone(v)
    = Cardinality(Place(v))
AllBalanced == \A v \in Items : Balanced(v)

\* No item has two tickets.
OneTicket == \A i, j \in DOMAIN order : order[i] = order[j] => i = j

\* Every overflow is paid back by a pop that returns null, or will be.
Repaid == IsFiniteSet(dropped) /\ Cardinality(dropped) = nulls + Surplus[Size - 1]

OnceInv == OneTicket /\ AllBalanced /\ Repaid

\* All the places are finitely many.
LEMMA PlacesFinite ==
  ASSUME TypeOK, NEW v
  PROVE  /\ IsFiniteSet(InHand(v)) /\ Cardinality(InHand(v)) \in Nat
         /\ IsFiniteSet(InRing(v)) /\ Cardinality(InRing(v)) \in Nat
         /\ IsFiniteSet(Popped(v)) /\ Cardinality(Popped(v)) \in Nat
         /\ IsFiniteSet(Place(v)) /\ Cardinality(Place(v)) \in Nat
  <1>1. InHand(v) \subseteq Producers /\ InRing(v) \subseteq 0..(Size - 1)
    BY DEF InHand, InRing, Slots
  <1>2. /\ Popped(v) \subseteq 1..Len(delivered) /\ Len(delivered) \in Nat
        /\ Place(v) \subseteq 1..Len(order) /\ Len(order) \in Nat
    BY DEF Popped, Place, TypeOK, HistoryTypes
  <1>3. IsFiniteSet(0..(Size - 1)) /\ IsFiniteSet(1..Len(delivered)) /\ IsFiniteSet(1..Len(order))
    <2>1. Size - 1 \in Int
      BY SizePositive
    <2> QED BY <1>2, <2>1, FS_Interval
  <1> QED BY <1>1, <1>2, <1>3, ThreadsFinite, FS_Subset, FS_CardinalityType

\* An item that was pushed is in one place, one that was not in none.
LEMMA OnePlace ==
  ASSUME TypeOK, OneTicket, NEW v
  PROVE  /\ Cardinality(Place(v)) \in {0, 1}
         /\ Cardinality(Place(v)) = 0 <=> \A i \in DOMAIN order : order[i] # v
  <1>1. CASE \A i \in DOMAIN order : order[i] # v
    <2>1. Place(v) = {}
      BY <1>1 DEF Place
    <2> QED BY <1>1, <2>1, FS_EmptySet
  <1>2. CASE ~(\A i \in DOMAIN order : order[i] # v)
    <2>1. PICK i \in DOMAIN order : order[i] = v
      BY <1>2
    <2>2. Place(v) = {i}
      BY <2>1 DEF Place, OneTicket
    <2> QED BY <1>2, <2>2, FS_Singleton
  <1> QED BY <1>1, <1>2

\* An item that nothing moves stays in balance.
LEMMA StaysPut ==
  ASSUME NEW v, Balanced(v), InHand(v)' = InHand(v), InRing(v)' = InRing(v),
         Popped(v)' = Popped(v), Gone(v)' = Gone(v), Place(v)' = Place(v)
  PROVE  Balanced(v)'
  BY DEF Balanced

\* A ticket puts its item in the producer's hand.
LEMMA TicketBalanced ==
  ASSUME TypeOK, NEW p \in Producers, NEW v \in Items, PushTicket(p, v),
         OneTicket, AllBalanced
  PROVE  OneTicket' /\ AllBalanced'
  <1> DEFINE n == Len(order) + 1
  <1>0. order \in Seq(Items) /\ n \in Nat /\ DOMAIN order = 1..Len(order) /\ Len(order) \in Nat
    BY DEF TypeOK, HistoryTypes
  <1>1. /\ \A i \in DOMAIN order : order[i] # v
        /\ order' = Append(order, v)
        /\ ppc[p] = "idle" /\ ppc' = [ppc EXCEPT ![p] = "inc"]
        /\ pitem' = [pitem EXCEPT ![p] = v]
        /\ data' = data /\ delivered' = delivered /\ dropped' = dropped
    BY DEF PushTicket, slotVars, consVars
  <1>2. /\ DOMAIN order' = DOMAIN order \cup {n} /\ n \notin DOMAIN order
        /\ order'[n] = v /\ \A i \in DOMAIN order : order'[i] = order[i]
    <2>1. Len(order') = n /\ DOMAIN order' = 1..n
      BY <1>0, <1>1, AppendProperties
    <2>2. order'[n] = v /\ \A i \in 1..Len(order) : order'[i] = order[i]
      BY <1>0, <1>1, AppendProperties
    <2> QED BY <1>0, <2>1, <2>2
  <1> HIDE DEF n
  <1>3. OneTicket'
    BY <1>1, <1>2 DEF OneTicket
  <1>4. ASSUME NEW u \in Items PROVE Balanced(u)'
    <2>1. InRing(u)' = InRing(u) /\ Popped(u)' = Popped(u) /\ Gone(u)' = Gone(u)
      BY <1>1 DEF InRing, Popped, Gone
    <2>2. CASE u # v
      <3>1. InHand(u)' = InHand(u)
        BY <1>1, <2>2 DEF InHand, Unfilled, TypeOK, ProducerTypes
      <3>2. Place(u)' = Place(u)
        BY <1>2, <2>2 DEF Place
      <3> QED BY <2>1, <3>1, <3>2, StaysPut DEF AllBalanced
    <2>3. CASE u = v
      <3>1. InHand(u)' = InHand(u) \cup {p} /\ p \notin InHand(u)
        BY <1>1, <2>3 DEF InHand, Unfilled, TypeOK, ProducerTypes
      <3>2. Place(u)' = Place(u) \cup {n} /\ n \notin Place(u)
        BY <1>1, <1>2, <2>3 DEF Place
      <3>3. Cardinality(InHand(u)') = Cardinality(InHand(u)) + 1
        BY <3>1, PlacesFinite, CountAdd
      <3>4. Cardinality(Place(u)') = Cardinality(Place(u)) + 1
        BY <3>2, PlacesFinite, CountAdd
      <3>5. Balanced(u)
        BY DEF AllBalanced
      <3> HIDE DEF Gone
      <3>6. /\ Cardinality(InHand(u)) \in Nat /\ Cardinality(InRing(u)) \in Nat
            /\ Cardinality(Popped(u)) \in Nat /\ Cardinality(Place(u)) \in Nat /\ Gone(u) \in Nat
        BY PlacesFinite DEF Gone
      <3> QED BY <2>1, <3>3, <3>4, <3>5, <3>6 DEF Balanced
    <2> QED BY <2>2, <2>3
  <1> QED BY <1>3, <1>4 DEF AllBalanced

\* A store moves its item from the producer's hand to the slot.
LEMMA StoreBalanced ==
  ASSUME TypeOK, NEW p \in Producers, PushStore(p), AllBalanced
  PROVE  AllBalanced'
  <1> DEFINE s == pslot[p]
  <1>1. /\ ppc[p] = "cas" /\ data[s] = Null /\ data' = [data EXCEPT ![s] = pitem[p]]
        /\ ppc' = [ppc EXCEPT ![p] = "check"]
        /\ pitem' = pitem /\ order' = order /\ delivered' = delivered /\ dropped' = dropped
    BY DEF PushStore, consVars
  <1>2. s \in Slots /\ pitem[p] \in Items
    BY <1>1 DEF TypeOK, ProducerTypes, Unfilled
  <1> SUFFICES ASSUME NEW u \in Items PROVE Balanced(u)'
    BY DEF AllBalanced
  <1>3. Popped(u)' = Popped(u) /\ Gone(u)' = Gone(u) /\ Place(u)' = Place(u)
    BY <1>1 DEF Popped, Gone, Place
  <1> HIDE DEF s
  <1>4. CASE u # pitem[p]
    <2>1. InHand(u)' = InHand(u)
      BY <1>1, <1>4 DEF InHand, Unfilled, TypeOK, ProducerTypes
    <2>2. InRing(u)' = InRing(u)
      BY <1>1, <1>2, <1>4, NullIsNoItem DEF InRing, TypeOK, SlotTypes
    <2> QED BY <1>3, <2>1, <2>2, StaysPut DEF AllBalanced
  <1>5. CASE u = pitem[p]
    <2>1. InHand(u)' = InHand(u) \ {p} /\ p \in InHand(u)
      BY <1>1, <1>5 DEF InHand, Unfilled, TypeOK, ProducerTypes
    <2>2. InRing(u)' = InRing(u) \cup {s} /\ s \notin InRing(u)
      BY <1>1, <1>2, <1>5, NullIsNoItem DEF InRing, TypeOK, SlotTypes
    <2>3. Cardinality(InHand(u)') = Cardinality(InHand(u)) - 1
      BY <2>1, PlacesFinite, CountRemove
    <2>4. Cardinality(InRing(u)') = Cardinality(InRing(u)) + 1
      BY <2>2, PlacesFinite, CountAdd
    <2>5. Balanced(u)
      BY DEF AllBalanced
    <2>6. /\ Cardinality(InHand(u)) \in Nat /\ Cardinality(InRing(u)) \in Nat
          /\ Cardinality(Popped(u)) \in Nat /\ Cardinality(Place(u)) \in Nat /\ Gone(u) \in Nat
      BY PlacesFinite DEF Gone
    <2> QED BY <1>3, <2>3, <2>4, <2>5, <2>6 DEF Balanced
  <1> QED BY <1>4, <1>5

\* A lost push moves its item from the producer's hand to those dropped.
LEMMA DropBalanced ==
  ASSUME TypeOK, NEW p \in Producers, PushAdd(p), val[pslot[p]] > 0, OneTicket, AllBalanced
  PROVE  AllBalanced' /\ pitem[p] \notin dropped
  <1>1. /\ ppc[p] = "add" /\ ppc' = [ppc EXCEPT ![p] = "check"]
        /\ dropped' = dropped \cup {pitem[p]}
        /\ pitem' = pitem /\ order' = order /\ delivered' = delivered /\ data' = data
    BY DEF PushAdd, consVars, TypeOK, SlotTypes
  <1>2. pitem[p] \in Items
    BY <1>1 DEF TypeOK, ProducerTypes, Unfilled
  <1>3. /\ InHand(pitem[p])' = InHand(pitem[p]) \ {p} /\ p \in InHand(pitem[p])
    BY <1>1 DEF InHand, Unfilled, TypeOK, ProducerTypes
  <1>4. Gone(pitem[p]) = 0
    <2> DEFINE u == pitem[p]
    <2>1. Cardinality(InHand(u)) # 0
      BY <1>3, PlacesFinite, FS_EmptySet
    <2>2. Cardinality(Place(u)) \in {0, 1}
      BY OnePlace
    <2>3. Balanced(u)
      BY <1>2 DEF AllBalanced
    <2>6. /\ Cardinality(InHand(u)) \in Nat /\ Cardinality(InRing(u)) \in Nat
          /\ Cardinality(Popped(u)) \in Nat /\ Cardinality(Place(u)) \in Nat /\ Gone(u) \in Nat
      BY PlacesFinite DEF Gone
    <2> HIDE DEF u
    <2>4. Gone(u) = 0
      BY <2>1, <2>2, <2>3, <2>6 DEF Balanced
    <2> QED BY <2>4 DEF u
  <1>5. ASSUME NEW u \in Items PROVE Balanced(u)'
    <2>1. InRing(u)' = InRing(u) /\ Popped(u)' = Popped(u) /\ Place(u)' = Place(u)
      BY <1>1 DEF InRing, Popped, Place
    <2>2. CASE u # pitem[p]
      <3>1. InHand(u)' = InHand(u)
        BY <1>1, <2>2 DEF InHand, Unfilled, TypeOK, ProducerTypes
      <3>2. Gone(u)' = Gone(u)
        BY <1>1, <2>2 DEF Gone
      <3> QED BY <2>1, <3>1, <3>2, StaysPut DEF AllBalanced
    <2>3. CASE u = pitem[p]
      <3>1. Cardinality(InHand(u)') = Cardinality(InHand(u)) - 1
        BY <1>1, <1>3, <2>3, PlacesFinite, CountRemove
      <3>2. Gone(u) = 0 /\ Gone(u)' = 1
        BY <1>1, <1>4, <2>3 DEF Gone
      <3>3. Balanced(u)
        BY DEF AllBalanced
      <3>4. /\ Cardinality(InHand(u)) \in Nat /\ Cardinality(InRing(u)) \in Nat
            /\ Cardinality(Popped(u)) \in Nat /\ Cardinality(Place(u)) \in Nat
        BY PlacesFinite
      <3> QED BY <2>1, <3>1, <3>2, <3>3, <3>4 DEF Balanced
    <2> QED BY <2>2, <2>3
  <1> QED BY <1>4, <1>5 DEF AllBalanced, Gone

\* A take moves its item from the slot to those delivered.
LEMMA TakeBalanced ==
  ASSUME TypeOK, NEW c \in Consumers, PopTake(c), AllBalanced
  PROVE  AllBalanced'
  <1> DEFINE s == cslot[c]
             n == Len(delivered) + 1
  <1>1. /\ data[s] # Null /\ data' = [data EXCEPT ![s] = Null]
        /\ delivered' = Append(delivered, data[s])
        /\ ppc' = ppc /\ pitem' = pitem /\ order' = order /\ dropped' = dropped
    BY DEF PopTake, prodVars
  <1>2. s \in Slots /\ data[s] \in Items
    BY <1>1 DEF TypeOK, ConsumerTypes, SlotTypes
  <1>3. delivered \in Seq(Items) /\ DOMAIN delivered = 1..Len(delivered) /\ Len(delivered) \in Nat
    BY DEF TypeOK, HistoryTypes
  <1>4. /\ DOMAIN delivered' = DOMAIN delivered \cup {n} /\ n \notin DOMAIN delivered
        /\ delivered'[n] = data[s] /\ \A i \in DOMAIN delivered : delivered'[i] = delivered[i]
    <2>1. Len(delivered') = n /\ DOMAIN delivered' = 1..n
      BY <1>1, <1>2, <1>3, AppendProperties
    <2>2. delivered'[n] = data[s] /\ \A i \in 1..Len(delivered) : delivered'[i] = delivered[i]
      BY <1>1, <1>2, <1>3, AppendProperties
    <2> QED BY <1>3, <2>1, <2>2
  <1> HIDE DEF s, n
  <1> SUFFICES ASSUME NEW u \in Items PROVE Balanced(u)'
    BY DEF AllBalanced
  <1>5. InHand(u)' = InHand(u) /\ Gone(u)' = Gone(u) /\ Place(u)' = Place(u)
    BY <1>1 DEF InHand, Unfilled, Gone, Place
  <1>6. CASE u # data[s]
    <2>1. InRing(u)' = InRing(u)
      BY <1>1, <1>2, <1>6, NullIsNoItem DEF InRing, TypeOK, SlotTypes
    <2>2. Popped(u)' = Popped(u)
      BY <1>4, <1>6 DEF Popped
    <2> QED BY <1>5, <2>1, <2>2, StaysPut DEF AllBalanced
  <1>7. CASE u = data[s]
    <2>1. InRing(u)' = InRing(u) \ {s} /\ s \in InRing(u)
      BY <1>1, <1>2, <1>7, NullIsNoItem DEF InRing, TypeOK, SlotTypes
    <2>2. Popped(u)' = Popped(u) \cup {n} /\ n \notin Popped(u)
      BY <1>4, <1>7 DEF Popped
    <2>3. Cardinality(InRing(u)') = Cardinality(InRing(u)) - 1
      BY <2>1, PlacesFinite, CountRemove
    <2>4. Cardinality(Popped(u)') = Cardinality(Popped(u)) + 1
      BY <2>2, PlacesFinite, CountAdd
    <2>5. Balanced(u)
      BY DEF AllBalanced
    <2>6. /\ Cardinality(InHand(u)) \in Nat /\ Cardinality(InRing(u)) \in Nat
          /\ Cardinality(Popped(u)) \in Nat /\ Cardinality(Place(u)) \in Nat /\ Gone(u) \in Nat
      BY PlacesFinite DEF Gone
    <2> QED BY <1>5, <2>3, <2>4, <2>5, <2>6 DEF Balanced
  <1> QED BY <1>6, <1>7

\* The other steps move no item.
LEMMA OthersBalanced ==
  ASSUME TypeOK, OneTicket, AllBalanced,
         \/ UNCHANGED vars
         \/ \E p \in Producers :
              \/ PushInc(p) \/ (PushAdd(p) /\ ~(val[pslot[p]] > 0))
              \/ PushCheck(p) \/ PushWake(p) \/ PushReturn(p)
         \/ \E c \in Consumers :
              \/ PopTicket(c) \/ PopDec(c) \/ PopEnter(c) \/ PopWait(c) \/ PopRetry(c)
              \/ PopLeave(c) \/ PopCheck(c) \/ PopWake(c) \/ PopInterrupted(c)
  PROVE  OneTicket' /\ AllBalanced' /\ dropped' = dropped
  <1>1. /\ UNCHANGED <<pitem, data, delivered, dropped, order>>
        /\ \A q \in Producers : Unfilled(q)' <=> Unfilled(q)
    <2>1. CASE UNCHANGED vars
      BY <2>1 DEF vars, slotVars, prodVars, consVars, Unfilled
    <2>2. CASE \E p \in Producers :
                 \/ PushInc(p) \/ (PushAdd(p) /\ ~(val[pslot[p]] > 0))
                 \/ PushCheck(p) \/ PushWake(p) \/ PushReturn(p)
      <3>1. PICK p \in Producers :
                 \/ PushInc(p) \/ (PushAdd(p) /\ ~(val[pslot[p]] > 0))
                 \/ PushCheck(p) \/ PushWake(p) \/ PushReturn(p)
        BY <2>2
      <3>2. UNCHANGED <<pitem, data, delivered, dropped, order>>
        BY <3>1 DEF PushInc, PushAdd, PushCheck, PushWake, PushReturn, slotVars, consVars
      <3>3. \A q \in Producers : Unfilled(q)' <=> Unfilled(q)
        BY <3>1 DEF PushInc, PushAdd, PushCheck, PushWake, PushReturn, Unfilled,
                    TypeOK, ProducerTypes
      <3> QED BY <3>2, <3>3
    <2>3. CASE \E c \in Consumers :
              \/ PopTicket(c) \/ PopDec(c) \/ PopEnter(c) \/ PopWait(c) \/ PopRetry(c)
              \/ PopLeave(c) \/ PopCheck(c) \/ PopWake(c) \/ PopInterrupted(c)
      <3>1. UNCHANGED <<prodVars, data, delivered, dropped>>
        BY <2>3 DEF PopTicket, PopDec, PopEnter, PopWait, PopRetry, PopLeave, PopCheck,
                    PopWake, PopInterrupted, slotVars
      <3> QED BY <3>1 DEF prodVars, Unfilled
    <2> QED BY <2>1, <2>2, <2>3
  <1>2. OneTicket'
    BY <1>1 DEF OneTicket
  <1>3. ASSUME NEW u \in Items PROVE Balanced(u)'
    <2>1. InHand(u)' = InHand(u)
      BY <1>1 DEF InHand
    <2>2. InRing(u)' = InRing(u) /\ Popped(u)' = Popped(u) /\ Gone(u)' = Gone(u)
          /\ Place(u)' = Place(u)
      BY <1>1 DEF InRing, Popped, Gone, Place
    <2> QED BY <2>1, <2>2, StaysPut DEF AllBalanced
  <1> QED BY <1>1, <1>2, <1>3 DEF AllBalanced

Over(n) == IF n > 1 THEN n - 1 ELSE 0

\* The surplus after one counter has changed.
LEMMA SurplusAfter ==
  ASSUME TypeOK, NEW s \in Slots, NEW n \in Nat, val' = [val EXCEPT ![s] = n]
  PROVE  /\ Surplus[Size - 1] \in Nat /\ Surplus'[Size - 1] \in Nat
         /\ Surplus'[Size - 1] = Surplus[Size - 1] + Over(n) - Over(val[s])
  <1> DEFINE w == val'
             g == Surplus'
  <1>1. val \in [Slots -> Nat] /\ w = [val EXCEPT ![s] = n]
    BY DEF TypeOK, SlotTypes
  <1>2. Sums(val, Surplus) /\ Sums(w, g)
    <2>1. Sums(val, Surplus)'
      BY SurplusIs, PTL
    <2> QED BY <2>1, SurplusIs
  <1> HIDE DEF w, g
  <1>3. \A t \in Slots : Extra(val, t) \in Nat
    BY <1>1 DEF Extra
  <1>4. \A t \in Slots \ {s} : Extra(w, t) = Extra(val, t)
    BY <1>1 DEF Extra
  <1>5. Extra(w, s) = Over(n) /\ Over(n) \in Nat /\ Extra(val, s) = Over(val[s])
    BY <1>1 DEF Extra, Over
  <1>6. /\ Surplus[Size - 1] \in Nat /\ g[Size - 1] \in Nat
        /\ g[Size - 1] = Surplus[Size - 1] + Extra(w, s) - Extra(val, s)
    BY <1>2, <1>3, <1>4, <1>5, SumsChange
  <1> QED BY <1>5, <1>6 DEF g

\* The surplus of unchanged counters.
LEMMA SurplusSame == val' = val => Surplus' = Surplus
  BY DEF Surplus

LEMMA RepaidKept ==
  ASSUME Repaid, val' = val, nulls' = nulls, dropped' = dropped
  PROVE  Repaid'
  BY SurplusSame DEF Repaid

LEMMA RepaidPush ==
  ASSUME WInv, OnceInv, NEW p \in Producers, Push(p)
  PROVE  Repaid'
  <1> USE DEF WInv
  <1>1. CASE PushAdd(p) /\ val[pslot[p]] > 0
    <2> DEFINE s == pslot[p]
               k == Surplus[Size - 1]
               l == Surplus'[Size - 1]
               d == Cardinality(dropped)
    <2>1. s \in Slots /\ val[s] \in Nat /\ nulls \in Nat
      BY DEF TypeOK, SlotTypes, ProducerTypes, HistoryTypes
    <2>2. /\ val' = [val EXCEPT ![s] = val[s] + 1] /\ nulls' = nulls
          /\ dropped' = dropped \cup {pitem[p]}
      BY <1>1 DEF PushAdd, consVars, TypeOK, SlotTypes
    <2>3. k \in Nat /\ l \in Nat /\ l = k + Over(val[s] + 1) - Over(val[s])
      <3>1. val[s] + 1 \in Nat
        BY <2>1
      <3> HIDE DEF s
      <3> QED BY <2>1, <2>2, <3>1, SurplusAfter
    <2>4. pitem[p] \notin dropped /\ IsFiniteSet(dropped) /\ d = nulls + k
      BY <1>1, DropBalanced DEF OnceInv, Repaid
    <2>5. IsFiniteSet(dropped') /\ Cardinality(dropped') = d + 1
      BY <2>2, <2>4, FS_AddElement
    <2> HIDE DEF s, k, l, d
    <2>6. Over(val[s] + 1) = Over(val[s]) + 1 /\ Over(val[s]) \in Nat
      <3>1. val[s] > 0
        BY <1>1 DEF s
      <3> QED BY <2>1, <3>1 DEF Over
    <2>7. l = k + 1
      BY <2>3, <2>6
    <2>8. d + 1 = nulls + l
      BY <2>1, <2>3, <2>4, <2>7
    <2> QED BY <2>2, <2>5, <2>8 DEF Repaid, l
  <1>2. CASE (PushAdd(p) \/ PushInc(p)) /\ ~(val[pslot[p]] > 0)
    <2> DEFINE s == pslot[p]
               k == Surplus[Size - 1]
               l == Surplus'[Size - 1]
    <2>1. s \in Slots /\ val[s] \in Nat
      BY DEF TypeOK, SlotTypes, ProducerTypes
    <2>2. val[s] = 0 /\ val' = [val EXCEPT ![s] = 1] /\ nulls' = nulls /\ dropped' = dropped
      BY <1>2, <2>1 DEF PushAdd, PushInc, consVars, TypeOK, SlotTypes
    <2>3. k \in Nat /\ l \in Nat /\ l = k + Over(1) - Over(0)
      BY <2>1, <2>2, SurplusAfter
    <2> HIDE DEF s, k, l
    <2>4. l = k
      BY <2>3 DEF Over
    <2> QED BY <2>2, <2>4 DEF Repaid, OnceInv, k, l
  <1>3. CASE ~PushAdd(p) /\ ~(PushInc(p) /\ ~(val[pslot[p]] > 0))
    <2>1. val' = val /\ nulls' = nulls /\ dropped' = dropped
      BY <1>3 DEF Push, PushTicket, PushInc, PushStore, PushCheck, PushWake, PushReturn,
                  slotVars, consVars, TypeOK, SlotTypes
    <2> QED BY <2>1, RepaidKept DEF OnceInv
  <1> QED BY <1>1, <1>2, <1>3

LEMMA RepaidPop ==
  ASSUME WInv, OnceInv, NEW c \in Consumers, PopStep(c) \/ PopInterrupted(c)
  PROVE  Repaid'
  <1> USE DEF WInv
  <1> DEFINE s == cslot[c]
             k == Surplus[Size - 1]
             l == Surplus'[Size - 1]
             m == val[s] - 1
  <1>1. s \in Slots /\ val[s] \in Nat /\ nulls \in Nat
    BY DEF TypeOK, SlotTypes, ConsumerTypes, HistoryTypes
  <1>2. CASE (PopDec(c) \/ PopRetry(c)) /\ val[s] > 0
    <2>1. /\ val' = [val EXCEPT ![s] = m] /\ dropped' = dropped
          /\ nulls' = IF val[s] = 1 THEN nulls ELSE nulls + 1
      BY <1>2 DEF PopDec, PopRetry, Decrement, TypeOK, SlotTypes
    <2>2. m \in Nat
      BY <1>1, <1>2
    <2> HIDE DEF m
    <2>3. k \in Nat /\ l \in Nat /\ l = k + Over(m) - Over(val[s])
      BY <1>1, <2>1, <2>2, SurplusAfter
    <2>4. IsFiniteSet(dropped) /\ Cardinality(dropped) = nulls + k
      BY DEF OnceInv, Repaid
    <2> HIDE DEF s, k, l
    <2>5. nulls' + l = nulls + k
      <3>1. CASE val[s] = 1
        <4>1. Over(m) = 0 /\ Over(val[s]) = 0
          BY <3>1 DEF Over, m
        <4>2. nulls' = nulls
          BY <2>1, <3>1
        <4> QED BY <2>3, <4>1, <4>2
      <3>2. CASE val[s] # 1
        <4>1. Over(m) + 1 = Over(val[s]) /\ Over(m) \in Nat
          BY <1>1, <1>2, <3>2 DEF Over, m
        <4>2. nulls' = nulls + 1
          BY <2>1, <3>2
        <4>3. l = k - 1
          BY <2>3, <4>1
        <4> QED BY <1>1, <2>3, <4>2, <4>3
      <3> QED BY <3>1, <3>2
    <2> QED BY <2>1, <2>4, <2>5 DEF Repaid, l
  <1>3. CASE ~((PopDec(c) \/ PopRetry(c)) /\ val[s] > 0)
    <2>1. val' = val /\ nulls' = nulls /\ dropped' = dropped
      BY <1>3 DEF PopStep, PopTicket, PopDec, PopEnter, PopWait, PopRetry, PopLeave,
                  PopCheck, PopWake, PopTake, PopInterrupted, Decrement, slotVars
    <2> QED BY <2>1, RepaidKept DEF OnceInv
  <1> QED BY <1>2, <1>3

LEMMA OnceInvInit == Init => OnceInv
  <1> SUFFICES ASSUME Init PROVE OnceInv
    OBVIOUS
  <1>1. OneTicket
    BY DEF Init, OneTicket
  <1>2. ASSUME NEW v \in Items PROVE Balanced(v)
    <2>1. InHand(v) = {} /\ Popped(v) = {} /\ Place(v) = {} /\ Gone(v) = 0
      BY DEF Init, InHand, Unfilled, Popped, Place, Gone
    <2>2. InRing(v) = {}
      BY NullIsNoItem DEF Init, InRing
    <2> QED BY <2>1, <2>2, FS_EmptySet DEF Balanced
  <1>3. Repaid
    <2>1. \A s \in Slots : Extra(val, s) = 0
      BY DEF Init, Extra
    <2>2. Surplus[Size - 1] = 0
      BY <2>1, SurplusIs, SumsZero
    <2> QED BY <2>2, FS_EmptySet DEF Init, Repaid
  <1> QED BY <1>1, <1>2, <1>3 DEF OnceInv, AllBalanced

LEMMA OnceInvStep == WInv /\ OnceInv /\ [Next]_vars => OnceInv'
  <1> SUFFICES ASSUME WInv, OnceInv, [Next]_vars PROVE OnceInv'
    OBVIOUS
  <1>0. TypeOK /\ OneTicket /\ AllBalanced
    BY DEF WInv, OnceInv
  <1>1. Repaid'
    <2>1. CASE UNCHANGED vars
      BY <2>1, RepaidKept DEF vars, slotVars, consVars, OnceInv
    <2> QED BY <2>1, RepaidPush, RepaidPop DEF Next
  <1>2. OneTicket' /\ AllBalanced'
    <2>1. ASSUME NEW p \in Producers, Push(p) PROVE OneTicket' /\ AllBalanced'
      <3>1. ASSUME NEW v \in Items, PushTicket(p, v) PROVE OneTicket' /\ AllBalanced'
        BY <1>0, <3>1, TicketBalanced
      <3>2. CASE PushStore(p)
        <4>1. order' = order
          BY <3>2 DEF PushStore
        <4> QED BY <1>0, <3>2, <4>1, StoreBalanced DEF OneTicket
      <3>3. CASE PushAdd(p) /\ val[pslot[p]] > 0
        <4>1. order' = order
          BY <3>3 DEF PushAdd
        <4> QED BY <1>0, <3>3, <4>1, DropBalanced DEF OneTicket
      <3>4. CASE \/ PushInc(p) \/ (PushAdd(p) /\ ~(val[pslot[p]] > 0))
                 \/ PushCheck(p) \/ PushWake(p) \/ PushReturn(p)
        BY <1>0, <3>4, OthersBalanced
      <3> QED BY <2>1, <3>1, <3>2, <3>3, <3>4 DEF Push
    <2>2. ASSUME NEW c \in Consumers, PopStep(c) \/ PopInterrupted(c)
          PROVE  OneTicket' /\ AllBalanced'
      <3>1. CASE PopTake(c)
        <4>1. order' = order
          BY <3>1 DEF PopTake, prodVars
        <4> QED BY <1>0, <3>1, <4>1, TakeBalanced DEF OneTicket
      <3>2. CASE \/ PopTicket(c) \/ PopDec(c) \/ PopEnter(c) \/ PopWait(c) \/ PopRetry(c)
                 \/ PopLeave(c) \/ PopCheck(c) \/ PopWake(c) \/ PopInterrupted(c)
        BY <1>0, <3>2, OthersBalanced
      <3> QED BY <2>2, <3>1, <3>2 DEF PopStep
    <2>3. CASE UNCHANGED vars
      BY <1>0, <2>3, OthersBalanced
    <2> QED BY <2>1, <2>2, <2>3 DEF Next
  <1> QED BY <1>1, <1>2 DEF OnceInv

LEMMA OnceIsOnce == OnceInv => EachItemOnce
  BY DEF OnceInv, AllBalanced, Balanced, Gone, Place, Repaid, EachItemOnce

\* EachItemOnce holds in every reachable state: a pointer that was pushed is with its
\* producer, in one slot, delivered once or dropped, and every overflow is paid back by
\* one pop that returns null.
THEOREM NoItemLostOrDoubled == Spec => []EachItemOnce
  <1>1. WInv /\ [Next]_vars => WInv'
    BY WInvPush, WInvPop, WInvStutter DEF Next
  <1> QED
    BY WInvInit, <1>1, OnceInvInit, OnceInvStep, OnceIsOnce, PTL DEF Spec

-----------------------------------------------------------------------------
(* The order of delivery.  Tickets are counted from 0; ticket t is of slot  *)
(* Slot(t) and its item is order[t + 1].                                    *)

Tickets == 0..(Len(order) - 1)
Served(t) == Delivered(order[t + 1])
Entered(t) == Served(t) \/ data[Slot(t)] = order[t + 1]

\* An item is only ever on the slot of its ticket.
OnItsSlot ==
  /\ push_ = Len(order)
  /\ \A p \in Producers : Unfilled(p) =>
       \E t \in Tickets : order[t + 1] = pitem[p] /\ Slot(t) = pslot[p]
  /\ \A s \in Slots : data[s] # Null => \E t \in Tickets : order[t + 1] = data[s] /\ Slot(t) = s

Undisturbed == dropped = {} /\ lapped = {}

\* No counter claims more than one pointer, and no pop comes back empty.
OneUnit ==
  /\ \A s \in Slots : val[s] <= 1
  /\ \A c \in Consumers : cpc[c] \in {"leave", "check", "wake", "take"} => cgot[c] = 1

\* Within a slot an item enters before the next ticket is drawn, and only after the
\* item before it was delivered.
SlotInOrder ==
  \A t, u \in Tickets : t < u /\ Slot(t) = Slot(u) =>
    Entered(t) /\ (Entered(u) => Served(t))

\* A pop that drew a ticket has delivered an item of its slot or is still at it.
Drawn(s, n) == {t \in 0..(n - 1) : Slot(t) = s}
ServedOn(s) == {t \in Tickets : Slot(t) = s /\ Served(t)}
At(s) == {c \in Consumers : cpc[c] # "idle" /\ cslot[c] = s}
PopsCounted ==
  \A s \in Slots :
    Cardinality(Drawn(s, pop_)) = Cardinality(ServedOn(s)) + Cardinality(At(s))

FifoInv == OnItsSlot /\ (Undisturbed => OneUnit /\ SlotInOrder /\ PopsCounted)

\* An item is in one place at a time, and in none before it has a ticket.
LEMMA Exclusive ==
  ASSUME TypeOK, OneTicket, AllBalanced, NEW v \in Items
  PROVE  /\ InHand(v) # {} => InRing(v) = {} /\ Popped(v) = {}
         /\ InRing(v) # {} => Popped(v) = {}
         /\ (\A i \in DOMAIN order : order[i] # v) =>
              InHand(v) = {} /\ InRing(v) = {} /\ Popped(v) = {}
         /\ (\E i \in DOMAIN order : order[i] = v) /\ v \notin dropped =>
              InHand(v) # {} \/ InRing(v) # {} \/ Popped(v) # {}
  <1> DEFINE h == Cardinality(InHand(v))
             r == Cardinality(InRing(v))
             d == Cardinality(Popped(v))
             o == Cardinality(Place(v))
             g == Gone(v)
  <1>1. h \in Nat /\ r \in Nat /\ d \in Nat /\ g \in {0, 1}
    BY PlacesFinite DEF Gone
  <1>2. o \in {0, 1} /\ (o = 0 <=> \A i \in DOMAIN order : order[i] # v)
    BY OnePlace
  <1>3. h + r + d + g = o
    BY DEF AllBalanced, Balanced
  <1>4. (h = 0 <=> InHand(v) = {}) /\ (r = 0 <=> InRing(v) = {}) /\ (d = 0 <=> Popped(v) = {})
    BY PlacesFinite, FS_EmptySet
  <1>5. v \notin dropped => g = 0
    BY DEF Gone
  <1> HIDE DEF h, r, d, o, g
  <1>6. h # 0 => r = 0 /\ d = 0
    BY <1>1, <1>2, <1>3
  <1>7. r # 0 => d = 0
    BY <1>1, <1>2, <1>3
  <1>8. o = 0 => h = 0 /\ r = 0 /\ d = 0
    BY <1>1, <1>3
  <1>9. o # 0 /\ g = 0 => h # 0 \/ r # 0 \/ d # 0
    BY <1>1, <1>2, <1>3
  <1> QED BY <1>2, <1>4, <1>5, <1>6, <1>7, <1>8, <1>9

\* Tickets and their items.
LEMMA TicketFacts ==
  ASSUME TypeOK
  PROVE  /\ Len(order) \in Nat /\ DOMAIN order = 1..Len(order) /\ Tickets \subseteq Nat
         /\ \A t \in Tickets : t + 1 \in DOMAIN order /\ order[t + 1] \in Items /\ Slot(t) \in Slots
         /\ \A i \in DOMAIN order : i - 1 \in Tickets /\ (i - 1) + 1 = i
  <1>1. order \in Seq(Items) /\ Len(order) \in Nat /\ DOMAIN order = 1..Len(order)
    BY DEF TypeOK, HistoryTypes
  <1>2. Tickets \subseteq Nat
    BY <1>1 DEF Tickets
  <1>3. \A t \in Tickets : t + 1 \in DOMAIN order /\ order[t + 1] \in Items
    BY <1>1 DEF Tickets
  <1>4. \A i \in DOMAIN order : i - 1 \in Tickets /\ (i - 1) + 1 = i
    BY <1>1 DEF Tickets
  <1> QED BY <1>1, <1>2, <1>3, <1>4, SlotIsSlot

\* Two tickets with one item are one.
LEMMA TicketOf ==
  ASSUME TypeOK, OneTicket
  PROVE  \A t, u \in Tickets : order[t + 1] = order[u + 1] => t = u
  <1> SUFFICES ASSUME NEW t \in Tickets, NEW u \in Tickets, order[t + 1] = order[u + 1]
               PROVE  t = u
    OBVIOUS
  <1>1. t + 1 = u + 1
    BY TicketFacts DEF OneTicket
  <1> QED BY <1>1, TicketFacts

\* What was disturbed once stays so.
LEMMA UndisturbedBefore == TypeOK /\ [Next]_vars /\ Undisturbed' => Undisturbed
  <1> SUFFICES ASSUME TypeOK, [Next]_vars PROVE dropped \subseteq dropped' /\ lapped \subseteq lapped'
    BY DEF Undisturbed
  <1>1. CASE UNCHANGED vars
    BY <1>1 DEF vars, prodVars
  <1>2. ASSUME NEW p \in Producers, Push(p) PROVE dropped \subseteq dropped' /\ lapped \subseteq lapped'
    BY <1>2 DEF Push, PushTicket, PushInc, PushAdd, PushStore, PushCheck, PushWake, PushReturn
  <1>3. ASSUME NEW c \in Consumers, PopStep(c) \/ PopInterrupted(c)
        PROVE  dropped \subseteq dropped' /\ lapped \subseteq lapped'
    BY <1>3 DEF PopStep, PopTicket, PopDec, PopEnter, PopWait, PopRetry, PopLeave,
                PopCheck, PopWake, PopTake, PopInterrupted, prodVars
  <1> QED BY <1>1, <1>2, <1>3 DEF Next

\* OneUnit holds until a push is lost.
LEMMA OneUnitStep ==
  ASSUME WInv, OneUnit, [Next]_vars, dropped' = {}
  PROVE  OneUnit'
  <1> USE DEF WInv
  <1>1. CASE UNCHANGED vars
    BY <1>1 DEF vars, slotVars, consVars, OneUnit
  <1>2. ASSUME NEW p \in Producers, Push(p) PROVE OneUnit'
    <2>1. \A s \in Slots : val'[s] <= 1
      <3>1. CASE PushInc(p)
        BY <3>1 DEF PushInc, OneUnit, TypeOK, SlotTypes
      <3>2. CASE PushAdd(p)
        BY <3>2 DEF PushAdd, OneUnit, TypeOK, SlotTypes
      <3>3. CASE ~PushInc(p) /\ ~PushAdd(p)
        <4>1. val' = val
          BY <1>2, <3>3 DEF Push, PushTicket, PushStore, PushCheck, PushWake, PushReturn, slotVars
        <4> QED BY <4>1 DEF OneUnit
      <3> QED BY <3>1, <3>2, <3>3
    <2>2. ASSUME NEW c \in Consumers, cpc'[c] \in {"leave", "check", "wake", "take"}
          PROVE  cgot'[c] = 1
      <3>1. cgot' = cgot
        BY <1>2 DEF Push, PushTicket, PushInc, PushAdd, PushStore, PushCheck, PushWake,
                    PushReturn, consVars
      <3>2. cpc[c] = cpc'[c]
        <4>1. CASE PushWake(p)
          BY <2>2, <4>1 DEF PushWake, WakeAll
        <4>2. CASE ~PushWake(p)
          BY <1>2, <4>2 DEF Push, PushTicket, PushInc, PushAdd, PushStore, PushCheck,
                            PushReturn, consVars
        <4> QED BY <4>1, <4>2
      <3> QED BY <2>2, <3>1, <3>2 DEF OneUnit
    <2> QED BY <2>1, <2>2 DEF OneUnit
  <1>3. ASSUME NEW c \in Consumers, PopStep(c) \/ PopInterrupted(c) PROVE OneUnit'
    <2>1. CASE PopDec(c) \/ PopRetry(c)
      <3>1. cslot[c] \in Slots /\ val[cslot[c]] \in Nat /\ val[cslot[c]] <= 1
        BY DEF OneUnit, TypeOK, SlotTypes, ConsumerTypes
      <3>2. \A s \in Slots : val'[s] <= 1
        BY <2>1, <3>1 DEF PopDec, PopRetry, Decrement, OneUnit, TypeOK, SlotTypes
      <3>3. ASSUME NEW d \in Consumers, cpc'[d] \in {"leave", "check", "wake", "take"}
            PROVE  cgot'[d] = 1
        <4>1. CASE d # c
          <5>1. cpc'[d] = cpc[d] /\ cgot'[d] = cgot[d]
            BY <2>1, <4>1 DEF PopDec, PopRetry, Decrement, TypeOK, ConsumerTypes
          <5> QED BY <3>3, <5>1 DEF OneUnit
        <4>2. CASE d = c
          <5>1. cgot'[c] = val[cslot[c]] /\ val[cslot[c]] > 0
            BY <2>1, <3>3, <4>2 DEF PopDec, PopRetry, Decrement, TypeOK, ConsumerTypes
          <5> QED BY <3>1, <4>2, <5>1
        <4> QED BY <4>1, <4>2
      <3> QED BY <3>2, <3>3 DEF OneUnit
    <2>2. CASE ~(PopDec(c) \/ PopRetry(c))
      <3>1. val' = val /\ cgot' = cgot
        BY <1>3, <2>2 DEF PopStep, PopTicket, PopEnter, PopWait, PopLeave, PopCheck, PopWake,
                          PopTake, PopInterrupted, slotVars
      <3>2. ASSUME NEW d \in Consumers, cpc'[d] \in {"leave", "check", "wake", "take"}
            PROVE  cpc[d] \in {"leave", "check", "wake", "take"}
        BY <1>3, <2>2, <3>2
          DEF PopStep, PopTicket, PopEnter, PopWait, PopLeave, PopCheck, PopWake, AfterWake,
              PopTake, PopInterrupted, TypeOK, ConsumerTypes
      <3> QED BY <3>1, <3>2 DEF OneUnit
    <2> QED BY <2>1, <2>2
  <1> QED BY <1>1, <1>2, <1>3 DEF Next

\* A step that leaves tickets, slots and hands alone keeps every item on its slot.
LEMMA SlotsKept ==
  ASSUME OnItsSlot, UNCHANGED <<push_, order, data, pitem, pslot>>,
         \A q \in Producers : Unfilled(q)' => Unfilled(q)
  PROVE  OnItsSlot'
  <1>1. Tickets' = Tickets
    BY DEF Tickets
  <1> QED BY <1>1 DEF OnItsSlot

LEMMA OnItsSlotStep ==
  ASSUME WInv, OnItsSlot, [Next]_vars
  PROVE  OnItsSlot'
  <1> USE DEF WInv
  <1>1. ASSUME NEW p \in Producers, NEW v \in Items, PushTicket(p, v) PROVE OnItsSlot'
    <2> DEFINE n == Len(order)
    <2>1. /\ push_' = push_ + 1 /\ pslot' = [pslot EXCEPT ![p] = Slot(push_)]
          /\ pitem' = [pitem EXCEPT ![p] = v] /\ order' = Append(order, v)
          /\ ppc' = [ppc EXCEPT ![p] = "inc"] /\ data' = data
      BY <1>1 DEF PushTicket, slotVars
    <2>2. order \in Seq(Items) /\ n \in Nat /\ push_ = n
      BY DEF TypeOK, HistoryTypes, OnItsSlot
    <2>3. Len(order') = n + 1 /\ order'[n + 1] = v /\ \A i \in 1..n : order'[i] = order[i]
      BY <2>1, <2>2, AppendProperties
    <2> HIDE DEF n
    <2>4. Tickets' = 0..n /\ Tickets = 0..(n - 1)
      BY <2>2, <2>3 DEF Tickets, n
    <2>5. \A t \in Tickets : t \in Tickets' /\ order'[t + 1] = order[t + 1]
      BY <2>2, <2>3, <2>4
    <2>6. n \in Tickets'
      BY <2>2, <2>4
    <2>7. ASSUME NEW q \in Producers, Unfilled(q)'
          PROVE  \E t \in Tickets' : order'[t + 1] = pitem'[q] /\ Slot(t) = pslot'[q]
      <3>1. CASE q = p
        <4>1. pitem'[q] = v /\ pslot'[q] = Slot(n)
          BY <2>1, <2>2, <3>1 DEF TypeOK, ProducerTypes
        <4> QED BY <2>3, <2>6, <4>1
      <3>2. CASE q # p
        <4>1. pitem'[q] = pitem[q] /\ pslot'[q] = pslot[q] /\ Unfilled(q)
          BY <2>1, <2>7, <3>2 DEF TypeOK, ProducerTypes, Unfilled
        <4> QED BY <2>5, <4>1 DEF OnItsSlot
      <3> QED BY <3>1, <3>2
    <2>8. \A s \in Slots : data'[s] # Null =>
            \E t \in Tickets' : order'[t + 1] = data'[s] /\ Slot(t) = s
      BY <2>1, <2>5 DEF OnItsSlot
    <2>9. push_' = Len(order')
      BY <2>1, <2>2, <2>3
    <2> QED BY <2>7, <2>8, <2>9 DEF OnItsSlot
  <1>2. ASSUME NEW p \in Producers, PushStore(p) PROVE OnItsSlot'
    <2>1. /\ UNCHANGED <<push_, order, pitem, pslot>> /\ Tickets' = Tickets
          /\ data' = [data EXCEPT ![pslot[p]] = pitem[p]] /\ Unfilled(p)
          /\ \A q \in Producers : Unfilled(q)' => Unfilled(q)
      BY <1>2 DEF PushStore, Unfilled, Tickets, TypeOK, ProducerTypes
    <2>2. PICK t \in Tickets : order[t + 1] = pitem[p] /\ Slot(t) = pslot[p]
      BY <2>1 DEF OnItsSlot
    <2> QED BY <2>1, <2>2 DEF OnItsSlot, TypeOK, SlotTypes
  <1>3. ASSUME NEW c \in Consumers, PopTake(c) PROVE OnItsSlot'
    <2>1. /\ UNCHANGED <<push_, order, pitem, pslot, ppc>> /\ Tickets' = Tickets
          /\ data' = [data EXCEPT ![cslot[c]] = Null]
      BY <1>3 DEF PopTake, prodVars, Tickets
    <2>2. \A q \in Producers : Unfilled(q)' <=> Unfilled(q)
      BY <2>1 DEF Unfilled
    <2>3. \A s \in Slots : data'[s] # Null => data[s] = data'[s]
      BY <2>1 DEF TypeOK, SlotTypes
    <2>4. \A s \in Slots : data'[s] # Null =>
            \E t \in Tickets' : order'[t + 1] = data'[s] /\ Slot(t) = s
      BY <2>1, <2>3 DEF OnItsSlot
    <2> QED BY <2>1, <2>2, <2>4 DEF OnItsSlot
  <1>4. ASSUME NEW p \in Producers,
               PushInc(p) \/ PushAdd(p) \/ PushCheck(p) \/ PushWake(p) \/ PushReturn(p)
        PROVE  OnItsSlot'
    <2>1. UNCHANGED <<push_, order, data, pitem, pslot>>
      BY <1>4 DEF PushInc, PushAdd, PushCheck, PushWake, PushReturn, slotVars
    <2>2. \A q \in Producers : Unfilled(q)' => Unfilled(q)
      BY <1>4 DEF PushInc, PushAdd, PushCheck, PushWake, PushReturn, Unfilled, TypeOK, ProducerTypes
    <2> QED BY <2>1, <2>2, SlotsKept
  <1>5. ASSUME NEW c \in Consumers,
               \/ PopTicket(c) \/ PopDec(c) \/ PopEnter(c) \/ PopWait(c) \/ PopRetry(c)
               \/ PopLeave(c) \/ PopCheck(c) \/ PopWake(c) \/ PopInterrupted(c)
        PROVE  OnItsSlot'
    <2>1. UNCHANGED <<push_, order, data, pitem, pslot, ppc>>
      BY <1>5 DEF PopTicket, PopDec, PopEnter, PopWait, PopRetry, PopLeave, PopCheck,
                  PopWake, PopInterrupted, slotVars, prodVars
    <2> QED BY <2>1, SlotsKept DEF Unfilled
  <1>6. CASE UNCHANGED vars
    <2>1. UNCHANGED <<push_, order, data, pitem, pslot, ppc>>
      BY <1>6 DEF vars, slotVars, prodVars
    <2> QED BY <2>1, SlotsKept DEF Unfilled
  <1>7. ASSUME NEW p \in Producers, Push(p) PROVE OnItsSlot'
    BY <1>1, <1>2, <1>4, <1>7 DEF Push
  <1>8. ASSUME NEW c \in Consumers, PopStep(c) \/ PopInterrupted(c) PROVE OnItsSlot'
    BY <1>3, <1>5, <1>8 DEF PopStep
  <1> QED BY <1>6, <1>7, <1>8 DEF Next

\* A step that neither draws a ticket nor touches a pointer keeps the order.
LEMMA OrderKept ==
  ASSUME SlotInOrder, UNCHANGED <<order, data, delivered>>
  PROVE  SlotInOrder'
  <1>1. Tickets' = Tickets /\ \A v : Delivered(v)' <=> Delivered(v)
    BY DEF Tickets, Delivered, Popped
  <1>2. \A t : (Served(t)' <=> Served(t)) /\ (Entered(t)' <=> Entered(t))
    BY <1>1 DEF Served, Entered
  <1> QED BY <1>1, <1>2 DEF SlotInOrder

LEMMA OrderTicket ==
  ASSUME WInv, OneTicket, AllBalanced, OnItsSlot, SlotInOrder, Undisturbed, Undisturbed',
         NEW p \in Producers, NEW v \in Items, PushTicket(p, v)
  PROVE  SlotInOrder'
  <1> USE DEF WInv
  <1>0. PICK n \in Nat : n = Len(order)
    BY DEF TypeOK, HistoryTypes
  <1>1. /\ \A i \in DOMAIN order : order[i] # v
        /\ order' = Append(order, v) /\ data' = data /\ delivered' = delivered
        /\ ~ \E q \in Producers : Unfilled(q) /\ pslot[q] = Slot(push_)
    <2>1. /\ \A i \in DOMAIN order : order[i] # v
          /\ order' = Append(order, v) /\ data' = data /\ delivered' = delivered
      BY DEF PushTicket, slotVars, consVars
    <2>2. lapped' = IF \E q \in Producers : Unfilled(q) /\ pslot[q] = Slot(push_)
                      THEN lapped \cup {v} ELSE lapped
      BY Zenon DEF PushTicket
    <2>3. lapped' = {}
      BY DEF Undisturbed
    <2> QED BY <2>1, <2>2, <2>3
  <1>2. order \in Seq(Items) /\ n \in Nat /\ push_ = n
    BY <1>0 DEF TypeOK, HistoryTypes, OnItsSlot
  <1>3. Len(order') = n + 1 /\ order'[n + 1] = v /\ \A i \in 1..n : order'[i] = order[i]
    BY <1>0, <1>1, <1>2, AppendProperties
  <1>4. Tickets' = 0..n /\ Tickets = 0..(n - 1)
    BY <1>0, <1>2, <1>3 DEF Tickets
  <1>5. \A t \in Tickets' : t \in Tickets \/ t = n
    BY <1>2, <1>4
  <1>6. \A t \in Tickets : order'[t + 1] = order[t + 1] /\ t < n
    BY <1>2, <1>3, <1>4
  <1>7. \A u : Delivered(u)' <=> Delivered(u)
    BY <1>1 DEF Delivered, Popped
  <1>8. \A t \in Tickets : (Served(t)' <=> Served(t)) /\ (Entered(t)' <=> Entered(t))
    BY <1>1, <1>6, <1>7 DEF Served, Entered
  <1>9. ~Entered(n)'
    <2>1. InRing(v) = {} /\ Popped(v) = {}
      BY <1>1, Exclusive
    <2>2. ~Delivered(v)
      BY <2>1 DEF Delivered
    <2>3. data[Slot(n)] # v
      <3>1. Slot(n) \in Slots
        BY <1>2, SlotIsSlot
      <3> QED BY <2>1, <3>1 DEF InRing
    <2>4. ~Served(n)'
      BY <1>1, <1>3, <2>1 DEF Served, Delivered, Popped
    <2> QED BY <1>1, <1>3, <2>3, <2>4 DEF Entered
  <1>10. ASSUME NEW t \in Tickets, Slot(t) = Slot(n) PROVE Entered(t)
    <2> DEFINE w == order[t + 1]
    <2>1. w \in Items /\ t + 1 \in DOMAIN order /\ w \notin dropped
      BY TicketFacts DEF Undisturbed
    <2>2. InHand(w) = {}
      <3> SUFFICES ASSUME NEW q \in InHand(w) PROVE FALSE
        OBVIOUS
      <3>1. q \in Producers /\ Unfilled(q) /\ pitem[q] = w
        BY DEF InHand
      <3>2. PICK u \in Tickets : order[u + 1] = pitem[q] /\ Slot(u) = pslot[q]
        BY <3>1 DEF OnItsSlot
      <3>3. u = t
        BY <3>1, <3>2, TicketOf
      <3> QED BY <1>1, <1>2, <1>10, <3>1, <3>2, <3>3
    <2>3. InRing(w) # {} \/ Popped(w) # {}
      BY <2>1, <2>2, Exclusive
    <2>4. CASE Popped(w) # {}
      BY <2>4 DEF Entered, Served, Delivered
    <2>5. CASE InRing(w) # {}
      <3>1. PICK s \in Slots : data[s] = w
        BY <2>5 DEF InRing
      <3>2. data[s] # Null
        BY <2>1, <3>1, NullIsNoItem
      <3>3. PICK u \in Tickets : order[u + 1] = data[s] /\ Slot(u) = s
        BY <3>2 DEF OnItsSlot
      <3>4. u = t
        BY <3>1, <3>3, TicketOf
      <3> QED BY <3>1, <3>3, <3>4 DEF Entered
    <2> QED BY <2>3, <2>4, <2>5
  <1>11. ASSUME NEW t \in Tickets', NEW u \in Tickets', t < u, Slot(t) = Slot(u)
         PROVE  Entered(t)' /\ (Entered(u)' => Served(t)')
    <2>1. t \in Tickets
      BY <1>2, <1>4, <1>5, <1>11
    <2>2. CASE u \in Tickets
      BY <1>8, <1>11, <2>1, <2>2 DEF SlotInOrder
    <2>3. CASE u = n
      <3>1. ~Entered(u)'
        BY <1>9, <2>3
      <3>2. Entered(t)'
        BY <1>8, <1>10, <1>11, <2>1, <2>3
      <3> QED BY <3>1, <3>2
    <2> QED BY <1>5, <2>2, <2>3
  <1> QED BY <1>11 DEF SlotInOrder

LEMMA OrderStore ==
  ASSUME WInv, OneTicket, AllBalanced, OnItsSlot, SlotInOrder,
         NEW p \in Producers, PushStore(p)
  PROVE  SlotInOrder'
  <1> USE DEF WInv
  <1> DEFINE s == pslot[p]
  <1>1. /\ order' = order /\ delivered' = delivered /\ data[s] = Null
        /\ data' = [data EXCEPT ![s] = pitem[p]] /\ Unfilled(p)
    BY DEF PushStore, consVars, Unfilled
  <1>2. s \in Slots /\ pitem[p] \in Items
    BY <1>1 DEF TypeOK, ProducerTypes
  <1>3. PICK r \in Tickets : order[r + 1] = pitem[p] /\ Slot(r) = s
    BY <1>1 DEF OnItsSlot
  <1> HIDE DEF s
  <1>4. Tickets' = Tickets /\ \A v : Delivered(v)' <=> Delivered(v)
    BY <1>1 DEF Tickets, Delivered, Popped
  <1>5. \A t : Served(t)' <=> Served(t)
    BY <1>1, <1>4 DEF Served
  <1>6. \A t \in Tickets : Slot(t) \in Slots /\ order[t + 1] \in Items
    BY TicketFacts
  <1>7. \A t \in Tickets : Entered(t) => Entered(t)'
    BY <1>1, <1>2, <1>5, <1>6, NullIsNoItem DEF Entered, TypeOK, SlotTypes
  <1>8. \A t \in Tickets : Entered(t)' => Entered(t) \/ t = r
    <2> TAKE t \in Tickets
    <2>1. CASE Slot(t) # s
      BY <1>1, <1>2, <1>5, <1>6, <2>1 DEF Entered, TypeOK, SlotTypes
    <2>2. CASE Slot(t) = s
      <3>1. Entered(t)' => Served(t) \/ order[t + 1] = order[r + 1]
        BY <1>1, <1>2, <1>3, <1>5, <2>2 DEF Entered, TypeOK, SlotTypes
      <3> QED BY <3>1, TicketOf DEF Entered
    <2> QED BY <2>1, <2>2
  <1>9. ASSUME NEW t \in Tickets, t < r, Slot(t) = Slot(r) PROVE Served(t)
    <2>1. Entered(t)
      BY <1>9 DEF SlotInOrder
    <2> QED BY <1>1, <1>3, <1>6, <1>9, <2>1, NullIsNoItem DEF Entered
  <1> QED BY <1>4, <1>5, <1>7, <1>8, <1>9 DEF SlotInOrder

\* The item a pop takes is that of one ticket.
LEMMA TakeFacts ==
  ASSUME WInv, OneTicket, AllBalanced, OnItsSlot, NEW c \in Consumers, PopTake(c)
  PROVE  \E r \in Tickets :
           /\ Slot(r) = cslot[c] /\ data[cslot[c]] = order[r + 1] /\ ~Served(r)
           /\ Tickets' = Tickets /\ order' = order
           /\ data' = [data EXCEPT ![cslot[c]] = Null]
           /\ \A t \in Tickets : Served(t)' <=> Served(t) \/ t = r
  <1> USE DEF WInv
  <1> DEFINE s == cslot[c]
             n == Len(delivered)
  <1>1. /\ data[s] # Null /\ data' = [data EXCEPT ![s] = Null] /\ order' = order
        /\ delivered' = Append(delivered, data[s]) /\ Tickets' = Tickets
    BY DEF PopTake, prodVars, Tickets
  <1>2. s \in Slots /\ data[s] \in Items
    BY <1>1 DEF TypeOK, ConsumerTypes, SlotTypes
  <1>3. PICK r \in Tickets : order[r + 1] = data[s] /\ Slot(r) = s
    BY <1>1, <1>2 DEF OnItsSlot
  <1>4. delivered \in Seq(Items) /\ n \in Nat /\ DOMAIN delivered = 1..n
    BY DEF TypeOK, HistoryTypes
  <1>5. /\ DOMAIN delivered' = 1..(n + 1) /\ delivered'[n + 1] = data[s]
        /\ \A i \in 1..n : delivered'[i] = delivered[i]
    <2>1. Len(delivered') = n + 1 /\ DOMAIN delivered' = 1..(n + 1)
      BY <1>1, <1>2, <1>4, AppendProperties
    <2> QED BY <1>1, <1>2, <1>4, <2>1, AppendProperties
  <1> HIDE DEF s, n
  <1>6. ASSUME NEW v PROVE Delivered(v)' <=> Delivered(v) \/ v = data[s]
    <2>1. Delivered(v)' <=> \E i \in 1..(n + 1) : delivered'[i] = v
      BY <1>5 DEF Delivered, Popped
    <2>2. Delivered(v) <=> \E i \in 1..n : delivered[i] = v
      BY <1>4 DEF Delivered, Popped
    <2>3. \A i \in 1..(n + 1) : i \in 1..n \/ i = n + 1
      BY <1>4
    <2>4. n + 1 \in 1..(n + 1) /\ \A i \in 1..n : i \in 1..(n + 1)
      BY <1>4
    <2> QED BY <1>5, <2>1, <2>2, <2>3, <2>4
  <1>7. ~Served(r)
    <2>1. InRing(data[s]) # {}
      BY <1>2 DEF InRing
    <2>2. Popped(data[s]) = {}
      BY <1>2, <2>1, Exclusive
    <2> QED BY <1>3, <2>2 DEF Served, Delivered
  <1>8. ASSUME NEW t \in Tickets PROVE Served(t)' <=> Served(t) \/ t = r
    <2>1. Served(t)' <=> Delivered(order[t + 1]) \/ order[t + 1] = data[s]
      BY <1>1, <1>6 DEF Served
    <2>2. order[t + 1] = data[s] <=> t = r
      BY <1>3, TicketOf
    <2> QED BY <2>1, <2>2 DEF Served
  <1> QED BY <1>1, <1>3, <1>7, <1>8 DEF s

LEMMA OrderTake ==
  ASSUME WInv, OneTicket, AllBalanced, OnItsSlot, SlotInOrder,
         NEW c \in Consumers, PopTake(c)
  PROVE  SlotInOrder'
  <1>1. PICK r \in Tickets :
           /\ Slot(r) = cslot[c] /\ data[cslot[c]] = order[r + 1] /\ ~Served(r)
           /\ Tickets' = Tickets /\ order' = order
           /\ data' = [data EXCEPT ![cslot[c]] = Null]
           /\ \A t \in Tickets : Served(t)' <=> Served(t) \/ t = r
    BY TakeFacts
  <1>2. cslot[c] \in Slots /\ data \in [Slots -> Items \cup {Null}]
    BY DEF WInv, TypeOK, ConsumerTypes, SlotTypes
  <1>3. \A t \in Tickets : Slot(t) \in Slots /\ order[t + 1] \in Items
    BY TicketFacts DEF WInv
  <1>4. ASSUME NEW t \in Tickets PROVE Entered(t)' <=> Entered(t)
    <2>1. CASE Slot(t) # cslot[c]
      <3>1. data'[Slot(t)] = data[Slot(t)] /\ t # r
        BY <1>1, <1>2, <1>3, <2>1
      <3> QED BY <1>1, <3>1 DEF Entered
    <2>2. CASE Slot(t) = cslot[c]
      <3>1. data'[Slot(t)] = Null
        BY <1>1, <1>2, <2>2
      <3>2. Entered(t)' <=> Served(t) \/ t = r
        BY <1>1, <1>3, <3>1, NullIsNoItem DEF Entered
      <3>3. Entered(t) <=> Served(t) \/ t = r
        BY <1>1, <2>2, TicketOf DEF Entered, WInv
      <3> QED BY <3>2, <3>3
    <2> QED BY <2>1, <2>2
  <1> QED BY <1>1, <1>4 DEF SlotInOrder

LEMMA SlotInOrderStep ==
  ASSUME WInv, OnceInv, OnItsSlot, SlotInOrder, Undisturbed, [Next]_vars, Undisturbed'
  PROVE  SlotInOrder'
  <1> USE DEF OnceInv
  <1>1. ASSUME NEW p \in Producers, Push(p) PROVE SlotInOrder'
    <2>1. ASSUME NEW v \in Items, PushTicket(p, v) PROVE SlotInOrder'
      BY <2>1, OrderTicket
    <2>2. CASE PushStore(p)
      BY <2>2, OrderStore
    <2>3. CASE PushInc(p) \/ PushAdd(p) \/ PushCheck(p) \/ PushWake(p) \/ PushReturn(p)
      <3>1. UNCHANGED <<order, data, delivered>>
        BY <2>3 DEF PushInc, PushAdd, PushCheck, PushWake, PushReturn, slotVars, consVars
      <3> QED BY <3>1, OrderKept
    <2> QED BY <1>1, <2>1, <2>2, <2>3 DEF Push
  <1>2. ASSUME NEW c \in Consumers, PopStep(c) \/ PopInterrupted(c) PROVE SlotInOrder'
    <2>1. CASE PopTake(c)
      BY <2>1, OrderTake
    <2>2. CASE ~PopTake(c)
      <3>1. UNCHANGED <<order, data, delivered>>
        BY <1>2, <2>2 DEF PopStep, PopTicket, PopDec, PopEnter, PopWait, PopRetry, PopLeave,
                          PopCheck, PopWake, PopInterrupted, slotVars, prodVars
      <3> QED BY <3>1, OrderKept
    <2> QED BY <2>1, <2>2
  <1>3. CASE UNCHANGED vars
    <2>1. UNCHANGED <<order, data, delivered>>
      BY <1>3 DEF vars, slotVars, prodVars, consVars
    <2> QED BY <2>1, OrderKept
  <1> QED BY <1>1, <1>2, <1>3 DEF Next

\* The tickets of a slot below n.
LEMMA DrawnFacts ==
  ASSUME NEW s, NEW n \in Nat
  PROVE  /\ IsFiniteSet(Drawn(s, n)) /\ Cardinality(Drawn(s, n)) \in Nat
         /\ n \notin Drawn(s, n)
         /\ Drawn(s, n + 1) = IF Slot(n) = s THEN Drawn(s, n) \cup {n} ELSE Drawn(s, n)
  <1>1. Drawn(s, n) \subseteq 0..(n - 1) /\ IsFiniteSet(0..(n - 1))
    BY FS_Interval DEF Drawn
  <1>2. n \notin Drawn(s, n)
    BY DEF Drawn
  <1>3. 0..((n + 1) - 1) = 0..(n - 1) \cup {n}
    OBVIOUS
  <1>4. Drawn(s, n + 1) = IF Slot(n) = s THEN Drawn(s, n) \cup {n} ELSE Drawn(s, n)
    BY <1>3 DEF Drawn
  <1> QED BY <1>1, <1>2, <1>4, FS_Subset, FS_CardinalityType

LEMMA CountedFinite ==
  ASSUME TypeOK, NEW s
  PROVE  /\ IsFiniteSet(ServedOn(s)) /\ Cardinality(ServedOn(s)) \in Nat
         /\ IsFiniteSet(At(s)) /\ Cardinality(At(s)) \in Nat
         /\ IsFiniteSet(Drawn(s, pop_)) /\ Cardinality(Drawn(s, pop_)) \in Nat
  <1>1. ServedOn(s) \subseteq 0..(Len(order) - 1) /\ At(s) \subseteq Consumers
    BY DEF ServedOn, Tickets, At
  <1>2. Len(order) - 1 \in Int /\ pop_ \in Nat
    BY TicketFacts DEF TypeOK, SlotTypes
  <1>3. IsFiniteSet(0..(Len(order) - 1))
    BY <1>2, FS_Interval
  <1> QED BY <1>1, <1>2, <1>3, DrawnFacts, ThreadsFinite, FS_Subset, FS_CardinalityType

\* A step that serves nobody and moves no consumer in or out keeps the count.
LEMMA CountKept ==
  ASSUME PopsCounted, pop_' = pop_,
         \A s \in Slots : ServedOn(s)' = ServedOn(s) /\ At(s)' = At(s)
  PROVE  PopsCounted'
  <1>1. \A s \in Slots : Drawn(s, pop_)' = Drawn(s, pop_)
    BY DEF Drawn
  <1> QED BY <1>1 DEF PopsCounted

LEMMA ServedKept ==
  ASSUME UNCHANGED <<order, delivered>>, NEW s
  PROVE  ServedOn(s)' = ServedOn(s)
  BY DEF ServedOn, Served, Tickets, Delivered, Popped

\* A new ticket is not served yet.
LEMMA ServedTicket ==
  ASSUME TypeOK, OneTicket, AllBalanced, NEW p \in Producers, NEW v \in Items,
         PushTicket(p, v), NEW s
  PROVE  ServedOn(s)' = ServedOn(s)
  <1>1. PICK n \in Nat : n = Len(order)
    BY DEF TypeOK, HistoryTypes
  <1>2. /\ \A i \in DOMAIN order : order[i] # v
        /\ order' = Append(order, v) /\ delivered' = delivered
    BY DEF PushTicket, consVars
  <1>3. order \in Seq(Items)
    BY DEF TypeOK, HistoryTypes
  <1>4. Len(order') = n + 1 /\ order'[n + 1] = v /\ \A i \in 1..n : order'[i] = order[i]
    BY <1>1, <1>2, <1>3, AppendProperties
  <1>5. Tickets' = Tickets \cup {n} /\ \A t \in Tickets : order'[t + 1] = order[t + 1]
    BY <1>1, <1>4 DEF Tickets
  <1>6. Popped(v) = {}
    BY <1>2, Exclusive
  <1>7. ~Served(n)'
    BY <1>2, <1>4, <1>6 DEF Served, Delivered, Popped
  <1>8. \A t \in Tickets : Served(t)' <=> Served(t)
    BY <1>2, <1>5 DEF Served, Delivered, Popped
  <1>9. ServedOn(s)' = {t \in Tickets' : Slot(t) = s /\ Served(t)'}
    BY DEF ServedOn
  <1> QED BY <1>5, <1>7, <1>8, <1>9 DEF ServedOn

LEMMA CountPopTicket ==
  ASSUME TypeOK, PopsCounted, NEW c \in Consumers, PopTicket(c)
  PROVE  PopsCounted'
  <1>1. PICK n \in Nat : n = pop_
    BY DEF TypeOK, SlotTypes
  <1>2. /\ cpc[c] = "idle" /\ pop_' = n + 1
        /\ cslot' = [cslot EXCEPT ![c] = Slot(n)] /\ cpc' = [cpc EXCEPT ![c] = "dec"]
        /\ UNCHANGED <<order, delivered>>
    BY <1>1 DEF PopTicket, prodVars
  <1> SUFFICES ASSUME NEW s \in Slots
               PROVE  Cardinality(Drawn(s, n + 1))
                        = Cardinality(ServedOn(s)') + Cardinality(At(s)')
    BY <1>2 DEF PopsCounted
  <1>3. ServedOn(s)' = ServedOn(s)
    BY <1>2, ServedKept
  <1>4. Cardinality(Drawn(s, n)) = Cardinality(ServedOn(s)) + Cardinality(At(s))
    BY <1>1 DEF PopsCounted
  <1>5. CASE Slot(n) = s
    <2>1. At(s)' = At(s) \cup {c} /\ c \notin At(s)
      BY <1>2, <1>5 DEF At, TypeOK, ConsumerTypes
    <2>2. Cardinality(At(s)') = Cardinality(At(s)) + 1
      BY <2>1, CountedFinite, CountAdd
    <2>3. Cardinality(Drawn(s, n + 1)) = Cardinality(Drawn(s, n)) + 1
      BY <1>5, DrawnFacts, CountAdd
    <2> QED BY <1>3, <1>4, <2>2, <2>3, CountedFinite, DrawnFacts
  <1>6. CASE Slot(n) # s
    <2>1. At(s)' = At(s)
      BY <1>2, <1>6 DEF At, TypeOK, ConsumerTypes
    <2>2. Drawn(s, n + 1) = Drawn(s, n)
      BY <1>6, DrawnFacts
    <2> QED BY <1>3, <1>4, <2>1, <2>2
  <1> QED BY <1>5, <1>6

LEMMA CountTake ==
  ASSUME WInv, OneTicket, AllBalanced, OnItsSlot, PopsCounted,
         NEW c \in Consumers, PopTake(c)
  PROVE  PopsCounted'
  <1>1. PICK r \in Tickets :
           /\ Slot(r) = cslot[c] /\ data[cslot[c]] = order[r + 1] /\ ~Served(r)
           /\ Tickets' = Tickets /\ order' = order
           /\ data' = [data EXCEPT ![cslot[c]] = Null]
           /\ \A t \in Tickets : Served(t)' <=> Served(t) \/ t = r
    BY TakeFacts
  <1>2. pop_' = pop_ /\ cpc[c] = "take" /\ cpc' = [cpc EXCEPT ![c] = "idle"] /\ cslot' = cslot
    BY DEF PopTake
  <1> SUFFICES ASSUME NEW s \in Slots
               PROVE  Cardinality(Drawn(s, pop_))
                        = Cardinality(ServedOn(s)') + Cardinality(At(s)')
    BY <1>2 DEF PopsCounted
  <1>3. Cardinality(Drawn(s, pop_)) = Cardinality(ServedOn(s)) + Cardinality(At(s))
    BY DEF PopsCounted
  <1>4. ServedOn(s)' = {t \in Tickets : Slot(t) = s /\ Served(t)'}
    BY <1>1 DEF ServedOn
  <1>5. CASE cslot[c] = s
    <2>1. At(s)' = At(s) \ {c} /\ c \in At(s)
      BY <1>2, <1>5 DEF At, WInv, TypeOK, ConsumerTypes
    <2>2. ServedOn(s)' = ServedOn(s) \cup {r} /\ r \notin ServedOn(s)
      BY <1>1, <1>4, <1>5 DEF ServedOn
    <2>3. Cardinality(At(s)') = Cardinality(At(s)) - 1
      BY <2>1, CountedFinite, CountRemove DEF WInv
    <2>4. Cardinality(ServedOn(s)') = Cardinality(ServedOn(s)) + 1
      BY <2>2, CountedFinite, CountAdd DEF WInv
    <2> QED BY <1>3, <2>3, <2>4, CountedFinite DEF WInv
  <1>6. CASE cslot[c] # s
    <2>1. At(s)' = At(s)
      BY <1>2, <1>6 DEF At, WInv, TypeOK, ConsumerTypes
    <2>2. ServedOn(s)' = ServedOn(s)
      BY <1>1, <1>4, <1>6 DEF ServedOn
    <2> QED BY <1>3, <2>1, <2>2
  <1> QED BY <1>5, <1>6

LEMMA PopsCountedStep ==
  ASSUME WInv, OnceInv, OnItsSlot, OneUnit, PopsCounted, [Next]_vars
  PROVE  PopsCounted'
  <1> USE DEF OnceInv, WInv
  <1>1. ASSUME NEW p \in Producers, Push(p) PROVE PopsCounted'
    <2>1. \A s \in Slots : ServedOn(s)' = ServedOn(s)
      <3>1. ASSUME NEW v \in Items, PushTicket(p, v)
            PROVE  \A s \in Slots : ServedOn(s)' = ServedOn(s)
        BY <3>1, ServedTicket
      <3>2. CASE \/ PushStore(p) \/ PushInc(p) \/ PushAdd(p)
                 \/ PushCheck(p) \/ PushWake(p) \/ PushReturn(p)
        <4>1. UNCHANGED <<order, delivered>>
          BY <3>2 DEF PushInc, PushAdd, PushStore, PushCheck, PushWake, PushReturn, consVars
        <4> QED BY <4>1, ServedKept
      <3> QED BY <1>1, <3>1, <3>2 DEF Push
    <2>2. \A s \in Slots : At(s)' = At(s)
      <3>1. CASE PushWake(p)
        BY <3>1 DEF PushWake, WakeAll, At, TypeOK, ConsumerTypes
      <3>2. CASE ~PushWake(p)
        <4>1. cpc' = cpc /\ cslot' = cslot
          BY <1>1, <3>2 DEF Push, PushTicket, PushInc, PushAdd, PushStore, PushCheck,
                            PushReturn, consVars
        <4> QED BY <4>1 DEF At
      <3> QED BY <3>1, <3>2
    <2>3. pop_' = pop_
      BY <1>1 DEF Push, PushTicket, PushInc, PushAdd, PushStore, PushCheck, PushWake,
                  PushReturn, consVars
    <2> QED BY <2>1, <2>2, <2>3, CountKept
  <1>2. ASSUME NEW c \in Consumers, PopStep(c) \/ PopInterrupted(c) PROVE PopsCounted'
    <2>1. CASE PopTicket(c)
      BY <2>1, CountPopTicket
    <2>2. CASE PopTake(c)
      BY <2>2, CountTake
    <2>3. CASE ~PopTicket(c) /\ ~PopTake(c)
      <3>1. UNCHANGED <<order, delivered, pop_, cslot>>
        BY <1>2, <2>3 DEF PopStep, PopDec, PopEnter, PopWait, PopRetry,
                          PopLeave, PopCheck, PopWake, PopInterrupted, slotVars, prodVars
      <3>2. \A d \in Consumers : cpc'[d] = "idle" <=> cpc[d] = "idle"
        <4>1. AfterWake(c) = "take" \/ ~(PopCheck(c) \/ PopWake(c))
          BY DEF AfterWake, OneUnit, PopCheck, PopWake
        <4>2. CASE PopCheck(c) \/ PopWake(c)
          BY <4>1, <4>2 DEF PopCheck, PopWake, TypeOK, ConsumerTypes
        <4>3. CASE ~PopCheck(c) /\ ~PopWake(c)
          BY <1>2, <2>3, <4>3 DEF PopStep, PopDec, PopEnter, PopWait, PopRetry, Decrement,
                PopLeave, PopInterrupted, TypeOK, ConsumerTypes
        <4> QED BY <4>2, <4>3
      <3>3. \A s \in Slots : ServedOn(s)' = ServedOn(s)
        BY <3>1, ServedKept
      <3>4. \A s \in Slots : At(s)' = At(s)
        BY <3>1, <3>2 DEF At
      <3> QED BY <3>1, <3>3, <3>4, CountKept
    <2> QED BY <2>1, <2>2, <2>3
  <1>3. CASE UNCHANGED vars
    <2>1. UNCHANGED <<order, delivered, pop_, cslot, cpc>>
      BY <1>3 DEF vars, slotVars, prodVars, consVars
    <2>2. \A s \in Slots : ServedOn(s)' = ServedOn(s)
      BY <2>1, ServedKept
    <2>3. \A s \in Slots : At(s)' = At(s)
      BY <2>1 DEF At
    <2> QED BY <2>1, <2>2, <2>3, CountKept
  <1> QED BY <1>1, <1>2, <1>3 DEF Next

\* A ticket counts for its slot.
LEMMA DrawnGrows ==
  ASSUME NEW t \in Nat
  PROVE  Cardinality(Drawn(Slot(t), t + 1)) = Cardinality(Drawn(Slot(t), t)) + 1
  <1> DEFINE s == Slot(t)
  <1>1. Drawn(s, t + 1) = Drawn(s, t) \cup {t} /\ t \notin Drawn(s, t)
    BY DrawnFacts
  <1>2. IsFiniteSet(Drawn(s, t))
    BY DrawnFacts
  <1> HIDE DEF s
  <1>3. Cardinality(Drawn(s, t + 1)) = Cardinality(Drawn(s, t)) + 1
    BY <1>1, <1>2, CountAdd
  <1> QED BY <1>3 DEF s

\* What the counts of pops and the order within a slot say of two items of any slots:
\* who overtook has been popped, so the ticket of the one overtaken was drawn.
LEMMA OvertakenIsWaitedFor ==
  ASSUME TypeOK, SlotInOrder, PopsCounted, NEW t \in Tickets, NEW u \in Tickets,
         t < u, Served(u), ~Served(t)
  PROVE  At(Slot(t)) # {}
  <1> DEFINE s == Slot(t)
             z == Slot(u)
  <1>1. t \in Nat /\ u \in Nat /\ s \in Slots /\ z \in Slots /\ pop_ \in Nat
    BY TicketFacts DEF TypeOK, SlotTypes
  <1> HIDE DEF s, z
  <1>2. u < pop_
    <2>1. Drawn(z, u + 1) \subseteq ServedOn(z)
      <3>1. ASSUME NEW x \in 0..u, Slot(x) = z PROVE x \in Tickets /\ Served(x)
        <4>1. x \in Tickets
          BY <1>1 DEF Tickets
        <4>2. x = u \/ x < u
          BY <1>1
        <4> QED BY <3>1, <4>1, <4>2 DEF SlotInOrder, Entered, z
      <3>2. 0..((u + 1) - 1) = 0..u
        BY <1>1
      <3> QED BY <3>1, <3>2 DEF Drawn, ServedOn
    <2>2. Cardinality(Drawn(z, u + 1)) <= Cardinality(ServedOn(z))
      BY <2>1, CountedFinite, FS_Subset
    <2>3. Cardinality(Drawn(z, u + 1)) = Cardinality(Drawn(z, u)) + 1
      BY <1>1, DrawnGrows DEF z
    <2>4. Cardinality(Drawn(z, pop_)) = Cardinality(ServedOn(z)) + Cardinality(At(z))
      BY <1>1 DEF PopsCounted
    <2> SUFFICES ASSUME pop_ <= u PROVE FALSE
      BY <1>1
    <2>5. Drawn(z, pop_) \subseteq Drawn(z, u)
      BY <1>1 DEF Drawn
    <2>6. Cardinality(Drawn(z, pop_)) <= Cardinality(Drawn(z, u))
      BY <1>1, <2>5, DrawnFacts, FS_Subset
    <2>7. /\ Cardinality(ServedOn(z)) \in Nat /\ Cardinality(At(z)) \in Nat
          /\ Cardinality(Drawn(z, u)) \in Nat
      BY <1>1, CountedFinite, DrawnFacts
    <2> QED BY <2>2, <2>3, <2>4, <2>6, <2>7
  <1>3. ServedOn(s) \subseteq Drawn(s, t)
    <2> SUFFICES ASSUME NEW x \in Tickets, Slot(x) = s, Served(x) PROVE x \in 0..(t - 1)
      BY DEF ServedOn, Drawn
    <2>1. x \in Nat /\ x # t
      BY TicketFacts
    <2>2. ~(t < x)
      BY DEF SlotInOrder, Entered, s
    <2> QED BY <1>1, <2>1, <2>2
  <1>4. Cardinality(ServedOn(s)) <= Cardinality(Drawn(s, t))
    BY <1>1, <1>3, DrawnFacts, FS_Subset
  <1>5. Cardinality(Drawn(s, t + 1)) = Cardinality(Drawn(s, t)) + 1
    BY <1>1, DrawnGrows DEF s
  <1>6. Drawn(s, t + 1) \subseteq Drawn(s, pop_)
    BY <1>1, <1>2 DEF Drawn
  <1>7. Cardinality(Drawn(s, t + 1)) <= Cardinality(Drawn(s, pop_))
    BY <1>6, CountedFinite, FS_Subset
  <1>8. Cardinality(Drawn(s, pop_)) = Cardinality(ServedOn(s)) + Cardinality(At(s))
    BY <1>1 DEF PopsCounted
  <1>9. /\ Cardinality(ServedOn(s)) \in Nat /\ Cardinality(At(s)) \in Nat
        /\ Cardinality(Drawn(s, t)) \in Nat
    BY <1>1, CountedFinite, DrawnFacts
  <1>10. Cardinality(At(s)) # 0
    BY <1>4, <1>5, <1>7, <1>8, <1>9
  <1> QED BY <1>10, FS_EmptySet DEF s

LEMMA FifoInvHolds == WInv /\ FifoInv => FifoUntilDisturbed
  <1> SUFFICES ASSUME WInv, FifoInv, Undisturbed,
                      NEW i \in DOMAIN order, NEW j \in DOMAIN order, i < j,
                      Delivered(order[j]), ~Delivered(order[i])
               PROVE  \E c \in Consumers : cpc[c] # "idle" /\ cslot[c] = Slot(i - 1)
    BY DEF FifoUntilDisturbed, Undisturbed
  <1>1. /\ i - 1 \in Tickets /\ (i - 1) + 1 = i /\ j - 1 \in Tickets /\ (j - 1) + 1 = j
        /\ i \in Nat /\ j \in Nat
    BY TicketFacts DEF WInv
  <1>2. i - 1 < j - 1
    BY <1>1
  <1>3. Served(j - 1) /\ ~Served(i - 1)
    BY <1>1 DEF Served
  <1>4. At(Slot(i - 1)) # {}
    BY <1>1, <1>2, <1>3, OvertakenIsWaitedFor DEF WInv, FifoInv
  <1> QED BY <1>4 DEF At

LEMMA FifoInvInit == Init => FifoInv
  <1> SUFFICES ASSUME Init PROVE FifoInv
    OBVIOUS
  <1>1. Len(order) = 0
    BY EmptySeq DEF Init
  <1>2. Tickets = {}
    BY <1>1 DEF Tickets
  <1>3. OnItsSlot
    BY <1>1 DEF Init, OnItsSlot, Unfilled
  <1>4. OneUnit
    BY DEF Init, OneUnit
  <1>5. SlotInOrder
    BY <1>2 DEF SlotInOrder
  <1>6. PopsCounted
    <2> SUFFICES ASSUME NEW s \in Slots
                 PROVE  Cardinality(Drawn(s, 0)) = Cardinality(ServedOn(s)) + Cardinality(At(s))
      BY DEF Init, PopsCounted
    <2>1. ServedOn(s) = {} /\ At(s) = {}
      BY <1>2 DEF ServedOn, At, Init
    <2>2. Drawn(s, 0) = {}
      BY DEF Drawn
    <2> QED BY <2>1, <2>2, FS_EmptySet
  <1> QED BY <1>3, <1>4, <1>5, <1>6 DEF FifoInv

LEMMA FifoInvStep == WInv /\ OnceInv /\ FifoInv /\ [Next]_vars => FifoInv'
  <1> SUFFICES ASSUME WInv, OnceInv, FifoInv, [Next]_vars PROVE FifoInv'
    OBVIOUS
  <1>1. OnItsSlot'
    BY OnItsSlotStep DEF FifoInv
  <1>2. ASSUME Undisturbed' PROVE (OneUnit /\ SlotInOrder /\ PopsCounted)'
    <2>1. Undisturbed
      BY <1>2, UndisturbedBefore DEF WInv
    <2>2. OneUnit' /\ SlotInOrder' /\ PopsCounted'
      BY <1>2, <2>1, OneUnitStep, SlotInOrderStep, PopsCountedStep DEF FifoInv, Undisturbed
    <2> QED BY <2>2
  <1> QED BY <1>1, <1>2 DEF FifoInv

\* FifoUntilDisturbed holds in every reachable state: until an overflow or a lapped
\* producer, an item is overtaken only while a consumer is still at its slot, however
\* often the ring wraps.
THEOREM OrderKeptUntilDisturbed == Spec => []FifoUntilDisturbed
  <1>1. WInv /\ [Next]_vars => WInv'
    BY WInvPush, WInvPop, WInvStutter DEF Next
  <1> QED
    BY WInvInit, <1>1, OnceInvInit, OnceInvStep, FifoInvInit, FifoInvStep, FifoInvHolds,
       PTL DEF Spec

-----------------------------------------------------------------------------
(* The ring.  With one producer and one consumer every step of LFQueue is one of     *)
(* RingQueue's or none.  The counters decide which: RingInv says that a slot's       *)
(* counter is the number of its tickets that wait, and tickets of one slot lie Size  *)
(* apart, so that a counter of 0 or 1 tells how many tickets wait in all.            *)

\* A ticket is its slot and a number of whole rings.
LEMMA Division ==
  ASSUME NEW t \in Nat
  PROVE  \E q \in Nat : t = Size * q + Slot(t)
  <1> DEFINE P(n) == \E q \in Nat, r \in Slots : n = Size * q + r
             S == {n \in Nat : P(n)}
  <1>1. 0 \in S
    <2>1. 0 = Size * 0 + 0 /\ 0 \in Slots
      BY SizePositive DEF Slots
    <2> QED BY <2>1
  <1>2. ASSUME NEW n \in S PROVE n + 1 \in S
    <2>1. PICK q \in Nat, r \in Slots : n = Size * q + r
      OBVIOUS
    <2>2. CASE r + 1 \in Slots
      <3>1. n + 1 = Size * q + (r + 1)
        BY <2>1, SizePositive DEF Slots
      <3> QED BY <2>2, <3>1
    <2>3. CASE r + 1 \notin Slots
      <3>1. r + 1 = Size /\ 0 \in Slots
        BY <2>3, SizePositive DEF Slots
      <3>2. Size \in Nat /\ Size * q \in Nat /\ Size * (q + 1) = Size * q + Size
        BY SizePositive
      <3> DEFINE product == Size * q
      <3> HIDE DEF product
      <3>3. n = product + r /\ product \in Nat
        BY <2>1, <3>2 DEF product
      <3>4. n + 1 = (product + Size) + 0
        BY <3>1, <3>2, <3>3 DEF Slots
      <3>5. n + 1 = Size * (q + 1) + 0
        BY <3>2, <3>4 DEF product
      <3> QED BY <3>1, <3>5
    <2> QED BY <2>2, <2>3
  <1> HIDE DEF S
  <1>3. t \in S
    BY <1>1, <1>2, NatSet
  <1>4. PICK q \in Nat, r \in Slots : t = Size * q + r
    BY <1>3 DEF S
  <1>5. t % Size = r
    BY <1>4, SizePositive DEF Slots
  <1> QED BY <1>4, <1>5 DEF Slot

\* Two tickets of one slot are a whole ring apart.
LEMMA RingApart ==
  ASSUME NEW t \in Nat, NEW u \in Nat, t < u, Slot(t) = Slot(u)
  PROVE  u >= t + Size
  <1>1. PICK a \in Nat : t = Size * a + Slot(t)
    BY Division
  <1>2. PICK b \in Nat : u = Size * b + Slot(t)
    BY Division
  <1>3. Slot(t) \in Nat /\ Size \in Nat
    BY SlotIsSlot, SizePositive DEF Slots
  <1>4. Size * b > Size * a
    BY <1>1, <1>2, <1>3
  <1>5. b - a \in Nat /\ b - a >= 1
    <2>1. ASSUME b <= a PROVE FALSE
      <3>1. Size * b <= Size * a
        BY <1>3, <2>1
      <3> QED BY <1>3, <1>4, <3>1
    <2> QED BY <2>1
  <1>6. Size * (b - a) >= Size
    BY <1>3, <1>5
  <1>7. Size * (b - a) = Size * b - Size * a
    BY <1>3
  <1> QED BY <1>1, <1>2, <1>3, <1>6, <1>7

LEMMA RingRound ==
  ASSUME NEW t \in Nat
  PROVE  Slot(t + Size) = Slot(t)
  <1>1. PICK q \in Nat : t = Size * q + Slot(t)
    BY Division
  <1>2. Slot(t) \in 0..(Size - 1)
    BY SlotIsSlot DEF Slots
  <1> DEFINE r == Slot(t)
             u == t + Size
  <1>3. u = Size * (q + 1) + r /\ u \in Nat /\ r \in 0..(Size - 1)
    BY <1>1, <1>2, SizePositive
  <1> HIDE DEF r, u
  <1>4. u % Size = r
    BY <1>3, SizePositive
  <1> QED BY <1>4 DEF u, r, Slot

\* The tickets that wait: pushes that took effect and whose pop did not.
Window(s) == {t \in FirstTicket .. (NextTicket - 1) : Slot(t) = s}

AheadPC == {"dec", "enter", "wait", "sleep", "retry"}
TakePC == {"leave", "check", "wake", "take"}

\* A slot's counter counts the tickets that wait for it, and the two threads are at
\* the slots of the next tickets.
RingInv ==
  /\ FirstTicket \in Nat /\ NextTicket \in Nat /\ FirstTicket <= NextTicket
  /\ \A s \in Slots : val[s] = Cardinality(Window(s))
  /\ \A p \in Producers : ppc[p] \in {"inc", "add"} => pslot[p] = Slot(NextTicket)
  /\ \A c \in Consumers : cpc[c] \in AheadPC => cslot[c] = Slot(FirstTicket)

\* The one producer is p, the one consumer c.
Alone(p, c) == Producers = {p} /\ Consumers = {c}

LEMMA TwoThreads == OneOfEach => \E p, c : Alone(p, c)
  <1> SUFFICES ASSUME OneOfEach PROVE \E p, c : Alone(p, c)
    OBVIOUS
  <1>1. PICK p : Producers = {p}
    BY ThreadsFinite, FS_Singleton DEF OneOfEach
  <1>2. PICK c : Consumers = {c}
    BY ThreadsFinite, FS_Singleton DEF OneOfEach
  <1> QED BY <1>1, <1>2 DEF Alone

\* What the counts and the choices over threads come to.
LEMMA ProducerAlone ==
  ASSUME NEW p, NEW c, Alone(p, c)
  PROVE  /\ PushesAhead = IF ppc[p] \in {"inc", "add"} THEN 1 ELSE 0
         /\ PushesAhead' = IF ppc'[p] \in {"inc", "add"} THEN 1 ELSE 0
         /\ \A s : Holds(s) = IF ppc[p] = "cas" /\ pslot[p] = s THEN pitem[p] ELSE data[s]
         /\ \A s : Holds(s)' = IF ppc'[p] = "cas" /\ pslot'[p] = s THEN pitem'[p] ELSE data'[s]
  <1>1. Producers = {p}
    BY DEF Alone
  <1>2. /\ {q \in Producers : ppc[q] \in {"inc", "add"}}
             = IF ppc[p] \in {"inc", "add"} THEN {p} ELSE {}
        /\ {q \in Producers : ppc'[q] \in {"inc", "add"}}
             = IF ppc'[p] \in {"inc", "add"} THEN {p} ELSE {}
    BY <1>1
  <1>3. /\ \A s : Committing(s) = IF ppc[p] = "cas" /\ pslot[p] = s THEN {p} ELSE {}
        /\ \A s : Committing(s)' = IF ppc'[p] = "cas" /\ pslot'[p] = s THEN {p} ELSE {}
    BY <1>1 DEF Committing
  <1>4. (CHOOSE q \in {p} : TRUE) = p
    OBVIOUS
  <1>5. Cardinality({p}) = 1 /\ Cardinality({}) = 0
    BY FS_Singleton, FS_EmptySet
  <1>6. /\ PushesAhead = IF ppc[p] \in {"inc", "add"} THEN 1 ELSE 0
        /\ PushesAhead' = IF ppc'[p] \in {"inc", "add"} THEN 1 ELSE 0
    BY <1>2, <1>5 DEF PushesAhead
  <1>7. \A s : Holds(s) = IF ppc[p] = "cas" /\ pslot[p] = s THEN pitem[p] ELSE data[s]
    BY <1>3, <1>4 DEF Holds
  <1>8. \A s : Holds(s)' = IF ppc'[p] = "cas" /\ pslot'[p] = s THEN pitem'[p] ELSE data'[s]
    BY <1>3, <1>4 DEF Holds
  <1> QED BY <1>6, <1>7, <1>8

Takes(c) == cgot[c] = 1 /\ cpc[c] \in TakePC

LEMMA ConsumerAlone ==
  ASSUME NEW p, NEW c, Alone(p, c)
  PROVE  /\ PopsAhead = IF cpc[c] \in AheadPC THEN 1 ELSE 0
         /\ PopsAhead' = IF cpc'[c] \in AheadPC THEN 1 ELSE 0
         /\ Taken = IF Takes(c) THEN <<Promised(cslot[c])>> ELSE <<>>
         /\ Taken' = IF Takes(c)' THEN <<Promised(cslot[c])'>> ELSE <<>>
  <1>1. Consumers = {c}
    BY DEF Alone
  <1>2. /\ {d \in Consumers : cpc[d] \in {"dec", "enter", "wait", "sleep", "retry"}}
             = IF cpc[c] \in AheadPC THEN {c} ELSE {}
        /\ {d \in Consumers : cpc'[d] \in {"dec", "enter", "wait", "sleep", "retry"}}
             = IF cpc'[c] \in AheadPC THEN {c} ELSE {}
    BY <1>1 DEF AheadPC
  <1>3. /\ {d \in Consumers : d \in Taking(cslot[d])} = IF Takes(c) THEN {c} ELSE {}
        /\ {d \in Consumers : d \in Taking(cslot[d])}' = IF Takes(c)' THEN {c} ELSE {}
    BY <1>1 DEF Taking, Takes, TakePC
  <1>4. (CHOOSE d \in {c} : TRUE) = c
    OBVIOUS
  <1>5. Cardinality({c}) = 1 /\ Cardinality({}) = 0
    BY FS_Singleton, FS_EmptySet
  <1>6. /\ PopsAhead = IF cpc[c] \in AheadPC THEN 1 ELSE 0
        /\ PopsAhead' = IF cpc'[c] \in AheadPC THEN 1 ELSE 0
    BY <1>2, <1>5 DEF PopsAhead
  <1>7. Taken = IF Takes(c) THEN <<Promised(cslot[c])>> ELSE <<>>
    BY <1>3, <1>4 DEF Taken
  <1>8. Taken' = IF Takes(c)' THEN <<Promised(cslot[c])'>> ELSE <<>>
    BY <1>3, <1>4 DEF Taken
  <1> QED BY <1>6, <1>7, <1>8

\* The waiting tickets of a slot, counted.
LEMMA WindowFinite ==
  ASSUME RingInv, NEW s
  PROVE  IsFiniteSet(Window(s)) /\ Cardinality(Window(s)) \in Nat
  <1>1. FirstTicket \in Int /\ NextTicket - 1 \in Int
    BY DEF RingInv
  <1>2. IsFiniteSet(FirstTicket .. (NextTicket - 1))
    BY <1>1, FS_Interval
  <1>3. Window(s) \subseteq FirstTicket .. (NextTicket - 1)
    BY DEF Window
  <1> QED BY <1>2, <1>3, FS_Subset, FS_CardinalityType

\* A full slot for the next push means a full ring.
LEMMA SlotFull ==
  ASSUME RingInv
  PROVE  val[Slot(NextTicket)] = 0 <=> NextTicket - FirstTicket < Size
  <1> DEFINE a == NextTicket
             f == FirstTicket
             s == Slot(a)
  <1>1. a \in Nat /\ f \in Nat /\ f <= a /\ s \in Slots /\ Size \in Nat
    BY SlotIsSlot, SizePositive DEF RingInv
  <1>2. val[s] = Cardinality(Window(s)) /\ (val[s] = 0 <=> Window(s) = {})
    BY <1>1, WindowFinite, FS_EmptySet DEF RingInv
  <1>3. ASSUME a - f >= Size PROVE Window(s) # {}
    <2>1. a - Size \in Nat /\ f <= a - Size /\ a - Size <= a - 1 /\ (a - Size) + Size = a
      BY <1>1, <1>3, SizePositive
    <2>2. Slot(a - Size) = s
      BY <2>1, RingRound
    <2> QED BY <1>1, <2>1, <2>2 DEF Window
  <1>4. ASSUME NEW t \in Window(s) PROVE a - f >= Size
    <2>1. t \in Nat /\ f <= t /\ t < a /\ Slot(t) = Slot(a)
      BY <1>1 DEF Window
    <2>2. a >= t + Size
      BY <1>1, <2>1, RingApart
    <2> QED BY <1>1, <2>1, <2>2
  <1> HIDE DEF a, f, s
  <1>5. val[s] = 0 <=> a - f < Size
    BY <1>1, <1>2, <1>3, <1>4
  <1> QED BY <1>5 DEF a, f, s

\* The counter of the slot to be popped next tells whether its first ticket is its
\* last one.
LEMMA FirstIsLast ==
  ASSUME RingInv, val[Slot(FirstTicket)] > 0
  PROVE  /\ FirstTicket < NextTicket
         /\ val[Slot(FirstTicket)] = 1 <=> ~(FirstTicket + Size < NextTicket)
  <1> DEFINE a == NextTicket
             f == FirstTicket
             s == Slot(f)
  <1>1. a \in Nat /\ f \in Nat /\ f <= a /\ s \in Slots /\ Size \in Nat /\ Size > 0
    BY SlotIsSlot, SizePositive DEF RingInv
  <1>2. val[s] = Cardinality(Window(s)) /\ IsFiniteSet(Window(s))
    BY <1>1, WindowFinite DEF RingInv
  <1>3. \A t \in Window(s) : t \in Nat /\ f <= t /\ t < a /\ Slot(t) = s
    BY <1>1 DEF Window
  <1>4. Window(s) # {}
    BY <1>2, FS_EmptySet
  <1>5. f < a /\ f \in Window(s)
    BY <1>1, <1>3, <1>4 DEF Window
  <1>6. val[s] = 1 <=> Window(s) = {f}
    BY <1>2, <1>5, FS_Singleton
  <1>7. ASSUME f + Size < a PROVE Window(s) # {f}
    <2>1. f + Size \in f .. (a - 1) /\ f + Size # f /\ Slot(f + Size) = s
      BY <1>1, <1>7, RingRound
    <2>2. f + Size \in Window(s)
      BY <2>1 DEF Window
    <2> QED BY <2>1, <2>2
  <1>8. ASSUME Window(s) # {f} PROVE f + Size < a
    <2>1. PICK t \in Window(s) : t # f
      BY <1>5, <1>8
    <2>2. t \in Nat /\ f < t /\ t < a /\ Slot(f) = Slot(t)
      BY <1>1, <1>3, <2>1
    <2>3. t >= f + Size
      BY <1>1, <2>2, RingApart
    <2> QED BY <1>1, <2>2, <2>3
  <1> HIDE DEF a, f, s
  <1>9. val[s] = 1 <=> ~(f + Size < a)
    BY <1>6, <1>7, <1>8
  <1>10. f < a
    BY <1>5
  <1> QED BY <1>9, <1>10 DEF a, f, s

\* The tickets that wait, with what a pop will find.
QueueIs ==
  /\ WaitingTickets \in Seq(Items \cup {Null})
  /\ Len(WaitingTickets) = NextTicket - FirstTicket
  /\ \A i \in 1 .. (NextTicket - FirstTicket) :
       WaitingTickets[i] = Waits(FirstTicket + i - 1)

LEMMA QueueFacts == TypeOK /\ RingInv /\ OneOfEach => QueueIs
  <1> SUFFICES ASSUME TypeOK, RingInv, OneOfEach PROVE QueueIs
    OBVIOUS
  <1>a. PICK p, c : Alone(p, c)
    BY TwoThreads
  <1>1. \A s \in Slots : Holds(s) \in Items \cup {Null}
    <2>1. pitem[p] \in Items \cup {Null}
      BY <1>a DEF Alone, TypeOK, ProducerTypes
    <2> QED BY <1>a, <2>1, ProducerAlone DEF TypeOK, SlotTypes
  <1>2. \A t \in Nat : Waits(t) \in Items \cup {Null}
    BY <1>1, SlotIsSlot DEF Waits
  <1> DEFINE n == NextTicket - FirstTicket
  <1>3. n \in Nat /\ FirstTicket \in Nat
    BY DEF RingInv
  <1>4. \A i \in 1 .. n : FirstTicket + i - 1 \in Nat
    BY <1>3
  <1>5. WaitingTickets = [i \in 1 .. n |-> Waits(FirstTicket + i - 1)]
    BY DEF WaitingTickets
  <1> HIDE DEF n
  <1>6. WaitingTickets \in [1 .. n -> Items \cup {Null}]
    BY <1>2, <1>4, <1>5
  <1>7. WaitingTickets \in Seq(Items \cup {Null}) /\ Len(WaitingTickets) = n
    BY <1>3, <1>6
  <1>8. \A i \in 1 .. n : WaitingTickets[i] = Waits(FirstTicket + i - 1)
    BY <1>5
  <1> QED BY <1>7, <1>8 DEF n, QueueIs

LEMMA QueueFactsAfter == (TypeOK /\ RingInv /\ OneOfEach => QueueIs)'
  BY QueueFacts, PTL

LEMMA AloneIsOne == \A p, c : Alone(p, c) => OneOfEach
  BY FS_Singleton DEF Alone, OneOfEach

View == <<WaitingTickets, delivered \o Taken, nulls, dropped>>

\* A step that draws no ticket into effect keeps the invariant ...
LEMMA StillInv ==
  ASSUME RingInv, NEW p, NEW c, Alone(p, c),
         UNCHANGED <<FirstTicket, NextTicket, val>>,
         ppc'[p] \in {"inc", "add"} => pslot'[p] = Slot(NextTicket),
         cpc'[c] \in AheadPC => cslot'[c] = Slot(FirstTicket)
  PROVE  RingInv'
  <1>1. \A s : Window(s)' = Window(s)
    BY DEF Window
  <1> QED BY <1>1 DEF RingInv, Alone

\* ... and what the ring holds.
LEMMA StillView ==
  ASSUME RingInv, UNCHANGED <<FirstTicket, NextTicket>>,
         \A t \in FirstTicket .. (NextTicket - 1) :
           t + Size < NextTicket \/ Holds(Slot(t))' = Holds(Slot(t))
  PROVE  WaitingTickets' = WaitingTickets
  <1> DEFINE f == FirstTicket
             a == NextTicket
  <1>1. f \in Nat /\ a \in Nat
    BY DEF RingInv
  <1>2. ASSUME NEW t \in f .. (a - 1) PROVE Waits(t)' = Waits(t)
    BY <1>2 DEF Waits
  <1>3. \A i \in 1 .. (a - f) : f + i - 1 \in f .. (a - 1)
    BY <1>1
  <1>4. \A i \in 1 .. (a - f) : Waits(f + i - 1)' = Waits(f + i - 1)
    BY <1>2, <1>3
  <1>5. WaitingTickets = [i \in 1 .. (a - f) |-> Waits(f + i - 1)]
    BY DEF WaitingTickets
  <1>6. WaitingTickets' = [i \in 1 .. (a - f) |-> Waits(f + i - 1)']
    BY DEF WaitingTickets, Waits
  <1> QED BY <1>4, <1>5, <1>6

\* A step that is none of the ring's.
Still(p, c) ==
  /\ UNCHANGED <<FirstTicket, NextTicket, val, Taken, delivered, nulls, dropped>>
  /\ ppc'[p] \in {"inc", "add"} => pslot'[p] = Slot(NextTicket)
  /\ cpc'[c] \in AheadPC => cslot'[c] = Slot(FirstTicket)
  /\ \A s \in Slots : Holds(s)' = Holds(s)

LEMMA StillStep ==
  ASSUME RingInv, NEW p, NEW c, Alone(p, c), Still(p, c)
  PROVE  RingInv' /\ View' = View
  <1>1. RingInv'
    BY StillInv DEF Still
  <1>2. \A t \in FirstTicket .. (NextTicket - 1) : Slot(t) \in Slots
    BY SlotIsSlot DEF RingInv
  <1>3. WaitingTickets' = WaitingTickets
    BY <1>2, StillView DEF Still
  <1> QED BY <1>1, <1>3 DEF View, Still

\* The types of what the two threads have.
ThreadTypes(p, c) ==
  /\ p \in Producers /\ c \in Consumers
  /\ ppc \in [Producers -> PushPC] /\ pslot \in [Producers -> Slots]
  /\ pitem \in [Producers -> Items \cup {Null}]
  /\ cpc \in [Consumers -> PopPC] /\ cslot \in [Consumers -> Slots]
  /\ cgot \in [Consumers -> Nat]
  /\ val \in [Slots -> Nat] /\ data \in [Slots -> Items \cup {Null}]
  /\ push_ \in Nat /\ pop_ \in Nat
  /\ PushesAhead \in {0, 1} /\ PopsAhead \in {0, 1}

LEMMA TypesAlone ==
  ASSUME TypeOK, NEW p, NEW c, Alone(p, c)
  PROVE  ThreadTypes(p, c)
  BY ProducerAlone, ConsumerAlone
     DEF Alone, TypeOK, SlotTypes, ProducerTypes, ConsumerTypes, ThreadTypes

\* The consumer's account does not change with its slot, its progress to and from
\* the promise of an item, and what is promised.
LEMMA TakenSame ==
  ASSUME NEW p, NEW c, Alone(p, c), Takes(c)' <=> Takes(c),
         Takes(c) => Promised(cslot[c])' = Promised(cslot[c])
  PROVE  Taken' = Taken
  BY ConsumerAlone

LEMMA PromisedSame ==
  ASSUME NEW s, data'[s] = data[s], Holds(s)' = Holds(s)
  PROVE  Promised(s)' = Promised(s)
  BY DEF Promised

\* A step of the producer that leaves the consumer where it is, or wakes it.
LEMMA ConsumerStays ==
  ASSUME NEW p, NEW c, Alone(p, c), ThreadTypes(p, c), RingInv,
         UNCHANGED <<pop_, cslot, cgot>>,
         cpc'[c] = cpc[c] \/ (cpc[c] = "sleep" /\ cpc'[c] = "retry")
  PROVE  /\ UNCHANGED FirstTicket
         /\ cpc'[c] \in AheadPC => cslot'[c] = Slot(FirstTicket)
         /\ Takes(c)' <=> Takes(c)
  <1>1. cpc'[c] \in AheadPC <=> cpc[c] \in AheadPC
    BY DEF AheadPC
  <1>2. PopsAhead' = PopsAhead
    BY <1>1, ConsumerAlone
  <1>3. UNCHANGED FirstTicket
    BY <1>2 DEF FirstTicket
  <1>4. cpc'[c] \in TakePC <=> cpc[c] \in TakePC
    BY DEF TakePC
  <1> QED BY <1>1, <1>3, <1>4 DEF RingInv, Alone, Takes

\* What the producer does outside the two instructions that count a push.
LEMMA ProducerStutters ==
  ASSUME TypeOK, RingInv, NEW p, NEW c, Alone(p, c),
         \/ \E v \in Items : PushTicket(p, v)
         \/ PushInc(p) /\ val[pslot[p]] # 0
         \/ PushStore(p) \/ PushCheck(p) \/ PushWake(p) \/ PushReturn(p)
  PROVE  Still(p, c)
  <1>t. ThreadTypes(p, c)
    BY TypesAlone
  <1>1. /\ UNCHANGED <<pop_, cslot, cgot, val, delivered, nulls, dropped>>
        /\ cpc'[c] = cpc[c] \/ (cpc[c] = "sleep" /\ cpc'[c] = "retry")
    BY <1>t DEF PushTicket, PushInc, PushStore, PushCheck, PushWake, PushReturn, WakeAll,
                ThreadTypes, slotVars, consVars
  <1>2. /\ UNCHANGED FirstTicket
        /\ cpc'[c] \in AheadPC => cslot'[c] = Slot(FirstTicket)
        /\ Takes(c)' <=> Takes(c)
    BY <1>t, <1>1, ConsumerStays
  <1>3. SUFFICES /\ UNCHANGED NextTicket
                 /\ ppc'[p] \in {"inc", "add"} => pslot'[p] = Slot(NextTicket)
                 /\ \A s \in Slots : Holds(s)' = Holds(s)
                 /\ \A s \in Slots : Promised(s)' = Promised(s)
    BY <1>t, <1>1, <1>2, TakenSame DEF Still, ThreadTypes
  <1>4. CASE \E v \in Items : PushTicket(p, v)
    <2>1. /\ ppc[p] = "idle" /\ ppc'[p] = "inc" /\ push_' = push_ + 1
          /\ pslot'[p] = Slot(push_) /\ data' = data
      BY <1>4, <1>t DEF PushTicket, ThreadTypes, slotVars
    <2>2. PushesAhead = 0 /\ PushesAhead' = 1
      BY <2>1, ProducerAlone
    <2>3. NextTicket = push_ /\ NextTicket' = push_
      BY <2>1, <2>2, <1>t DEF NextTicket, ThreadTypes
    <2>4. \A s \in Slots : Holds(s)' = Holds(s)
      BY <2>1, ProducerAlone
    <2> QED BY <2>1, <2>3, <2>4, PromisedSame
  <1>5. CASE PushInc(p) /\ val[pslot[p]] # 0
    <2>1. /\ ppc[p] = "inc" /\ ppc'[p] = "add" /\ push_' = push_ /\ pslot' = pslot
          /\ data' = data
      BY <1>5, <1>t DEF PushInc, ThreadTypes
    <2>2. PushesAhead' = PushesAhead
      BY <2>1, ProducerAlone
    <2>3. \A s \in Slots : Holds(s)' = Holds(s)
      BY <2>1, ProducerAlone
    <2> QED BY <1>t, <2>1, <2>2, <2>3, PromisedSame DEF NextTicket, RingInv, ThreadTypes
  <1>6. CASE PushStore(p)
    <2>1. /\ ppc[p] = "cas" /\ ppc'[p] = "check" /\ push_' = push_ /\ pslot' = pslot
          /\ data[pslot[p]] = Null /\ data' = [data EXCEPT ![pslot[p]] = pitem[p]]
      BY <1>6, <1>t DEF PushStore, ThreadTypes
    <2>2. PushesAhead' = PushesAhead
      BY <2>1, ProducerAlone
    <2>3. data'[pslot[p]] = pitem[p] /\ \A s \in Slots : s # pslot[p] => data'[s] = data[s]
      BY <1>t, <2>1 DEF ThreadTypes
    <2>4. \A s \in Slots : Holds(s)' = Holds(s)
      BY <2>1, <2>3, ProducerAlone
    <2>5. ASSUME NEW s \in Slots PROVE Promised(s)' = Promised(s)
      <3>1. CASE s = pslot[p]
        <4>1. Holds(s) = pitem[p] /\ Holds(s)' = pitem[p]
          BY <2>1, <2>4, <3>1, ProducerAlone
        <4>2. data[s] = Null /\ data'[s] = pitem[p]
          BY <2>1, <2>3, <3>1
        <4> QED BY <4>1, <4>2 DEF Promised
      <3>2. CASE s # pslot[p]
        BY <2>3, <2>4, <3>2, PromisedSame
      <3> QED BY <3>1, <3>2
    <2> QED BY <2>1, <2>2, <2>4, <2>5 DEF NextTicket
  <1>7. CASE PushCheck(p) \/ PushWake(p) \/ PushReturn(p)
    <2>1. /\ ppc[p] \notin {"inc", "add", "cas"} /\ ppc'[p] \notin {"inc", "add", "cas"}
          /\ push_' = push_ /\ data' = data
      BY <1>7, <1>t DEF PushCheck, PushWake, PushReturn, ThreadTypes, slotVars
    <2>2. PushesAhead' = PushesAhead
      BY <2>1, ProducerAlone
    <2>3. \A s \in Slots : Holds(s)' = Holds(s)
      BY <2>1, ProducerAlone
    <2> QED BY <2>1, <2>2, <2>3, PromisedSame DEF NextTicket
  <1> QED BY <1>4, <1>5, <1>6, <1>7

\* What the consumer does outside the one instruction that counts a pop, and but
\* for taking the item.
LEMMA ConsumerStutters ==
  ASSUME TypeOK, RingInv, NEW p, NEW c, Alone(p, c),
         \/ PopTicket(c) \/ PopEnter(c) \/ PopWait(c) \/ PopInterrupted(c)
         \/ PopDec(c) /\ val[cslot[c]] = 0
         \/ PopRetry(c) /\ val[cslot[c]] = 0
         \/ PopLeave(c) \/ PopCheck(c) \/ PopWake(c)
  PROVE  Still(p, c)
  <1>t. ThreadTypes(p, c)
    BY TypesAlone
  <1>1. UNCHANGED <<push_, ppc, pslot, pitem, val, data, delivered, nulls, dropped, cgot>>
    BY <1>t DEF PopTicket, PopEnter, PopWait, PopInterrupted, PopDec, PopRetry, Decrement,
                PopLeave, PopCheck, PopWake, ThreadTypes, slotVars, prodVars
  <1>2. \A s \in Slots : Holds(s)' = Holds(s) /\ Promised(s)' = Promised(s)
    BY <1>1, ProducerAlone DEF Promised
  <1>3. PushesAhead' = PushesAhead
    BY <1>1, ProducerAlone
  <1>4. NextTicket' = NextTicket /\ (ppc'[p] \in {"inc", "add"} => pslot'[p] = Slot(NextTicket))
    BY <1>1, <1>3, <1>t DEF NextTicket, RingInv, ThreadTypes
  <1>5. SUFFICES /\ UNCHANGED FirstTicket
                 /\ cpc'[c] \in AheadPC => cslot'[c] = Slot(FirstTicket)
                 /\ Takes(c)' <=> Takes(c)
                 /\ Takes(c) => cslot' = cslot
    <2>1. cslot[c] \in Slots
      BY <1>t DEF ThreadTypes
    <2>2. cslot' = cslot => Promised(cslot[c])' = Promised(cslot[c])
      BY <1>2, <2>1, ProducerAlone, <1>1 DEF Promised
    <2> QED BY <1>1, <1>2, <1>4, <1>5, <2>2, TakenSame DEF Still
  <1>6. CASE PopTicket(c)
    <2>1. /\ cpc[c] = "idle" /\ cpc'[c] = "dec" /\ pop_' = pop_ + 1 /\ cslot'[c] = Slot(pop_)
      BY <1>6, <1>t DEF PopTicket, ThreadTypes
    <2>2. PopsAhead = 0 /\ PopsAhead' = 1
      BY <2>1, ConsumerAlone DEF AheadPC
    <2>3. FirstTicket = pop_ /\ FirstTicket' = pop_
      BY <2>1, <2>2, <1>t DEF FirstTicket, ThreadTypes
    <2> QED BY <2>1, <2>3 DEF Takes, TakePC
  <1>7. CASE \/ PopEnter(c) \/ PopWait(c) \/ PopInterrupted(c)
             \/ PopDec(c) /\ val[cslot[c]] = 0
             \/ PopRetry(c) /\ val[cslot[c]] = 0
    <2>1. /\ cpc[c] \in AheadPC /\ cpc'[c] \in AheadPC /\ pop_' = pop_ /\ cslot' = cslot
      BY <1>7, <1>t DEF PopEnter, PopWait, PopInterrupted, PopDec, PopRetry, Decrement,
                        ThreadTypes, AheadPC
    <2>2. PopsAhead' = PopsAhead
      BY <2>1, ConsumerAlone
    <2>3. FirstTicket' = FirstTicket
      BY <2>1, <2>2 DEF FirstTicket
    <2>4. ~Takes(c) /\ ~Takes(c)'
      BY <2>1 DEF Takes, TakePC, AheadPC
    <2> QED BY <2>1, <2>3, <2>4, <1>t DEF RingInv, ThreadTypes
  <1>8. CASE PopLeave(c) \/ PopCheck(c) \/ PopWake(c)
    <2>1. /\ cpc[c] \in TakePC /\ pop_' = pop_ /\ cslot' = cslot
          /\ cpc'[c] \in TakePC \/ (cpc'[c] = "idle" /\ cgot[c] # 1)
      BY <1>8, <1>t DEF PopLeave, PopCheck, PopWake, AfterWake, ThreadTypes, TakePC
    <2>2. cpc[c] \notin AheadPC /\ cpc'[c] \notin AheadPC
      BY <2>1 DEF AheadPC, TakePC
    <2>3. PopsAhead' = PopsAhead
      BY <2>2, ConsumerAlone
    <2>4. FirstTicket' = FirstTicket
      BY <2>1, <2>3 DEF FirstTicket
    <2>5. Takes(c)' <=> Takes(c)
      BY <1>1, <2>1 DEF Takes
    <2> QED BY <2>1, <2>2, <2>4, <2>5
  <1> QED BY <1>6, <1>7, <1>8

\* A push takes effect: the next ticket joins the window of its slot.
LEMMA PushInv ==
  ASSUME TypeOK, RingInv, NEW p, NEW c, Alone(p, c),
         FirstTicket' = FirstTicket, NextTicket' = NextTicket + 1,
         val' = [val EXCEPT ![Slot(NextTicket)] = @ + 1],
         ppc'[p] \notin {"inc", "add"}, UNCHANGED <<cpc, cslot>>
  PROVE  RingInv'
  <1> DEFINE a == NextTicket
             f == FirstTicket
  <1>1. /\ a \in Nat /\ f \in Nat /\ f <= a /\ Slot(a) \in Slots
        /\ val \in [Slots -> Nat]
    BY SlotIsSlot DEF RingInv, TypeOK, SlotTypes
  <1>2. f .. ((a + 1) - 1) = (f .. (a - 1)) \cup {a} /\ a \notin f .. (a - 1)
    BY <1>1
  <1>3. \A s : Window(s)' = {t \in f .. ((a + 1) - 1) : Slot(t) = s}
    BY DEF Window
  <1>4. ASSUME NEW s \in Slots PROVE val'[s] = Cardinality(Window(s)')
    <2>1. val[s] = Cardinality(Window(s)) /\ IsFiniteSet(Window(s))
      BY WindowFinite DEF RingInv
    <2>2. CASE s = Slot(a)
      <3>1. Window(s)' = Window(s) \cup {a} /\ a \notin Window(s)
        BY <1>2, <1>3, <2>2 DEF Window
      <3> QED BY <1>1, <2>1, <2>2, <3>1, CountAdd
    <2>3. CASE s # Slot(a)
      <3>1. Window(s)' = Window(s)
        BY <1>2, <1>3, <2>3 DEF Window
      <3> QED BY <1>1, <2>1, <2>3, <3>1
    <2> QED BY <2>2, <2>3
  <1>5. f' \in Nat /\ a' \in Nat /\ f' <= a'
    BY <1>1
  <1>6. \A d \in Consumers : cpc'[d] \in AheadPC => cslot'[d] = Slot(f)
    BY DEF RingInv
  <1> QED BY <1>4, <1>5, <1>6 DEF RingInv, Alone

\* A pop takes effect: the first ticket leaves the window of its slot.
LEMMA PopInv ==
  ASSUME TypeOK, RingInv, NEW p, NEW c, Alone(p, c), FirstTicket < NextTicket,
         FirstTicket' = FirstTicket + 1, NextTicket' = NextTicket,
         val' = [val EXCEPT ![Slot(FirstTicket)] = @ - 1],
         cpc'[c] \notin AheadPC, UNCHANGED <<ppc, pslot>>
  PROVE  RingInv'
  <1> DEFINE a == NextTicket
             f == FirstTicket
  <1>1. /\ a \in Nat /\ f \in Nat /\ f < a /\ Slot(f) \in Slots
        /\ val \in [Slots -> Nat]
    BY SlotIsSlot DEF RingInv, TypeOK, SlotTypes
  <1>2. (f + 1) .. (a - 1) = (f .. (a - 1)) \ {f} /\ f \in f .. (a - 1)
    BY <1>1
  <1>3. \A s : Window(s)' = {t \in (f + 1) .. (a - 1) : Slot(t) = s}
    BY DEF Window
  <1>4. ASSUME NEW s \in Slots PROVE val'[s] = Cardinality(Window(s)')
    <2>1. val[s] = Cardinality(Window(s)) /\ IsFiniteSet(Window(s))
      BY WindowFinite DEF RingInv
    <2>2. CASE s = Slot(f)
      <3>1. Window(s)' = Window(s) \ {f} /\ f \in Window(s)
        BY <1>2, <1>3, <2>2 DEF Window
      <3> QED BY <1>1, <2>1, <2>2, <3>1, CountRemove
    <2>3. CASE s # Slot(f)
      <3>1. Window(s)' = Window(s)
        BY <1>2, <1>3, <2>3 DEF Window
      <3> QED BY <1>1, <2>1, <2>3, <3>1
    <2> QED BY <2>2, <2>3
  <1>5. f' \in Nat /\ a' \in Nat /\ f' <= a'
    BY <1>1
  <1>6. \A q \in Producers : ppc'[q] \in {"inc", "add"} => pslot'[q] = Slot(a)
    BY DEF RingInv
  <1> QED BY <1>4, <1>5, <1>6 DEF RingInv, Alone

\* PushInc on an empty slot, and PushAdd, count a push.
LEMMA CountsFacts ==
  ASSUME TypeOK, RingInv, NEW p, NEW c, Alone(p, c),
         (PushInc(p) /\ val[pslot[p]] = 0) \/ PushAdd(p)
  PROVE  /\ ppc[p] \in {"inc", "add"} /\ ppc'[p] \notin {"inc", "add"}
         /\ pslot[p] = Slot(NextTicket) /\ Slot(NextTicket) \in Slots
         /\ FirstTicket' = FirstTicket /\ NextTicket' = NextTicket + 1
         /\ val' = [val EXCEPT ![Slot(NextTicket)] = @ + 1]
         /\ UNCHANGED <<pslot, pitem, data, cpc, cslot, cgot, delivered, nulls>>
         /\ pitem[p] \in Items
         /\ RingInv'
         /\ val[pslot[p]] = 0 => ppc'[p] = "cas" /\ dropped' = dropped
         /\ val[pslot[p]] # 0 => ppc'[p] = "check" /\ dropped' = dropped \cup {pitem[p]}
  <1>t. ThreadTypes(p, c)
    BY TypesAlone
  <1>1. /\ ppc[p] \in {"inc", "add"} /\ ppc'[p] \notin {"inc", "add"}
        /\ push_' = push_
        /\ UNCHANGED <<pop_, pslot, pitem, data, cpc, cslot, cgot, delivered, nulls>>
    BY <1>t DEF PushInc, PushAdd, ThreadTypes, consVars
  <1>2. pslot[p] = Slot(NextTicket) /\ Slot(NextTicket) \in Slots
    BY <1>1, <1>t, SlotIsSlot DEF RingInv, ThreadTypes
  <1>3. PushesAhead = 1 /\ PushesAhead' = 0 /\ PopsAhead' = PopsAhead
    BY <1>1, ProducerAlone, ConsumerAlone
  <1>4. NextTicket' = NextTicket + 1
    BY <1>1, <1>3, <1>t DEF NextTicket, ThreadTypes
  <1>5. FirstTicket' = FirstTicket
    BY <1>1, <1>3 DEF FirstTicket
  <1>6. val' = [val EXCEPT ![Slot(NextTicket)] = @ + 1]
    <2>1. CASE PushInc(p) /\ val[pslot[p]] = 0
      <3>1. val' = [val EXCEPT ![pslot[p]] = 1] /\ val[pslot[p]] + 1 = 1
        BY <2>1 DEF PushInc
      <3> QED BY <1>2, <3>1
    <2>2. CASE PushAdd(p)
      BY <1>2, <2>2 DEF PushAdd
    <2> QED BY <2>1, <2>2
  <1>7. pitem[p] \in Items
    BY <1>1, <1>t DEF TypeOK, ProducerTypes, Unfilled, ThreadTypes
  <1>8. RingInv'
    BY <1>1, <1>4, <1>5, <1>6, PushInv
  <1>9. /\ val[pslot[p]] = 0 => ppc'[p] = "cas" /\ dropped' = dropped
        /\ val[pslot[p]] # 0 => ppc'[p] = "check" /\ dropped' = dropped \cup {pitem[p]}
    <2>1. val[pslot[p]] \in Nat
      BY <1>t DEF ThreadTypes
    <2> QED BY <1>t, <2>1 DEF PushInc, PushAdd, ThreadTypes
  <1> QED BY <1>1, <1>2, <1>4, <1>5, <1>6, <1>7, <1>8, <1>9

LEMMA PushSteps ==
  ASSUME WInv, SlotAccounting, RingInv, NEW p, NEW c, Alone(p, c),
         (PushInc(p) /\ val[pslot[p]] = 0) \/ PushAdd(p)
  PROVE  RingInv' /\ \E i \in Items : Ring!Push(i)
  <1> DEFINE q == WaitingTickets
             I == Items \cup {Null}
  <1>c. PICK a, f, s, n, v : /\ a = NextTicket /\ f = FirstTicket /\ n = a - f
                             /\ s = Slot(a) /\ v = pitem[p]
    OBVIOUS
  <1>1. /\ ppc[p] \in {"inc", "add"} /\ ppc'[p] \notin {"inc", "add"}
        /\ pslot[p] = s /\ s \in Slots
        /\ FirstTicket' = f /\ NextTicket' = a + 1
        /\ UNCHANGED <<pslot, pitem, data, cpc, cslot, cgot, delivered, nulls>>
        /\ v \in Items
        /\ RingInv'
        /\ val[s] = 0 => ppc'[p] = "cas" /\ dropped' = dropped
        /\ val[s] # 0 => ppc'[p] = "check" /\ dropped' = dropped \cup {v}
    BY <1>c, CountsFacts DEF WInv
  <1>2. /\ a \in Nat /\ f \in Nat /\ f <= a /\ n \in Nat /\ Size \in Nat /\ Size > 0
    BY <1>c, SizePositive DEF RingInv
  <1>3. val[s] = 0 <=> n < Size
    BY <1>c, SlotFull
  <1>4. TypeOK'
    <2>1. p \in Producers /\ Push(p)
      BY DEF Alone, Push
    <2> QED BY <2>1, WInvPush DEF WInv
  <1>o. OneOfEach /\ OneOfEach'
    BY AloneIsOne DEF OneOfEach
  <1>5. /\ q \in Seq(I) /\ Len(q) = n
        /\ \A i \in 1 .. n : q[i] = Waits(f + i - 1)
    BY <1>c, <1>o, QueueFacts DEF QueueIs, WInv
  <1>6. /\ q' \in Seq(I) /\ Len(q') = n + 1
        /\ \A i \in 1 .. (n + 1) : q'[i] = Waits(f + i - 1)'
    <2>1. QueueIs'
      BY <1>1, <1>4, <1>o, QueueFactsAfter
    <2>2. NextTicket' - FirstTicket' = n + 1
      BY <1>1, <1>2, <1>c
    <2> QED BY <1>1, <2>1, <2>2 DEF QueueIs
  <1>h. \A r \in Slots : r # s \/ val[s] # 0 => Holds(r)' = Holds(r)
    BY <1>1, <1>c, ProducerAlone
  <1>w. \A t \in Nat : /\ Waits(t) = IF t + Size < a THEN Null ELSE Holds(Slot(t))
                       /\ Waits(t)' = IF t + Size < a + 1 THEN Null ELSE Holds(Slot(t))'
    BY <1>1, <1>c DEF Waits
  <1>d. (delivered \o Taken)' = delivered \o Taken
    <2>1. Takes(c)' <=> Takes(c)
      BY <1>1 DEF Takes
    <2>2. ASSUME Takes(c) PROVE Promised(cslot[c])' = Promised(cslot[c])
      <3>1. c \in Consumers /\ cslot[c] \in Slots /\ cslot'[c] = cslot[c] /\ data' = data
        BY <1>1 DEF Alone, WInv, TypeOK, ConsumerTypes
      <3>2. CASE cslot[c] # s \/ val[s] # 0
        BY <1>h, <3>1, <3>2, ProducerAlone DEF Promised
      <3>3. CASE cslot[c] = s
        <4>1. Committing(s) = {}
          BY <1>1 DEF Alone, Committing
        <4>2. c \in Taking(s)
          BY <2>2, <3>1, <3>3 DEF Takes, TakePC, Taking
        <4>3. data[s] # Null
          <5>1. Cardinality(Committing(s)) + (IF data[s] = Null THEN 0 ELSE 1)
                  = Cardinality(Taking(s)) + (IF val[s] > 0 THEN 1 ELSE 0)
            BY <1>1 DEF SlotAccounting
          <5>2. Cardinality(Committing(s)) = 0 /\ Cardinality(Taking(s)) \in Nat
                /\ Cardinality(Taking(s)) # 0
            BY <4>1, <4>2, ThreadSetsFinite, FS_EmptySet
          <5> QED BY <5>1, <5>2
        <4> QED BY <3>1, <3>3, <4>3 DEF Promised
      <3> QED BY <3>2, <3>3
    <2> QED BY <1>1, <2>1, <2>2, TakenSame
  <1>7. CASE val[s] = 0
    <2>1. n < Size
      BY <1>3, <1>7
    <2>2. ASSUME NEW i \in 1 .. n PROVE q'[i] = q[i]
      <3> DEFINE t == f + i - 1
      <3>1. t \in Nat /\ t < a /\ ~(t + Size < a) /\ ~(t + Size < a + 1) /\ a < t + Size
        BY <1>2, <1>c, <2>1
      <3>2. Slot(t) # s
        <4>1. ASSUME Slot(t) = s PROVE FALSE
          <5>1. a >= t + Size
            BY <1>2, <1>c, <3>1, <4>1, RingApart
          <5> QED BY <1>2, <3>1, <5>1
        <4> QED BY <4>1
      <3>3. Slot(t) \in Slots
        BY <3>1, SlotIsSlot
      <3> HIDE DEF t
      <3>4. Waits(t)' = Waits(t)
        BY <1>h, <1>w, <3>1, <3>2, <3>3
      <3> QED BY <1>2, <1>5, <1>6, <3>4 DEF t
    <2>3. q'[n + 1] = v
      <3>1. f + (n + 1) - 1 = a /\ ~(a + Size < a + 1) /\ n + 1 \in 1 .. (n + 1)
        BY <1>2, <1>c
      <3>2. Holds(s)' = v
        BY <1>1, <1>7, <1>c, ProducerAlone
      <3>3. q'[n + 1] = Waits(a)'
        BY <1>6, <3>1
      <3>4. Waits(a)' = Holds(s)'
        BY <1>2, <1>c, <1>w, <3>1
      <3> QED BY <3>2, <3>3, <3>4
    <2>4. /\ Append(q, v) \in Seq(I) /\ Len(Append(q, v)) = n + 1
          /\ \A i \in 1 .. n : Append(q, v)[i] = q[i]
          /\ Append(q, v)[n + 1] = v
      BY <1>1, <1>5, AppendProperties
    <2>5. \A i \in 1 .. (n + 1) : q'[i] = Append(q, v)[i]
      <3>1. \A i \in 1 .. (n + 1) : i \in 1 .. n \/ i = n + 1
        BY <1>2, <1>c
      <3> QED BY <2>2, <2>3, <2>4, <3>1
    <2> HIDE DEF q, I
    <2>6. q' = Append(q, v)
      BY <1>6, <2>4, <2>5, SeqEqual
    <2>7. q' = Ring!PushTo(q, v, Size, Null)
      BY <1>5, <2>1, <2>6 DEF Ring!PushTo
    <2>8. dropped' = IF Len(q) < Size THEN dropped ELSE dropped \cup {v}
      BY <1>1, <1>5, <1>7, <2>1
    <2>9. Ring!Push(v)
      BY <1>1, <1>d, <2>7, <2>8 DEF Ring!Push, q
    <2> QED BY <1>1, <2>9
  <1>8. CASE val[s] # 0
    <2> DEFINE last == n + 1 - Size
               x == [q EXCEPT ![last] = Null]
    <2>1. n >= Size
      BY <1>2, <1>3, <1>8
    <2>2. last \in 1 .. n /\ f + last - 1 = a - Size /\ a - Size \in Nat
      BY <1>2, <1>c, <2>1
    <2>3. ASSUME NEW i \in 1 .. n PROVE q'[i] = IF i = last THEN Null ELSE q[i]
      <3> DEFINE t == f + i - 1
      <3>1. t \in Nat /\ (t + Size = a <=> i = last)
        BY <1>2, <1>c
      <3>2. t + Size < a + 1 <=> t + Size < a \/ t + Size = a
        BY <1>2, <3>1
      <3>3. Slot(t) \in Slots
        BY <3>1, SlotIsSlot
      <3> HIDE DEF t
      <3>4. Waits(t)' = IF i = last THEN Null ELSE Waits(t)
        BY <1>8, <1>h, <1>w, <3>1, <3>2, <3>3
      <3> HIDE DEF last
      <3> QED BY <1>2, <1>5, <1>6, <3>4 DEF t
    <2>4. q[last] = Holds(s)
      <3>1. q[last] = Waits(a - Size)
        BY <1>5, <2>2
      <3>2. ~((a - Size) + Size < a) /\ (a - Size) + Size = a
        BY <1>2, <1>c
      <3>3. Slot(a - Size) = s
        BY <1>c, <2>2, <3>2, RingRound
      <3> QED BY <1>w, <2>2, <3>1, <3>2, <3>3
    <2>5. q'[n + 1] = q[last]
      <3>1. f + (n + 1) - 1 = a /\ ~(a + Size < a + 1) /\ n + 1 \in 1 .. (n + 1)
        BY <1>2, <1>c
      <3>2. Holds(s)' = Holds(s)
        BY <1>1, <1>8, <1>h
      <3>3. q'[n + 1] = Waits(a)'
        BY <1>6, <3>1
      <3>4. Waits(a)' = Holds(s)'
        BY <1>2, <1>c, <1>w, <3>1
      <3> QED BY <2>4, <3>2, <3>3, <3>4
    <2> HIDE DEF last
    <2>6. /\ x \in Seq(I) /\ Len(x) = n
          /\ \A i \in 1 .. n : x[i] = IF i = last THEN Null ELSE q[i]
      BY <1>5, <2>2, ExceptSeq
    <2>7. q[last] \in I
      BY <1>5, <2>2
    <2> HIDE DEF x
    <2> DEFINE y == Append(x, q[last])
    <2>8. /\ y \in Seq(I) /\ Len(y) = n + 1
          /\ \A i \in 1 .. n : y[i] = x[i]
          /\ y[n + 1] = q[last]
      BY <2>6, <2>7, AppendProperties
    <2> HIDE DEF y
    <2>9. \A i \in 1 .. (n + 1) : q'[i] = y[i]
      <3>1. \A i \in 1 .. (n + 1) : i \in 1 .. n \/ i = n + 1
        BY <1>2, <1>c
      <3> QED BY <2>3, <2>5, <2>6, <2>8, <3>1
    <2> HIDE DEF q, I
    <2>10. q' = y
      BY <1>6, <2>8, <2>9, SeqEqual
    <2>11. q' = Ring!PushTo(q, v, Size, Null)
      BY <1>2, <1>5, <2>1, <2>10 DEF Ring!PushTo, last, x, y
    <2>12. dropped' = IF Len(q) < Size THEN dropped ELSE dropped \cup {v}
      BY <1>1, <1>2, <1>5, <1>8, <2>1
    <2>13. Ring!Push(v)
      BY <1>1, <1>d, <2>11, <2>12 DEF Ring!Push, q
    <2> QED BY <1>1, <2>13
  <1> QED BY <1>7, <1>8

\* PopDec and PopRetry on a slot with a unit count a pop.
LEMMA PopFacts ==
  ASSUME TypeOK, RingInv, NEW p, NEW c, Alone(p, c),
         PopDec(c) \/ PopRetry(c), val[cslot[c]] # 0
  PROVE  /\ cpc[c] \in AheadPC /\ cpc'[c] \in TakePC
         /\ cslot[c] = Slot(FirstTicket) /\ Slot(FirstTicket) \in Slots
         /\ val[Slot(FirstTicket)] > 0 /\ FirstTicket < NextTicket
         /\ FirstTicket' = FirstTicket + 1 /\ NextTicket' = NextTicket
         /\ UNCHANGED <<ppc, pslot, pitem, data, cslot, delivered, dropped>>
         /\ cgot'[c] = val[Slot(FirstTicket)]
         /\ nulls' = IF val[Slot(FirstTicket)] = 1 THEN nulls ELSE nulls + 1
         /\ RingInv'
  <1>t. ThreadTypes(p, c)
    BY TypesAlone
  <1>1. val[cslot[c]] \in Nat /\ val[cslot[c]] > 0
    BY <1>t DEF ThreadTypes
  <1>2. Decrement(c, "check") \/ Decrement(c, "leave")
    BY <1>1 DEF PopDec, PopRetry
  <1>3. /\ cpc[c] \in AheadPC
        /\ UNCHANGED <<push_, pop_, ppc, pslot, pitem, data, cslot, delivered, dropped>>
    BY DEF PopDec, PopRetry, prodVars, AheadPC
  <1>4. /\ cpc'[c] \in TakePC
        /\ val' = [val EXCEPT ![cslot[c]] = @ - 1]
        /\ cgot'[c] = val[cslot[c]]
        /\ nulls' = IF val[cslot[c]] = 1 THEN nulls ELSE nulls + 1
    BY <1>2, <1>t DEF Decrement, ThreadTypes, TakePC
  <1>5. cslot[c] = Slot(FirstTicket) /\ Slot(FirstTicket) \in Slots
    BY <1>3, <1>t, SlotIsSlot DEF RingInv, ThreadTypes
  <1>6. cpc'[c] \notin AheadPC
    BY <1>4 DEF AheadPC, TakePC
  <1>7. PopsAhead = 1 /\ PopsAhead' = 0 /\ PushesAhead' = PushesAhead
    BY <1>3, <1>6, ConsumerAlone, ProducerAlone
  <1>8. FirstTicket' = FirstTicket + 1
    BY <1>3, <1>7, <1>t DEF FirstTicket, ThreadTypes
  <1>9. NextTicket' = NextTicket
    BY <1>3, <1>7 DEF NextTicket
  <1>10. FirstTicket < NextTicket
    BY <1>1, <1>5, FirstIsLast
  <1>11. RingInv'
    BY <1>3, <1>4, <1>5, <1>6, <1>8, <1>9, <1>10, PopInv
  <1> QED BY <1>1, <1>3, <1>4, <1>5, <1>8, <1>9, <1>10, <1>11

\* While nobody takes from a slot with a unit, what its last ticket holds is an item.
LEMMA HoldsItem ==
  ASSUME TypeOK, SlotAccounting, NEW p, NEW c, Alone(p, c), NEW s \in Slots,
         val[s] > 0, ~Takes(c)
  PROVE  Holds(s) \in Items /\ Promised(s) = Holds(s)
  <1>1. Taking(s) = {}
    BY DEF Alone, Taking, Takes, TakePC
  <1>2. Cardinality(Committing(s)) + (IF data[s] = Null THEN 0 ELSE 1) = 1
    <2>1. Cardinality(Committing(s)) + (IF data[s] = Null THEN 0 ELSE 1)
            = Cardinality(Taking(s)) + (IF val[s] > 0 THEN 1 ELSE 0)
      BY DEF SlotAccounting
    <2> QED BY <1>1, <2>1, FS_EmptySet
  <1>3. p \in Producers /\ data[s] \in Items \cup {Null}
    BY DEF Alone, TypeOK, SlotTypes
  <1>4. CASE ppc[p] = "cas" /\ pslot[p] = s
    <2>1. Holds(s) = pitem[p] /\ pitem[p] \in Items
      BY <1>3, <1>4, ProducerAlone DEF TypeOK, ProducerTypes, Unfilled
    <2>2. Committing(s) = {p}
      BY <1>4 DEF Alone, Committing
    <2>3. Cardinality(Committing(s)) = 1
      BY <2>2, FS_Singleton
    <2>4. data[s] = Null
      BY <1>2, <2>3
    <2> QED BY <2>1, <2>4 DEF Promised
  <1>5. CASE ~(ppc[p] = "cas" /\ pslot[p] = s)
    <2>1. Committing(s) = {}
      BY <1>5 DEF Alone, Committing
    <2>2. data[s] # Null
      BY <1>2, <2>1, FS_EmptySet
    <2>3. Holds(s) = data[s]
      BY <1>5, ProducerAlone
    <2> QED BY <1>3, <2>2, <2>3 DEF Promised
  <1> QED BY <1>4, <1>5

LEMMA PopSteps ==
  ASSUME WInv, SlotAccounting, RingInv, NEW p, NEW c, Alone(p, c),
         PopDec(c) \/ PopRetry(c), val[cslot[c]] # 0
  PROVE  RingInv' /\ Ring!Pop
  <1> DEFINE q == WaitingTickets
             I == Items \cup {Null}
  <1>c. PICK a, f, s, n : /\ a = NextTicket /\ f = FirstTicket /\ n = a - f /\ s = Slot(f)
    OBVIOUS
  <1>1. /\ cpc[c] \in AheadPC /\ cpc'[c] \in TakePC
        /\ cslot[c] = s /\ s \in Slots /\ val[s] > 0 /\ f < a
        /\ FirstTicket' = f + 1 /\ NextTicket' = a
        /\ UNCHANGED <<ppc, pslot, pitem, data, cslot, delivered, dropped>>
        /\ cgot'[c] = val[s]
        /\ nulls' = IF val[s] = 1 THEN nulls ELSE nulls + 1
        /\ RingInv'
    BY <1>c, PopFacts DEF WInv
  <1>2. /\ a \in Nat /\ f \in Nat /\ n \in Nat /\ n >= 1 /\ Size \in Nat /\ Size > 0
    BY <1>1, <1>c, SizePositive DEF RingInv
  <1>3. val[s] = 1 <=> ~(f + Size < a)
    BY <1>1, <1>c, FirstIsLast
  <1>4. TypeOK'
    <2>1. c \in Consumers /\ PopStep(c)
      BY DEF Alone, PopStep
    <2> QED BY <2>1, WInvPop DEF WInv
  <1>o. OneOfEach /\ OneOfEach'
    BY AloneIsOne DEF OneOfEach
  <1>5. /\ q \in Seq(I) /\ Len(q) = n
        /\ \A i \in 1 .. n : q[i] = Waits(f + i - 1)
    BY <1>c, <1>o, QueueFacts DEF QueueIs, WInv
  <1>6. /\ q' \in Seq(I) /\ Len(q') = n - 1
        /\ \A i \in 1 .. (n - 1) : q'[i] = Waits((f + 1) + i - 1)'
    <2>1. QueueIs'
      BY <1>1, <1>4, <1>o, QueueFactsAfter
    <2>2. NextTicket' - FirstTicket' = n - 1
      BY <1>1, <1>2, <1>c
    <2> QED BY <1>1, <2>1, <2>2 DEF QueueIs
  <1>h. \A r : Holds(r)' = Holds(r) /\ Promised(r)' = Promised(r)
    BY <1>1, ProducerAlone DEF Promised
  <1>w. \A t : Waits(t)' = Waits(t)
    BY <1>1, <1>c, <1>h DEF Waits
  <1>7. q # <<>> /\ Head(q) = Waits(f)
    <2>1. 1 \in 1 .. n /\ f + 1 - 1 = f
      BY <1>2
    <2>2. q[1] = Waits(f)
      BY <1>5, <2>1
    <2> HIDE DEF q
    <2>3. q # <<>> /\ Head(q) = q[1]
      BY <1>2, <1>5
    <2> QED BY <2>2, <2>3
  <1>8. q' = Tail(q)
    <2>1. \A i \in 1 .. (n - 1) : q'[i] = q[i + 1]
      <3> TAKE i \in 1 .. (n - 1)
      <3>1. i + 1 \in 1 .. n /\ (f + 1) + i - 1 = f + (i + 1) - 1
        BY <1>2
      <3> QED BY <1>5, <1>6, <1>w, <3>1
    <2> HIDE DEF q, I
    <2>2. /\ Tail(q) \in Seq(I) /\ Len(Tail(q)) = n - 1
          /\ \A i \in 1 .. (n - 1) : Tail(q)[i] = q[i + 1]
      BY <1>5, <1>7, HeadTailProperties
    <2> QED BY <1>6, <2>1, <2>2, SeqEqual
  <1>9. ~Takes(c) /\ (Takes(c)' <=> val[s] = 1)
    BY <1>1 DEF Takes, AheadPC, TakePC
  <1>10. delivered \in Seq(Items) /\ delivered' = delivered
    BY <1>1 DEF WInv, TypeOK, HistoryTypes
  <1>11. delivered \o Taken = delivered
    BY <1>9, <1>10, ConsumerAlone, ConcatEmptySeq
  <1>12. CASE val[s] = 1
    <2>1. Waits(f) = Holds(s)
      BY <1>3, <1>12, <1>c DEF Waits
    <2>2. Holds(s) \in Items /\ Promised(s) = Holds(s)
      BY <1>1, <1>9, HoldsItem DEF WInv
    <2>3. Taken' = <<Holds(s)>>
      <3>1. cslot'[c] = s /\ Promised(s)' = Holds(s)
        BY <1>1, <1>h, <2>2
      <3>2. Promised(cslot[c])' = Promised(s)'
        <4>1. Promised(cslot[c])' = IF data'[cslot'[c]] # Null THEN data'[cslot'[c]]
                                    ELSE IF ppc'[p] = "cas" /\ pslot'[p] = cslot'[c]
                                         THEN pitem'[p] ELSE data'[cslot'[c]]
          BY ProducerAlone DEF Promised
        <4>2. Promised(s)' = IF data'[s] # Null THEN data'[s]
                             ELSE IF ppc'[p] = "cas" /\ pslot'[p] = s
                                  THEN pitem'[p] ELSE data'[s]
          BY ProducerAlone DEF Promised
        <4> QED BY <3>1, <4>1, <4>2
      <3> QED BY <1>9, <1>12, <3>1, <3>2, ConsumerAlone
    <2> HIDE DEF q
    <2>4. PICK h : h = Holds(s)
      OBVIOUS
    <2>5. delivered' \o Taken' = Append(delivered, h)
      BY <1>10, <2>2, <2>3, <2>4, AppendIsConcat
    <2>6. h # Null /\ h = Head(q)
      BY <1>7, <2>1, <2>2, <2>4, NullIsNoItem
    <2>7. Ring!PopItem
      BY <1>1, <1>7, <1>8, <1>11, <1>12, <2>5, <2>6 DEF Ring!PopItem, q
    <2> QED BY <1>1, <2>7 DEF Ring!Pop
  <1>13. CASE val[s] # 1
    <2>1. Waits(f) = Null
      BY <1>3, <1>13, <1>c DEF Waits
    <2>2. Taken' = <<>>
      BY <1>9, <1>13, ConsumerAlone
    <2>3. delivered' \o Taken' = delivered
      BY <1>10, <2>2, ConcatEmptySeq
    <2> HIDE DEF q
    <2>4. Ring!PopNull
      BY <1>1, <1>7, <1>8, <1>11, <1>13, <2>1, <2>3 DEF Ring!PopNull, q
    <2> QED BY <1>1, <2>4 DEF Ring!Pop
  <1> QED BY <1>12, <1>13

\* When the consumer takes its item the ring does not move: the item was delivered
\* before, and no ticket waits for what the slot held.
LEMMA TakeStutters ==
  ASSUME WInv, SlotAccounting, RingInv, NEW p, NEW c, Alone(p, c), PopTake(c)
  PROVE  RingInv' /\ View' = View
  <1>t. ThreadTypes(p, c)
    BY TypesAlone DEF WInv
  <1>c. PICK s : s = cslot[c]
    OBVIOUS
  <1>1. /\ cpc[c] = "take" /\ cpc'[c] = "idle" /\ data[s] # Null
        /\ data' = [data EXCEPT ![s] = Null]
        /\ delivered' = Append(delivered, data[s])
        /\ UNCHANGED <<push_, pop_, ppc, pslot, pitem, val, cslot, cgot, nulls, dropped>>
    BY <1>c, <1>t DEF PopTake, ThreadTypes, prodVars
  <1>2. cgot[c] = 1 /\ s \in Slots /\ c \in Consumers /\ delivered \in Seq(Items)
        /\ data[s] \in Items
    BY <1>1, <1>c, <1>t DEF WInv, TypeOK, ConsumerTypes, HistoryTypes, ThreadTypes
  <1>3. Takes(c) /\ ~Takes(c)' /\ cpc[c] \notin AheadPC /\ cpc'[c] \notin AheadPC
    BY <1>1, <1>2 DEF Takes, TakePC, AheadPC
  <1>4. PushesAhead' = PushesAhead /\ PopsAhead' = PopsAhead
    BY <1>1, <1>3, ProducerAlone, ConsumerAlone
  <1>5. FirstTicket' = FirstTicket /\ NextTicket' = NextTicket
    BY <1>1, <1>4 DEF FirstTicket, NextTicket
  <1>6. ppc'[p] \in {"inc", "add"} => pslot'[p] = Slot(NextTicket)
    BY <1>1, <1>t DEF RingInv, ThreadTypes
  <1>7. RingInv'
    BY <1>1, <1>3, <1>5, <1>6, StillInv
  <1>8. Taken = <<data[s]>> /\ Taken' = <<>>
    <2>1. Promised(cslot[c]) = data[s]
      BY <1>1, <1>c DEF Promised
    <2> QED BY <1>3, <2>1, ConsumerAlone
  <1>9. delivered' \o Taken' = delivered \o Taken
    <2>1. delivered' \in Seq(Items) /\ delivered \o <<data[s]>> = Append(delivered, data[s])
      BY <1>1, <1>2, AppendProperties, AppendIsConcat
    <2> QED BY <1>1, <1>8, <2>1, ConcatEmptySeq
  <1>10. \A t \in FirstTicket .. (NextTicket - 1) :
           t + Size < NextTicket \/ Holds(Slot(t))' = Holds(Slot(t))
    <2>1. \A r \in Slots : r # s => Holds(r)' = Holds(r)
      BY <1>1, <1>t, ProducerAlone DEF ThreadTypes
    <2>2. CASE ppc[p] = "cas" /\ pslot[p] = s
      <3>1. Holds(s)' = Holds(s)
        BY <1>1, <2>2, ProducerAlone
      <3>2. \A t \in FirstTicket .. (NextTicket - 1) : Slot(t) \in Slots
        BY SlotIsSlot DEF RingInv
      <3> QED BY <2>1, <3>1, <3>2
    <2>3. CASE ~(ppc[p] = "cas" /\ pslot[p] = s)
      <3>1. Committing(s) = {} /\ c \in Taking(s)
        BY <1>1, <1>2, <1>c, <2>3 DEF Alone, Committing, Taking
      <3>2. Cardinality(Committing(s)) + (IF data[s] = Null THEN 0 ELSE 1)
              = Cardinality(Taking(s)) + (IF val[s] > 0 THEN 1 ELSE 0)
        BY <1>2 DEF SlotAccounting
      <3>3. Cardinality(Committing(s)) = 0 /\ Cardinality(Taking(s)) \in Nat
              /\ Cardinality(Taking(s)) # 0
        BY <3>1, ThreadSetsFinite, FS_EmptySet
      <3>4. val[s] \in Nat
        BY <1>2, <1>t DEF ThreadTypes
      <3>5. val[s] = 0
        BY <1>1, <3>2, <3>3, <3>4
      <3>6. Window(s) = {}
        BY <1>2, <3>5, WindowFinite, FS_EmptySet DEF RingInv
      <3>7. \A t \in FirstTicket .. (NextTicket - 1) : Slot(t) \in Slots /\ Slot(t) # s
        BY <3>6, SlotIsSlot DEF RingInv, Window
      <3> QED BY <2>1, <3>7
    <2> QED BY <2>2, <2>3
  <1>11. WaitingTickets' = WaitingTickets
    BY <1>5, <1>10, StillView
  <1> QED BY <1>1, <1>7, <1>9, <1>11 DEF View

\* Every step of the two threads is one of the ring's or none.
LEMMA RingStep ==
  WInv /\ SlotAccounting /\ RingInv /\ OneOfEach /\ [Next]_vars
    => RingInv' /\ [Ring!Next]_(Ring!ringVars)
  <1> SUFFICES ASSUME WInv, SlotAccounting, RingInv, OneOfEach, [Next]_vars
               PROVE  RingInv' /\ (Ring!Next \/ View' = View)
    BY DEF View, Ring!ringVars
  <1>a. PICK p, c : Alone(p, c)
    BY TwoThreads
  <1>1. CASE UNCHANGED vars
    <2>t. ThreadTypes(p, c)
      BY <1>a, TypesAlone DEF WInv
    <2>1. UNCHANGED <<push_, pop_, ppc, pslot, pitem, cpc, cslot, cgot, val, data, delivered,
                      nulls, dropped>>
      BY <1>1 DEF vars, slotVars, prodVars, consVars
    <2>2. /\ UNCHANGED <<FirstTicket, NextTicket>>
          /\ \A s \in Slots : Holds(s)' = Holds(s) /\ Promised(s)' = Promised(s)
      BY <1>a, <2>1, ProducerAlone, ConsumerAlone DEF FirstTicket, NextTicket, Promised
    <2>3. Promised(cslot[c])' = Promised(cslot[c])
      BY <1>a, <2>1, ProducerAlone DEF Promised
    <2>4. Taken' = Taken
      BY <1>a, <2>1, <2>3, TakenSame DEF Takes
    <2>5. Still(p, c)
      BY <2>t, <2>1, <2>2, <2>4 DEF Still, RingInv, ThreadTypes
    <2> QED BY <1>a, <2>5, StillStep
  <1>2. CASE \E q \in Producers : Push(q)
    <2>1. Push(p)
      BY <1>2, <1>a DEF Alone
    <2>2. CASE (PushInc(p) /\ val[pslot[p]] = 0) \/ PushAdd(p)
      BY <1>a, <2>2, PushSteps DEF Ring!Next
    <2>3. CASE ~((PushInc(p) /\ val[pslot[p]] = 0) \/ PushAdd(p))
      <3>1. Still(p, c)
        BY <1>a, <2>1, <2>3, ProducerStutters DEF Push, WInv
      <3> QED BY <1>a, <3>1, StillStep
    <2> QED BY <2>2, <2>3
  <1>3. CASE \E d \in Consumers : PopStep(d) \/ PopInterrupted(d)
    <2>1. PopStep(c) \/ PopInterrupted(c)
      BY <1>3, <1>a DEF Alone
    <2>2. CASE (PopDec(c) \/ PopRetry(c)) /\ val[cslot[c]] # 0
      BY <1>a, <2>2, PopSteps DEF Ring!Next
    <2>3. CASE PopTake(c)
      BY <1>a, <2>3, TakeStutters
    <2>4. CASE ~(PopTake(c) \/ ((PopDec(c) \/ PopRetry(c)) /\ val[cslot[c]] # 0))
      <3>1. Still(p, c)
        BY <1>a, <2>1, <2>4, ConsumerStutters DEF PopStep, WInv
      <3> QED BY <1>a, <3>1, StillStep
    <2> QED BY <2>1, <2>2, <2>3, <2>4
  <1> QED BY <1>1, <1>2, <1>3 DEF Next

LEMMA RingStart == Init /\ OneOfEach => RingInv /\ Ring!Init
  <1> SUFFICES ASSUME Init, OneOfEach PROVE RingInv /\ Ring!Init
    OBVIOUS
  <1>a. PICK p, c : Alone(p, c)
    BY TwoThreads
  <1>1. ppc[p] = "idle" /\ cpc[c] = "idle"
    BY <1>a DEF Init, Alone
  <1>2. PushesAhead = 0 /\ PopsAhead = 0 /\ ~Takes(c)
    BY <1>1, <1>a, ProducerAlone, ConsumerAlone DEF AheadPC, Takes, TakePC
  <1>3. FirstTicket = 0 /\ NextTicket = 0
    BY <1>2 DEF Init, FirstTicket, NextTicket
  <1>4. \A s : Window(s) = {}
    BY <1>3 DEF Window
  <1>5. RingInv
    <2>1. \A s \in Slots : val[s] = Cardinality(Window(s))
      BY <1>4, FS_EmptySet DEF Init
    <2>2. /\ \A q \in Producers : ppc[q] \notin {"inc", "add"}
          /\ \A d \in Consumers : cpc[d] \notin AheadPC
      BY DEF Init, AheadPC
    <2> QED BY <1>3, <2>1, <2>2 DEF RingInv
  <1>6. WaitingTickets = <<>>
    BY <1>3 DEF WaitingTickets
  <1>7. Taken = <<>> /\ delivered = <<>>
    BY <1>2, <1>a, ConsumerAlone DEF Init
  <1>8. delivered \o Taken = <<>>
    BY <1>7
  <1> QED BY <1>5, <1>6, <1>8 DEF Ring!Init, Init

\* With one thread at each end, as requestQueue has, the futex queue implements the
\* ring of RingQueue: a push takes effect with the counter's increment, a pop with its
\* decrement, and every other instruction of LFQueue::push and LFQueue::pop is none of
\* the ring's steps.
THEOREM RingImplemented ==
  ASSUME OneOfEach
  PROVE  Spec => RingSafety
  <1>1. Init => RingInv /\ Ring!Init
    BY RingStart
  <1>2. WInv /\ SlotAccounting /\ RingInv /\ [Next]_vars
          => RingInv' /\ [Ring!Next]_(Ring!ringVars)
    BY RingStep
  <1> QED
    BY <1>1, <1>2, TypeAndWaiters, CountersMatchPointers, PTL
       DEF Spec, WInv, RingSafety, Ring!Safety
=============================================================================
