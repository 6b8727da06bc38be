------------------------------- MODULE LFQueue -------------------------------
(***************************************************************************)
(* The futex-based ring queue of src/lfqueue.cpp at the granularity of its *)
(* atomic instructions.  It carries every request of the proxy             *)
(* (requestQueue) and every package of the base (processQueue).            *)
(*                                                                         *)
(* Each push and each pop draws a ticket; the ticket modulo the ring size  *)
(* names the slot.  A slot is a counter `val` guarded by a futex, a count  *)
(* of waiters and one data pointer.  Every caller passes a NULL timeout    *)
(* and push passes block = 0, so the time-out branches of LFCounter and    *)
(* the blocking branch of inc never run and val is never negative; they    *)
(* are left out, as are remain(), reset() and queued_item_, which no       *)
(* caller uses.                                                            *)
(***************************************************************************)
EXTENDS Integers, Sequences, FiniteSets

CONSTANTS
  Producers,    \* threads that push
  Consumers,    \* threads that pop
  Items,        \* the pointers pushed, each a fresh allocation pushed once
  Size,         \* number of slots, pos_mask_ + 1
  Null          \* nullptr

ASSUME ThreadsFinite == IsFiniteSet(Producers) /\ IsFiniteSet(Consumers)
ASSUME SizePositive == Size \in Nat \ {0}
ASSUME NullIsNoItem == Null \notin Items

VARIABLES
  push_,        \* next push ticket
  pop_,         \* next pop ticket
  val,          \* val[s]: LFCounter::val of slot s
  waiters,      \* waiters[s]: LFCounter::waiters of slot s
  data,         \* data[s]: LFItem::data_ of slot s
  ppc,          \* ppc[p]: where producer p is in LFQueue::push
  pslot,        \* pslot[p]: the slot of its ticket
  pitem,        \* pitem[p]: the pointer it pushes
  perr,         \* perr[p]: what LFItem::push returned to LFQueue::push
  pret,         \* pret[p]: what its last LFQueue::push returned
  cpc,          \* cpc[c]: where consumer c is in LFQueue::pop
  cslot,        \* cslot[c]: the slot of its ticket
  cgot,         \* cgot[c]: what LFCounter::dec returned
  order,        \* history: items in the order of their push tickets
  delivered,    \* history: items in the order pop returned them
  dropped,      \* history: items lost to an overflow
  nulls,        \* history: number of pops that came back empty-handed
  lapped        \* history: items whose ticket was drawn for a slot that the
                \* producer of an earlier ticket had not filled yet

slotVars == <<val, waiters, data>>
prodVars == <<push_, ppc, pslot, pitem, perr, pret, order, lapped>>
consVars == <<pop_, cpc, cslot, cgot, delivered, nulls>>
vars == <<slotVars, prodVars, consVars, dropped>>

Slots == 0..(Size - 1)
Slot(ticket) == ticket % Size

PushPC == {"idle", "inc", "add", "cas", "check", "wake", "return"}
PopPC == {"idle", "dec", "enter", "wait", "sleep", "retry", "leave", "check",
          "wake", "take"}

\* Producer q holds a ticket whose slot it has still to fill or to give up.
Unfilled(q) == ppc[q] \in {"inc", "add", "cas"}

SlotTypes ==
  /\ push_ \in Nat
  /\ pop_ \in Nat
  /\ val \in [Slots -> Nat]
  /\ waiters \in [Slots -> Nat]
  /\ data \in [Slots -> Items \cup {Null}]

ProducerTypes ==
  /\ ppc \in [Producers -> PushPC]
  /\ pslot \in [Producers -> Slots]
  /\ pitem \in [Producers -> Items \cup {Null}]
  /\ perr \in [Producers -> {0, -2}]
  /\ pret \in [Producers -> {0, -2}]
  /\ \A p \in Producers : Unfilled(p) => pitem[p] \in Items

ConsumerTypes ==
  /\ cpc \in [Consumers -> PopPC]
  /\ cslot \in [Consumers -> Slots]
  /\ cgot \in [Consumers -> Nat]
  /\ \A c \in Consumers : cpc[c] = "take" => cgot[c] = 1

HistoryTypes ==
  /\ order \in Seq(Items)
  /\ delivered \in Seq(Items)
  /\ dropped \subseteq Items
  /\ nulls \in Nat
  /\ lapped \subseteq Items

TypeOK == SlotTypes /\ ProducerTypes /\ ConsumerTypes /\ HistoryTypes

Init ==
  /\ push_ = 0
  /\ pop_ = 0
  /\ val = [s \in Slots |-> 0]
  /\ waiters = [s \in Slots |-> 0]
  /\ data = [s \in Slots |-> Null]
  /\ ppc = [p \in Producers |-> "idle"]
  /\ pslot = [p \in Producers |-> 0]
  /\ pitem = [p \in Producers |-> Null]
  /\ perr = [p \in Producers |-> 0]
  /\ pret = [p \in Producers |-> 0]
  /\ cpc = [c \in Consumers |-> "idle"]
  /\ cslot = [c \in Consumers |-> 0]
  /\ cgot = [c \in Consumers |-> 0]
  /\ order = <<>>
  /\ delivered = <<>>
  /\ dropped = {}
  /\ nulls = 0
  /\ lapped = {}

-----------------------------------------------------------------------------
(* Every sleeper of slot s leaves futex_wait and goes on to dec_if_gt0.    *)
WakeAll(s) ==
  cpc' = [c \in Consumers |->
            IF cpc[c] = "sleep" /\ cslot[c] = s THEN "retry" ELSE cpc[c]]

-----------------------------------------------------------------------------
(* LFQueue::push *)

\* seq = fetch_and_add(&push_, 1) picks the slot.
PushTicket(p, v) ==
  /\ ppc[p] = "idle"
  /\ \A i \in DOMAIN order : order[i] # v
  /\ push_' = push_ + 1
  /\ pslot' = [pslot EXCEPT ![p] = Slot(push_)]
  /\ pitem' = [pitem EXCEPT ![p] = v]
  /\ order' = Append(order, v)
  /\ lapped' = IF \E q \in Producers : Unfilled(q) /\ pslot[q] = Slot(push_)
                 THEN lapped \cup {v} ELSE lapped
  /\ ppc' = [ppc EXCEPT ![p] = "inc"]
  /\ UNCHANGED <<slotVars, consVars, perr, pret, dropped>>

\* inc_if_le0 succeeds: 0 becomes 1 and the slot is this producer's to fill.
PushInc(p) ==
  LET s == pslot[p] IN
  /\ ppc[p] = "inc"
  /\ \/ /\ val[s] = 0
        /\ val' = [val EXCEPT ![s] = 1]
        /\ ppc' = [ppc EXCEPT ![p] = "cas"]
     \/ /\ val[s] > 0
        /\ val' = val
        /\ ppc' = [ppc EXCEPT ![p] = "add"]
  /\ UNCHANGED <<push_, pslot, pitem, perr, pret, order, lapped, waiters, data,
                 consVars, dropped>>

\* Mutant of PushAdd: an overflow gives its unit back.
PushAddReturned(p) ==
  LET s == pslot[p] IN
  /\ ppc[p] = "add"
  /\ \/ /\ val[s] = 0
        /\ val' = [val EXCEPT ![s] = 1]
        /\ ppc' = [ppc EXCEPT ![p] = "cas"]
        /\ UNCHANGED <<perr, dropped>>
     \/ /\ val[s] > 0
        /\ ppc' = [ppc EXCEPT ![p] = "check"]
        /\ perr' = [perr EXCEPT ![p] = -2]
        /\ dropped' = dropped \cup {pitem[p]}
        /\ UNCHANGED val
  /\ UNCHANGED <<push_, pslot, pitem, pret, order, lapped, waiters, data, consVars>>

\* The slot was taken: fetch_and_add increments it all the same.  A consumer may
\* have emptied it since; otherwise LFItem::push gives up with -2.
PushAdd(p) ==
  LET s == pslot[p] IN
  /\ ppc[p] = "add"
  /\ val' = [val EXCEPT ![s] = @ + 1]
  /\ \/ /\ val[s] = 0
        /\ ppc' = [ppc EXCEPT ![p] = "cas"]
        /\ UNCHANGED <<perr, dropped>>
     \/ /\ val[s] > 0
        /\ ppc' = [ppc EXCEPT ![p] = "check"]
        /\ perr' = [perr EXCEPT ![p] = -2]
        /\ dropped' = dropped \cup {pitem[p]}
  /\ UNCHANGED <<push_, pslot, pitem, pret, order, lapped, waiters, data, consVars>>

\* Mutant of PushStore: a plain store instead of the compare-and-swap.
PushStoreBlind(p) ==
  /\ ppc[p] = "cas"
  /\ data' = [data EXCEPT ![pslot[p]] = pitem[p]]
  /\ perr' = [perr EXCEPT ![p] = 0]
  /\ ppc' = [ppc EXCEPT ![p] = "check"]
  /\ UNCHANGED <<push_, pslot, pitem, pret, order, lapped, val, waiters,
                 consVars, dropped>>

\* while (!CAS(&data_, nullptr, pdata));
PushStore(p) ==
  LET s == pslot[p] IN
  /\ ppc[p] = "cas"
  /\ data[s] = Null
  /\ data' = [data EXCEPT ![s] = pitem[p]]
  /\ perr' = [perr EXCEPT ![p] = 0]
  /\ ppc' = [ppc EXCEPT ![p] = "check"]
  /\ UNCHANGED <<push_, pslot, pitem, pret, order, lapped, val, waiters, consVars,
                 dropped>>

\* wake_if_needed reads waiters ...
PushCheck(p) ==
  /\ ppc[p] = "check"
  /\ ppc' = [ppc EXCEPT ![p] =
               IF waiters[pslot[p]] > 0 THEN "wake" ELSE "return"]
  /\ UNCHANGED <<push_, pslot, pitem, perr, pret, order, lapped, slotVars, consVars,
                 dropped>>

\* ... and wakes every sleeper of the slot.
PushWake(p) ==
  /\ ppc[p] = "wake"
  /\ WakeAll(pslot[p])
  /\ ppc' = [ppc EXCEPT ![p] = "return"]
  /\ UNCHANGED <<push_, pslot, pitem, perr, pret, order, lapped, slotVars, pop_,
                 cslot, cgot, delivered, nulls, dropped>>

\* Whatever LFItem::push said, LFQueue::push returns 0.
PushReturn(p) ==
  /\ ppc[p] = "return"
  /\ pret' = [pret EXCEPT ![p] = 0]
  /\ ppc' = [ppc EXCEPT ![p] = "idle"]
  /\ UNCHANGED <<push_, pslot, pitem, perr, order, lapped, slotVars, consVars, dropped>>

-----------------------------------------------------------------------------
(* LFQueue::pop *)

\* Mutant of PopTicket: add_and_fetch instead of fetch_and_add.
PopTicketAhead(c) ==
  /\ cpc[c] = "idle"
  /\ pop_' = pop_ + 1
  /\ cslot' = [cslot EXCEPT ![c] = Slot(pop_ + 1)]
  /\ cpc' = [cpc EXCEPT ![c] = "dec"]
  /\ UNCHANGED <<slotVars, prodVars, cgot, delivered, nulls, dropped>>

PopTicket(c) ==
  /\ cpc[c] = "idle"
  /\ pop_' = pop_ + 1
  /\ cslot' = [cslot EXCEPT ![c] = Slot(pop_)]
  /\ cpc' = [cpc EXCEPT ![c] = "dec"]
  /\ UNCHANGED <<slotVars, prodVars, cgot, delivered, nulls, dropped>>

\* Mutant of Decrement: pop does not compare the old value with 1.
DecrementAnyUnit(c, next) ==
  /\ val[cslot[c]] > 0
  /\ val' = [val EXCEPT ![cslot[c]] = @ - 1]
  /\ cgot' = [cgot EXCEPT ![c] = 1]
  /\ cpc' = [cpc EXCEPT ![c] = next]
  /\ UNCHANGED <<waiters, nulls>>

\* dec_if_gt0 succeeds; an old value other than 1 makes LFItem::pop return -1
\* and a null pointer.
Decrement(c, next) ==
  LET s == cslot[c] IN
  /\ val[s] > 0
  /\ val' = [val EXCEPT ![s] = @ - 1]
  /\ cgot' = [cgot EXCEPT ![c] = val[s]]
  /\ nulls' = IF val[s] = 1 THEN nulls ELSE nulls + 1
  /\ cpc' = [cpc EXCEPT ![c] = next]
  /\ UNCHANGED waiters

PopDec(c) ==
  /\ cpc[c] = "dec"
  /\ \/ Decrement(c, "check")
     \/ /\ val[cslot[c]] = 0
        /\ cpc' = [cpc EXCEPT ![c] = "enter"]
        /\ UNCHANGED <<val, waiters, cgot, nulls>>
  /\ UNCHANGED <<data, prodVars, pop_, cslot, delivered, dropped>>

\* ++waiters
PopEnter(c) ==
  /\ cpc[c] = "enter"
  /\ waiters' = [waiters EXCEPT ![cslot[c]] = @ + 1]
  /\ cpc' = [cpc EXCEPT ![c] = "wait"]
  /\ UNCHANGED <<val, data, prodVars, pop_, cslot, cgot, delivered, nulls,
                 dropped>>

\* Mutant of PopWait: a sleep that does not compare val, as a plain wait would.
PopWaitUnchecked(c) ==
  /\ cpc[c] = "wait"
  /\ cpc' = [cpc EXCEPT ![c] = "sleep"]
  /\ UNCHANGED <<slotVars, prodVars, pop_, cslot, cgot, delivered, nulls,
                 dropped>>

\* futex_wait(&val, 0): the kernel sleeps only if val still is the value that
\* dec_if_gt0 read, and returns at once otherwise.
PopWait(c) ==
  /\ cpc[c] = "wait"
  /\ cpc' = [cpc EXCEPT ![c] = IF val[cslot[c]] = 0 THEN "sleep" ELSE "retry"]
  /\ UNCHANGED <<slotVars, prodVars, pop_, cslot, cgot, delivered, nulls,
                 dropped>>

\* A signal (the proxy handles SIGCHLD) ends futex_wait without a wake.
PopInterrupted(c) ==
  /\ cpc[c] = "sleep"
  /\ cpc' = [cpc EXCEPT ![c] = "retry"]
  /\ UNCHANGED <<slotVars, prodVars, pop_, cslot, cgot, delivered, nulls,
                 dropped>>

PopRetry(c) ==
  /\ cpc[c] = "retry"
  /\ \/ Decrement(c, "leave")
     \/ /\ val[cslot[c]] = 0
        /\ cpc' = [cpc EXCEPT ![c] = "wait"]
        /\ UNCHANGED <<val, waiters, cgot, nulls>>
  /\ UNCHANGED <<data, prodVars, pop_, cslot, delivered, dropped>>

\* Mutant of PopLeave: waiters is decremented twice.
PopLeaveTwice(c) ==
  /\ cpc[c] = "leave"
  /\ waiters' = [waiters EXCEPT ![cslot[c]] = @ - 2]
  /\ cpc' = [cpc EXCEPT ![c] = "check"]
  /\ UNCHANGED <<val, data, prodVars, pop_, cslot, cgot, delivered, nulls,
                 dropped>>

\* --waiters
PopLeave(c) ==
  /\ cpc[c] = "leave"
  /\ waiters' = [waiters EXCEPT ![cslot[c]] = @ - 1]
  /\ cpc' = [cpc EXCEPT ![c] = "check"]
  /\ UNCHANGED <<val, data, prodVars, pop_, cslot, cgot, delivered, nulls,
                 dropped>>

AfterWake(c) == IF cgot[c] = 1 THEN "take" ELSE "idle"

PopCheck(c) ==
  /\ cpc[c] = "check"
  /\ cpc' = [cpc EXCEPT ![c] =
               IF waiters[cslot[c]] > 0 THEN "wake" ELSE AfterWake(c)]
  /\ UNCHANGED <<slotVars, prodVars, pop_, cslot, cgot, delivered, nulls,
                 dropped>>

PopWake(c) ==
  /\ cpc[c] = "wake"
  /\ cpc' = [d \in Consumers |->
               IF d = c THEN AfterWake(c)
               ELSE IF cpc[d] = "sleep" /\ cslot[d] = cslot[c] THEN "retry"
               ELSE cpc[d]]
  /\ UNCHANGED <<slotVars, prodVars, pop_, cslot, cgot, delivered, nulls,
                 dropped>>

\* Spin until the pointer is there, then CAS it back to null.
PopTake(c) ==
  LET s == cslot[c] IN
  /\ cpc[c] = "take"
  /\ data[s] # Null
  /\ data' = [data EXCEPT ![s] = Null]
  /\ delivered' = Append(delivered, data[s])
  /\ cpc' = [cpc EXCEPT ![c] = "idle"]
  /\ UNCHANGED <<val, waiters, prodVars, pop_, cslot, cgot, nulls, dropped>>

-----------------------------------------------------------------------------
Push(p) ==
  \/ \E v \in Items : PushTicket(p, v)
  \/ PushInc(p) \/ PushAdd(p) \/ PushStore(p)
  \/ PushCheck(p) \/ PushWake(p) \/ PushReturn(p)

PopStep(c) ==
  \/ PopTicket(c) \/ PopDec(c) \/ PopEnter(c) \/ PopWait(c) \/ PopRetry(c)
  \/ PopLeave(c) \/ PopCheck(c) \/ PopWake(c) \/ PopTake(c)

Next ==
  \/ \E p \in Producers : Push(p)
  \/ \E c \in Consumers : PopStep(c) \/ PopInterrupted(c)

Spec == Init /\ [][Next]_vars

\* A thread inside push or pop keeps running, and consumers pop forever.  Nobody
\* has to start a push and no signal has to arrive.
PushContinues(p) ==
  PushInc(p) \/ PushAdd(p) \/ PushStore(p) \/ PushCheck(p) \/ PushWake(p)
    \/ PushReturn(p)

Fairness ==
  /\ \A p \in Producers : WF_vars(PushContinues(p))
  /\ \A c \in Consumers : WF_vars(PopStep(c))

FairSpec == Spec /\ Fairness

-----------------------------------------------------------------------------
(* Safety *)

\* Producers that own the right to fill slot s and have not done so.
Committing(s) == {p \in Producers : ppc[p] = "cas" /\ pslot[p] = s}

\* Consumers that drew the last unit of slot s and have not taken the pointer.
Taking(s) ==
  {c \in Consumers : /\ cslot[c] = s
                     /\ cgot[c] = 1
                     /\ cpc[c] \in {"leave", "check", "wake", "take"}}

\* Consumers between ++waiters and --waiters on slot s.
Waiting(s) ==
  {c \in Consumers : cslot[c] = s /\ cpc[c] \in {"wait", "sleep", "retry", "leave"}}

\* The pointers in and on their way into a slot match the units of its counter,
\* less those promised to consumers: the counter never claims a pointer that
\* does not come, however pushes, pops and overflows interleave.
SlotAccounting ==
  \A s \in Slots :
    Cardinality(Committing(s)) + (IF data[s] = Null THEN 0 ELSE 1)
      = Cardinality(Taking(s)) + (IF val[s] > 0 THEN 1 ELSE 0)

\* A thread in one of the two compare-and-swap loops never spins alone: a
\* consumer that finds null has a producer about to store, and a producer that
\* finds a pointer has a consumer about to take it.
SpinsAreServed ==
  \A s \in Slots :
    /\ Taking(s) # {} /\ data[s] = Null => Committing(s) # {}
    /\ Committing(s) # {} /\ data[s] # Null => Taking(s) # {}

\* The futex protocol loses no wake-up: a consumer asleep on a slot that holds a
\* unit is about to be woken by a producer that has not yet read waiters.
NoLostWakeup ==
  \A c \in Consumers :
    cpc[c] = "sleep" /\ val[cslot[c]] > 0 =>
      \E p \in Producers :
        pslot[p] = cslot[c] /\ ppc[p] \in {"cas", "check", "wake"}

\* The waiters field counts the consumers in the waiting loop, which is what
\* lets wake_if_needed skip the system call.
WaitersCounted == \A s \in Slots : waiters[s] = Cardinality(Waiting(s))

InHand(v) == {p \in Producers : Unfilled(p) /\ pitem[p] = v}
InRing(v) == {s \in Slots : data[s] = v}
Popped(v) == {i \in DOMAIN delivered : delivered[i] = v}

Surplus[s \in Nat] ==
  (IF val[s] > 1 THEN val[s] - 1 ELSE 0) + (IF s = 0 THEN 0 ELSE Surplus[s - 1])

\* A pointer that was pushed is in exactly one place: with its producer, in one
\* slot, handed to one consumer once, or dropped; nothing is delivered twice or both
\* delivered and dropped.  And every overflow is paid back by exactly one pop that
\* returns null: the loops of the request and process threads that skip a null
\* pointer skip as many as were dropped, no more.
EachItemOnce ==
  /\ \A v \in Items :
       Cardinality(InHand(v)) + Cardinality(InRing(v)) + Cardinality(Popped(v))
         + (IF v \in dropped THEN 1 ELSE 0)
         = Cardinality({i \in DOMAIN order : order[i] = v})
  /\ Cardinality(dropped) = nulls + Surplus[Size - 1]

\* Until an overflow, or until a stalled producer is lapped by the tickets of the
\* others, an item is overtaken only while a consumer that came to its slot before has
\* still to take it, also when the ring wraps.  So a single consumer, as both queues of
\* the program have, receives the pointers in the order of their push tickets: when it
\* has taken one it is idle, and no earlier one may be missing.
Delivered(v) == Popped(v) # {}
FifoUntilDisturbed ==
  dropped = {} /\ lapped = {} =>
    \A i, j \in DOMAIN order :
      i < j /\ Delivered(order[j]) /\ ~Delivered(order[i]) =>
        \E c \in Consumers : cpc[c] # "idle" /\ cslot[c] = Slot(i - 1)

(* Liveness *)

Pushed(v) == \E i \in DOMAIN order : order[i] = v

\* A pointer that entered the queue reaches a consumer unless it was dropped: no
\* spin loop and no futex sleep keeps it in the ring.
PushedIsReceived ==
  \A v \in Items : Pushed(v) ~> (Delivered(v) \/ v \in dropped)
=============================================================================
