----------------------------- MODULE LFQueueRing -----------------------------
(***************************************************************************)
(* LFQueue with one producer and one consumer implements RingQueue.  A     *)
(* push takes effect when it increments the slot's counter, a pop when it  *)
(* decrements it; tickets, data pointers and the futex are hidden.  This   *)
(* is requestQueue: the application's thread pushes, the request thread    *)
(* pops.  (With two producers a stalled one can be lapped, see             *)
(* FifoUntilDisturbed, and the queue keeps no order of its own.)           *)
(***************************************************************************)
EXTENDS LFQueue

\* requestQueue has one thread at each end.
OneOfEach == Cardinality(Producers) = 1 /\ Cardinality(Consumers) = 1

\* Tickets drawn whose push or pop has not taken effect yet.
PushesAhead == Cardinality({p \in Producers : ppc[p] \in {"inc", "add"}})
PopsAhead ==
  Cardinality({c \in Consumers : cpc[c] \in {"dec", "enter", "wait", "sleep", "retry"}})

FirstTicket == pop_ - PopsAhead
NextTicket == push_ - PushesAhead

\* The item that the last unit of slot s stands for, stored or about to be.
Holds(s) ==
  IF Committing(s) = {} THEN data[s] ELSE pitem[CHOOSE p \in Committing(s) : TRUE]

\* Of the waiting tickets of a slot the last one has the item.
Waits(t) == IF t + Size < NextTicket THEN Null ELSE Holds(Slot(t))
WaitingTickets == [i \in 1 .. (NextTicket - FirstTicket) |-> Waits(FirstTicket + i - 1)]

\* The consumer that drew a slot's last unit has what is in the slot, or is on its way
\* there if it is still empty.
Promised(s) == IF data[s] # Null THEN data[s] ELSE Holds(s)
Taken ==
  LET takers == {c \in Consumers : c \in Taking(cslot[c])}
  IN IF takers = {} THEN <<>> ELSE <<Promised(cslot[CHOOSE c \in takers : TRUE])>>

Ring == INSTANCE RingQueue WITH queue <- WaitingTickets, delivered <- delivered \o Taken

\* The futex queue promises its one producer and one consumer exactly the ring: which
\* push is lost, which item takes its ticket, which pop comes back empty and in what
\* order the rest arrives are decided by how many tickets wait when the push takes
\* effect, whatever the two threads do between their atomic instructions and however
\* often a signal wakes the sleeper.  And what waits is popped (LFQueue::push, pop).
RingSpec == Ring!Spec

\* RingSpec without the promise that pops go on.
RingSafety == Ring!Safety
=============================================================================
