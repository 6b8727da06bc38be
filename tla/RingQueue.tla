------------------------------ MODULE RingQueue ------------------------------
(***************************************************************************)
(* What LFQueue promises one producer and one consumer: a queue that is    *)
(* first in, first out until a push finds Size tickets waiting.  That push *)
(* is lost, and the item that waits in its slot moves to the end of the    *)
(* queue and leaves a null behind.  Every push and every pop is one step.  *)
(***************************************************************************)
EXTENDS Ring

CONSTANTS Items, Size, Null

VARIABLES
  queue,      \* tickets pushed and not yet popped, with what a pop will find
  delivered,  \* items popped, in order
  nulls,      \* number of pops that found null
  dropped     \* items lost

ringVars == <<queue, delivered, nulls, dropped>>

Init == queue = <<>> /\ delivered = <<>> /\ nulls = 0 /\ dropped = {}

Push(v) ==
  /\ queue' = PushTo(queue, v, Size, Null)
  /\ dropped' = IF Len(queue) < Size THEN dropped ELSE dropped \cup {v}
  /\ UNCHANGED <<delivered, nulls>>

PopItem ==
  /\ queue # <<>> /\ Head(queue) # Null
  /\ delivered' = Append(delivered, Head(queue))
  /\ queue' = Tail(queue)
  /\ UNCHANGED <<nulls, dropped>>

PopNull ==
  /\ queue # <<>> /\ Head(queue) = Null
  /\ nulls' = nulls + 1
  /\ queue' = Tail(queue)
  /\ UNCHANGED <<delivered, dropped>>

Pop == PopItem \/ PopNull

Next == (\E v \in Items : Push(v)) \/ Pop

Safety == Init /\ [][Next]_ringVars

\* The consumer never stops popping; nobody has to push.
Spec == Safety /\ WF_ringVars(Pop)
=============================================================================
