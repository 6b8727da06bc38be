-------------------------------- MODULE Ring --------------------------------
(***************************************************************************)
(* What a push on LFQueue (src/lfqueue.cpp) does to the tickets that have  *)
(* not been popped, when pushes and pops do not overlap.  RingQueue makes  *)
(* a specification of it; WordList and SirenProxy build their queues on it. *)
(***************************************************************************)
EXTENDS Naturals, Sequences

\* The last ticket of a slot is slots behind its next one.  While it is not popped the
\* slot counts above 0: the new item is dropped, but not its ticket, and the item in the
\* slot is now popped at that ticket, which brings the count from 1 to 0.  The ticket
\* it came with finds a count above 1 and pops null.
PushTo(queue, item, slots, null) ==
  IF Len(queue) < slots THEN Append(queue, item)
  ELSE LET last == Len(queue) + 1 - slots
       IN Append([queue EXCEPT ![last] = null], queue[last])
=============================================================================
