---------------------------- MODULE MessageChannel ----------------------------
(***************************************************************************)
(* What the proxy and the base rely on when they exchange messages over a  *)
(* socket: a message whose write has finished is read once, whole, and in  *)
(* the order of the writes.  Three things end the promise, and the code    *)
(* knows of none of them: the process of the writer goes away, and a       *)
(* reader at end of file takes the remains of an earlier header for a      *)
(* message; a write is cut short, and from there on the stream is out of   *)
(* step with its headers.                                                  *)
(***************************************************************************)
EXTENDS Naturals, Sequences

CONSTANTS
  Messages      \* what a message says: its kind and its body

VARIABLES
  accepted,     \* the messages whose write has finished, in that order
  received,     \* what pollMessage has returned
  open,         \* the process of the writer lives
  intact        \* no write was cut short

channelVars == <<accepted, received, open, intact>>

Init ==
  /\ accepted = <<>>
  /\ received = <<>>
  /\ open = TRUE
  /\ intact = TRUE

\* writeMessage puts the whole message into the socket.
Accept(m) ==
  /\ open /\ intact
  /\ accepted' = Append(accepted, m)
  /\ UNCHANGED <<received, open, intact>>

\* pollMessage returns the next message.
Receive ==
  /\ intact
  /\ Len(received) < Len(accepted)
  /\ received' = Append(received, accepted[Len(received) + 1])
  /\ UNCHANGED <<accepted, open, intact>>

\* The writer's process exits or is killed.
Close ==
  /\ intact
  /\ open' = FALSE
  /\ UNCHANGED <<accepted, received, intact>>

\* At end of file, with every message read, pollMessage makes one up.
Echo(m) ==
  /\ intact /\ ~open
  /\ Len(received) >= Len(accepted)
  /\ received' = Append(received, m)
  /\ UNCHANGED <<accepted, open, intact>>

\* A write is cut short; nothing is promised from then on.
Cut ==
  /\ intact' = FALSE
  /\ UNCHANGED <<accepted, received, open>>

OutOfStep == ~intact /\ ~intact'

Next ==
  \/ \E m \in Messages : Accept(m) \/ Echo(m)
  \/ Receive \/ Close \/ Cut \/ OutOfStep

Spec == Init /\ [][Next]_channelVars
=============================================================================
