---------------------------- MODULE SirenChannels ----------------------------
(***************************************************************************)
(* What the two processes of BlackSiren share: the request channel (proxy  *)
(* to base), the response channel (base to proxy) and the data socket that *)
(* carries recorded frames.  The channels of src/siren_channel.cpp are     *)
(* stream sockets and every writer holds writeGuard for its one write, so  *)
(* a channel is a sequence of whole messages.                              *)
(***************************************************************************)
EXTENDS Naturals, Sequences, SequencesExt

CONSTANTS
  States,       \* the siren states an application may set; holds "sleep"
  MaxCalls,     \* bound: calls of the application before destroy_siren
  MaxFrames,    \* bound: frames the microphone delivers
  RespCap       \* responses that fit in the socket buffer before write blocks

ASSUME BoundsAreNat == MaxCalls \in Nat /\ MaxFrames \in Nat
ASSUME SleepIsAState == "sleep" \in States
ASSUME RespCapPositive == RespCap \in Nat \ {0}

VARIABLES
  reqChan,      \* requests written by the proxy and not yet read by the base
  respChan,     \* responses written by the base and not yet read by the proxy
  wire,         \* number of frames in the data socket
  wireOpen,     \* the recording thread still has its end of the data socket
  baseAlive     \* the forked process has not exited: waitpid blocks

chanVars == <<reqChan, respChan, wire, wireOpen, baseAlive>>

\* A message: its kind, the call it belongs to (0 for none), the state it carries.
Message(kind, call, state) == [kind |-> kind, call |-> call, state |-> state]
Plain(kind, call) == Message(kind, call, "none")

Passed == {"SET_STEER", "SYNC_VT_WORD_LIST"}
RequestKinds ==
  Passed \cup {"START_PROCESS_STREAM", "STOP_PROCESS_STREAM", "SET_STATE",
               "DESTROY", "DESTROY_ON_INIT"}
InitAnswers == {"ON_INIT_OK", "ON_INIT_FAILED"}
ResponseKinds == InitAnswers \cup {"ON_VOICE_EVENT", "ON_CALLBACK", "ON_DESTROY"}

Messages(kinds) ==
  [kind : kinds, call : 0..(MaxCalls + 1), state : States \cup {"none"}]

\* writeMessage: one write for the whole message, blocking while the buffer is
\* full.  It never reports a failure, so no caller has a path for one.
Respond(m) ==
  /\ Len(respChan) < RespCap
  /\ respChan' = Append(respChan, m)

ChannelTypes ==
  /\ reqChan \in Seq(Messages(RequestKinds))
  /\ respChan \in Seq(Messages(ResponseKinds))
  /\ Len(respChan) <= RespCap
  /\ wire \in 0..MaxFrames
  /\ wireOpen \in BOOLEAN
  /\ baseAlive \in BOOLEAN

ChannelInit ==
  /\ reqChan = <<>>
  /\ respChan = <<>>
  /\ wire = 0
  /\ wireOpen = TRUE
  /\ baseAlive = TRUE
=============================================================================
