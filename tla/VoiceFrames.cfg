\* Both shipped configurations; every answer of the engines, every length of the
\* segments and a state change between any two frames.  Nothing is bounded.
CONSTANTS
  Configs <- ShippedConfigs
  FreshPre = {FALSE}
SPECIFICATION Spec
INVARIANTS
  TypeOK
  AssertionsHold
  VadProtocolKept
  AudioSentOnce
  OutputHasItsReason
