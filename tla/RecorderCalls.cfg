\* Calls at any moment, read errors, one spurious wake-up, a data socket that one frame
\* fills.  The thread ends after stop, or the object is deleted.
CONSTANTS
  MaxCalls = 5
  ErrorRetry = 2
  ReadResults = {"ok", "error"}
  MaxSpurious = 1
  WireRoom = 1
SPECIFICATION FairSpec
CHECK_DEADLOCK FALSE
INVARIANTS
  TypeOK
  ReadsOpenIfUndisturbed
PROPERTIES
  StartIsHeard
  PauseStopsInput
  StopEndsThread
