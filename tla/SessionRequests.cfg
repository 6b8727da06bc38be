\* Requests of every kind while a frame flows, streams that are refused, inits that
\* fail, timeouts, either outcome of the freed read and a response socket that holds
\* one message.  The session ends with destroy.  The descriptor that may be closed
\* twice only ends the response thread early: SessionLive has it.
CONSTANTS
  States = {"sleep"}
  MaxCalls = 3
  MaxFrames = 1
  RespCap = 1
  Calls = {"start", "stop", "async", "sync", "SET_STEER"}
  RequestSlots = 2
  InputStarts = {TRUE, FALSE}
  TimeoutsHappen = TRUE
  FreedReads = {"kept", "clobbered"}
  FdReuse = {FALSE}
  ProcessInits = {TRUE, FALSE}
  PreprocessInits = {TRUE, FALSE}
  Results <- TwoEvents
SPECIFICATION Spec
CHECK_DEADLOCK FALSE
INVARIANTS
  RequestsGoRound
  AnswerComesFirst
  ExitLosesNoRequest
  ResponsesFindTheirCall
