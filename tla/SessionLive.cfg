\* A healthy session: both inits succeed, the allocator keeps what it freed, the
\* socket buffer holds all the responses there can be, and no synchronous call
\* takes three seconds.  Streams are started and stopped while frames flow, and three
\* requests meet a queue of two.
CONSTANTS
  States = {"sleep"}
  MaxCalls = 3
  MaxFrames = 1
  RespCap = 8
  Calls = {"start", "stop", "sync"}
  RequestSlots = 2
  InputStarts = {TRUE}
  TimeoutsHappen = FALSE
  FreedReads = {"kept"}
  FdReuse = {TRUE, FALSE}
  ProcessInits = {TRUE}
  PreprocessInits = {TRUE}
  Results <- SomeEvents
SPECIFICATION FairSpec
CHECK_DEADLOCK FALSE
INVARIANTS
  TypeOK
PROPERTIES
  SyncCompletes
  OverflowLosesOnlyItsOwn
