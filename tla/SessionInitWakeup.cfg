\* Everything initialises: does init_siren return?
CONSTANTS
  States = {"awake", "sleep"}
  MaxCalls = 1
  MaxFrames = 0
  RespCap = 8
  Calls = {"async", "sync"}
  RequestSlots = 4
  InputStarts = {TRUE}
  TimeoutsHappen = FALSE
  FreedReads = {"kept"}
  FdReuse = {FALSE}
  ProcessInits = {TRUE}
  PreprocessInits = {TRUE}
  Results <- NoEvents
SPECIFICATION FairSpec
CHECK_DEADLOCK FALSE
PROPERTIES
  InitReturns
