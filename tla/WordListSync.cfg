\* Four calls with any of six structures, so that lists are dropped at either queue,
\* and a frame in the way.  The application may stop calling, so the run may end.
CONSTANTS
  Letters = {"n", "h", "z"}
  Phonemes <- MCPhonemes
  NUL = NUL
  Fillings <- MCFillings
  Defaults <- MCDefaults
  RequestSlots = 2
  ChannelRoom = 1
  PackageSlots = 2
  MaxCalls = 4
  MaxFrames = 1
SPECIFICATION Spec
CHECK_DEADLOCK FALSE
INVARIANTS
  EngineFollows
PROPERTIES
  ListsOnlyGetNewer
