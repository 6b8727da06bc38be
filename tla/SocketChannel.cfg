\* A bodyless and a long message, five writes through a socket that blocks at three
\* units, a header being two: every long write blocks and can be cut, with one to
\* three units of its body missing, so the reader may end up on a header, inside one
\* or past it.
CONSTANTS
  RequestThread = rt
  BaseThreads = {b1, b2}
  short = short
  long = long
  Messages = {short, long}
  BodyLen <- MCBodyLen
  HeaderLen = 2
  Room = 3
  StrayLens = {0, 2}
  ProxyPatience = 1
  BasePatience = 2
  NoThread = NoThread
  Torn = Torn
  MaxMessages = 5
  MaxSignals = 2
  MaxStrays = 1
  MaxEchoes = 1
SPECIFICATION FairSpec
CHECK_DEADLOCK FALSE
INVARIANTS
  TypeOK
  TornOncePerCut
PROPERTIES
  ChannelSpec
  AcceptedIsReceived
  WritesReturn
