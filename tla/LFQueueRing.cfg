\* Five items through two slots: three pushes may be lost before the first pop, a
\* slot counts up to three units, and the tickets go twice round the ring and on.
CONSTANTS
  Producers = {p1}
  Consumers = {c1}
  Items = {i1, i2, i3, i4, i5}
  Size = 2
  Null = Null
SPECIFICATION FairSpec
PROPERTIES
  RingSpec
  PushedIsReceived
