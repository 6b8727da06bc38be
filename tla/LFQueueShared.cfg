\* Two producers and two consumers share a ring of two slots; four items make
\* the ring wrap and overflow, a stalled producer may be lapped, and both
\* consumers may sleep on one slot.
CONSTANTS
  Producers = {p1, p2}
  Consumers = {c1, c2}
  Items = {i1, i2, i3, i4}
  Size = 2
  Null = Null
SPECIFICATION Spec
SYMMETRY Symmetry
INVARIANTS
  TypeOK
  SlotAccounting
  NoLostWakeup
  EachItemOnce
  FifoUntilDisturbed
