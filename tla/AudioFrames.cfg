\* The lengths of the code in units of 2 ms (10, 16, 10 and 8 ms), a calibration
\* that ends inside a frame, and a socket that takes a frame whole or in two pieces.
CONSTANTS
  FrameLen = 5
  CalLen = 7
  AecLen = 8
  OutLen = 5
  BfLen = 4
  Pieces = {3, 5}
  WireRoom = 10
  QueueLen = 2
  MaxFrames = 8
SPECIFICATION Spec
CHECK_DEADLOCK FALSE
INVARIANTS
  TypeOK
  SamplesInOrder
  ReferenceAligned
  JudgedByMark
  OneLateFrame
