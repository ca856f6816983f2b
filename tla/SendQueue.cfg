\* Short and long answers, a queue that fills, a socket that takes little.
SPECIFICATION Spec
CONSTANTS
  Sizes = {1, 2, 4}
  HighWaterMark = 4
  Room = 3
  MaxBytes = 12
INVARIANTS
  StreamIntact
  WakeupWhileQueued
  QueueBounded
  IInv
PROPERTIES
  GivenUpOnlyForLonger
  EndedClosed
  ImplementsMessageStream
CHECK_DEADLOCK FALSE
