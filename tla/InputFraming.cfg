\* Packets in any pieces, one after the other or many at once.
SPECIFICATION Spec
CONSTANTS
  Capacity = 4
  HeaderBytes = 1
  ChallengeBytes = 3
  ProofBytes = 3
  RealmListBytes = 2
  NameSizes = {0, 1, 2}
  MaxPackets = 4
INVARIANTS
  IInv
  WholeHandled
PROPERTIES
  ClosedOnlyBlocked
  ImplementsPacketChannel
  OnlyTornOrStalled
CHECK_DEADLOCK FALSE
