\* Challenges in two pieces.
SPECIFICATION Spec
CONSTANTS
  Capacity = 4
  HeaderBytes = 1
  ChallengeBytes = 3
  ProofBytes = 3
  RealmListBytes = 2
  NameSizes = {1, 2}
  MaxPackets = 4
PROPERTY PacketsHandled
CHECK_DEADLOCK FALSE
