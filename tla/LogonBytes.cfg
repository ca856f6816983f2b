\* A byte has two values, so that short numbers are as frequent as long ones.
CONSTANTS
  Base = 2
  W = 3
  H = 2
  U = 2
  Modulus <- MCModulus
  Generator <- MCGenerator
SPECIFICATION Spec
INVARIANTS TypeOK HashRestored ChallengeAligned DecidedByLengths
CHECK_DEADLOCK FALSE
