\* B is any residue, short ones among them.
CONSTANTS
  Base = 2
  W = 3
  H = 2
  U = 2
  Modulus <- MCModulus
  Generator <- MCGenerator
SPECIFICATION Spec
INVARIANT BReadBack
CHECK_DEADLOCK FALSE
