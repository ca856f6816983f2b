\* Every logon on a connection of its own: logging on works.
SPECIFICATION Spec
CONSTANTS
  c1 = c1
  c2 = c2
  n1 = n1
  n2 = n2
  p1 = p1
  p2 = p2
  Conns = {c1, c2}
  Names = {n1}
  Passwords = {p1, p2}
  PasswordOf <- MCPasswordOf
  Rows = {"null", "unset"}
  VerifierSizes = {62, 64}
  Lengths <- MCLengths
  ServerSizes <- MCShort
  ClientSizes <- MCShortClient
  SecretsKept = FALSE
  QueriesFail = TRUE
  MaxLogons = 1
  MaxAttempts = 2
SYMMETRY Symmetry
INVARIANTS
  RightPasswordAccepted
  RowsConsistent
PROPERTIES
  FullRowKept
  ImplementsLogonService
