\* The right password, typed on the second logon of a connection.
SPECIFICATION Spec
CONSTANTS
  c1 = c1
  c2 = c2
  n1 = n1
  n2 = n2
  p1 = p1
  p2 = p2
  Conns = {c1}
  Names = {n1, n2}
  Passwords = {p1, p2}
  PasswordOf <- MCPasswordOf
  Rows = {"filled"}
  VerifierSizes = {64}
  Lengths <- MCLengths
  ServerSizes <- MCFull
  ClientSizes = {32}
  SecretsKept = FALSE
  QueriesFail = FALSE
  MaxLogons = 2
  MaxAttempts = 2
INVARIANT RightPasswordAccepted
