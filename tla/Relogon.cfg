\* A client logs on again and again on one connection, and comes back.
SPECIFICATION Spec
CONSTANTS
  c1 = c1
  c2 = c2
  n1 = n1
  n2 = n2
  p1 = p1
  p2 = p2
  Conns = {c1}
  Names = {n1, n2}
  Passwords = {p1, p2}
  PasswordOf <- MCPasswordOf
  Rows = {"unset"}
  VerifierSizes = {64}
  Lengths <- MCLengths
  ServerSizes <- MCShortKey
  ClientSizes = {32}
  SecretsKept = TRUE
  QueriesFail = FALSE
  MaxLogons = 3
  MaxAttempts = 4
INVARIANTS
  IInv
  LogonInv
  MistypedRefused
  KeyAgreement
  RefusalExplained
PROPERTIES
  SpoiledByRetry
  RequestsServed
  SessionsClosed
