SPECIFICATION Spec
CONSTANTS
  Passwords = {p1, p2}
  NoPassword = NoPassword
  Jobs = {j1, j2}
  MaxKey = 3
  MaxCode = 2
  MaxAttempts = 2
  MaxRequests = 5
SYMMETRY Symmetry
INVARIANTS
  OneKey
  RecoveryOpensData
  GuessesBounded
PROPERTIES
  VaultSpec
CHECK_DEADLOCK FALSE
