SPECIFICATION Spec
CONSTANTS
  Admins = {a1, a2}
  First = a1
  Editorials = {e1}
  System = System
  NoOne = NoOne
  Jobs = {j1, j2}
  MaxTok = 2
  MaxRequests = 5
SYMMETRY Symmetry
INVARIANTS
  TypeOK
  EditorialAdminConfined
  SessionMatchesSlots
  SealsReadable
  DataHasRecovery
CHECK_DEADLOCK FALSE
