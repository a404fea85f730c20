SPECIFICATION Spec
CONSTANTS
  Users = {ann, ben, root}
  Admins = {root}
  Tabs = {t1, t2}
  Jobs = {j1, j2}
  None = None
  MaxRequests = 3
  MaxKeys = 2
  MaxCookies = 3
SYMMETRY Symmetry
INVARIANTS
  NotAskedInVain
  NothingLeft
CHECK_DEADLOCK FALSE
