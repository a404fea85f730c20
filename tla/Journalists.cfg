SPECIFICATION PageSpec
CONSTANTS
  Journalists = {j1, j2}
  Cards = {c1, c2}
  Profiles = {v1, v2}
  Calls = {r1, r2}
  Nothing = Nothing
  MaxCalls = 3
SYMMETRY Symmetry
INVARIANT ShowsStored
CHECK_DEADLOCK FALSE
