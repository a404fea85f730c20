SPECIFICATION Spec
CONSTANTS
  Profile = Profile
  Editorial = Editorial
  Settings = Settings
  Cards = {c1}
  None = None
  Jobs = {j1, j2}
  MaxFile = 3
  MaxText = 2
  MaxRequests = 3
SYMMETRY Symmetry
INVARIANTS
  RowHasBytes
  RecordsStand
  NothingLeftBehind
  CardsKeepLogo
  SettingsInStep
CHECK_DEADLOCK FALSE
