SPECIFICATION Spec
CONSTANTS
  Editorials = {e1}
  Pages = {p1}
  Jobs = {j1, j2}
  None = None
  System = System
  DefaultElements <- DefaultValue
  Imported <- ImportedValue
  Drags <- DragsValue
  Typed <- TypedValue
  CardWidths = {6}
  CardHeight = 8
  Grid = 2
  Threshold = 1
  MinSize = 2
  MinStored = 1
  MaxStored = 9
  MaxElements = 2
  MaxGestures = 3
  MaxRequests = 3
SYMMETRY Symmetry
INVARIANT SavedIsStored
PROPERTY PlacedAsSeen
CHECK_DEADLOCK FALSE
