SPECIFICATION Spec
CONSTANTS
  Cards = {c1, c2}
  Primary = c1
  Requests = {r1, r2}
  None = None
  Lifetimes = {2, 3}
  Retry = 2
  MaxDelay = 1
  MaxTrouble = 2
  MaxDay = 1
INVARIANTS
  ShownOfCard
  ValidWasGood
PROPERTIES
  ComesToShow
