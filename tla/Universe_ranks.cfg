SPECIFICATION Spec
CONSTANTS
  Symbols = {1, 2, 3, 4}
  AlwaysFocus <- TooManyPins
  ActiveN = 3
  FocusN = 2
  MaxScore = 1
INVARIANTS TypeOK SettledRanks MixedRanks FocusIsActive
PROPERTIES NoUnfairEviction
