SPECIFICATION Spec
CONSTANTS
  home = home
  away = away
  third = third
  Places <- ThreePlaces
  Home = home
  Faults <- AllFaults
  None = None
  Torn = Torn
  MaxEdits = 4
INVARIANT MoveIsSafe
CHECK_DEADLOCK FALSE
