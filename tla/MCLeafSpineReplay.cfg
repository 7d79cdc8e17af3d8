SPECIFICATION Spec
CONSTANTS
  S = 2
  L = 4
  H = 2
  MaxHops = 9
INVARIANT ReplayIsPath
CHECK_DEADLOCK FALSE
