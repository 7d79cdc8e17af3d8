SPECIFICATION Spec
CONSTANTS
  Pid = {p1, p2, p3}
  Flow <- MCFlow
  Route <- MCRoute
  Length <- MCLength
  HeaderLen = 1
  Port <- MCPort
  Installed <- MCPort
  Gate <- MCGate
  R = 2
  TestIdMod = 4
  EpochMod = 4
  NumEpochSlots = 2
  TauQ = 1
  QMax = 3
  UtilUnit = 2
  PathHops = 2
  Target = {}
  OtherTraffic = {0}
  MaxClock = 2
INVARIANT UtilPerPortEpoch
SYMMETRY PidSymmetry
CHECK_DEADLOCK FALSE
