SPECIFICATION ScenarioSpec
CONSTANTS
  Pid = {p1, p2}
  Flow <- MCFlow
  Route <- MCRoute
  Length <- MCLength
  HeaderLen = 1
  Port <- MCPort
  Installed <- AllButSpine
  Gate <- MCGate
  R = 2
  TestIdMod = 4
  EpochMod = 2
  NumEpochSlots = 1
  TauQ = 1
  QMax = 3
  UtilUnit = 2
  PathHops = 2
  Target <- ThreePorts
  FlakyTarget <- OnePort
  OtherTraffic = {0}
  MaxClock = 1
CHECK_DEADLOCK FALSE
INVARIANTS FaultsAreGroundTruth GateBitExact DDSound CompComplete
PROPERTIES ImplementsPooledTest
SYMMETRY PidSymmetry
