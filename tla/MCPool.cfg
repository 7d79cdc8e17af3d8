SPECIFICATION Spec
CONSTANTS
  Pid = {p1, p2}
  Flow <- MCFlow
  Route <- MCRoute
  Length <- MCLength
  HeaderLen = 1
  Port <- MCPort
  Installed <- MCPort
  Gate <- MCGate
  R = 2
  TestIdMod = 2
  EpochMod = 4
  NumEpochSlots = 2
  TauQ = 0
  QMax = 3
  UtilUnit = 2
  PathHops = 2
  Target <- SharedPort
  OtherTraffic = {0}
  MaxClock = 2
SYMMETRY PidSymmetry
CHECK_DEADLOCK FALSE
INVARIANTS TypeOK InPlace SyndromeIsPool QuantIsCappedSum OneTestPerCount DebugMatchesReplay UtilPerPortEpoch
CONSTRAINT Synced
