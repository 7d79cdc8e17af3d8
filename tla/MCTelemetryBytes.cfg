SPECIFICATION Spec
CONSTANTS
  Port = {1, 2, 3}
  Monitored = {1, 2}
  Path <- MCPath
  Round = {0}
  Comparisons <- MCComparisons
  Windows = 3
  PerWindow = 2
  BASE = 8
  REC = 3
  POOL = 9
  PINT = 4
INVARIANT TransmittedBytes
CHECK_DEADLOCK FALSE
