SPECIFICATION StudySpec
CONSTANTS
  Port = {u1, u2, u3}
  GridStart = 1
  MaxTests = 4
  MaxPkts = 3
  Path <- MCPath
  Gate <- MCSeedGate
  M_POOL = 3
  R = 2
  BASE = 8
  PERHOP = 16
  POOL_BYTES = 9
  Stride = 2
  StaticStart = 1
  Growth = 16
  Budget = {9, 26, 40}
INVARIANT DecodeIsOrderFree
INVARIANT RecoveryIsStable
INVARIANT FullIsFirst
INVARIANT BudgetIsKept
INVARIANT GreedyNearBest
SYMMETRY PortSymmetry
CHECK_DEADLOCK FALSE
