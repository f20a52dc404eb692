SPECIFICATION Spec
CONSTANTS
  m1 = m1
  m2 = m2
  Txns <- MCTxns
  Keys <- MCKeys
  Workloads <- MCWorkloads
  ShardCount = 2
  Epsilon = 1
  Msgs = {m1, m2}
  WindowSizes = {1, 2}
  Cap = 2
  MaxLost = 1
  MaxCrashes = 1
PROPERTIES DroppedCreditIsReleased
CHECK_DEADLOCK FALSE
