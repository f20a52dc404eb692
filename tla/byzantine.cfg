SPECIFICATION Spec
CONSTANTS
  n1 = n1
  n2 = n2
  n3 = n3
  n4 = n4
  n5 = n5
  va = va
  vb = vb
  colA = colA
  colB = colB
  NoValue = NoValue
  Nodes = {n1, n2, n3, n4, n5}
  Liars = {n5}
  Collectors = {colA, colB}
  Values = {va, vb}
  Configs <- EveryConfig
  PreviousVote <- PreviouslyA
SYMMETRY Symmetric
INVARIANTS MaskingUnique AgreementWitness CorrectVouchers
CHECK_DEADLOCK FALSE
