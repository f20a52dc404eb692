SPECIFICATION StorageSpec
CONSTANTS
  c1 = c1
  c2 = c2
  a = a
  b = b
  x = x
  Clients = {c1, c2}
  MaxToken = 2
  MaxWrites = 3
  MaxTime = 1
  Roster = {a, b}
  Outsiders = {x}
  LogLength = 2
INVARIANTS HoldsAreContiguous LinearizableIsEverywhere StaleReadIsBounded NoOneStranded
CHECK_DEADLOCK FALSE
