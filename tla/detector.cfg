SPECIFICATION FairSpec
CONSTANTS
  a = a
  b = b
  c = c
  x = x
  Observers = {a, b, c, x}
  Electorate = {a, b, c}
  Liars = {a, x}
  Timeout = 2
  MaxLag = 1
  Gap = 1
  Delay = 1
  CrashBy = 1
  MaxTime = 5
INVARIANTS NoFalseAlarm
PROPERTIES ClaimMeansSilence DeathIsConfirmed
CHECK_DEADLOCK FALSE
