SPECIFICATION Spec
CONSTANTS
  a = a
  b = b
  c = c
  Procs = {a, b, c}
  Channels <- RingAndShortcut
  Initiators = {a, b}
  MaxMessages = 2
INVARIANTS SnapshotIsCut InFlightIsExact LineIsGreatest SnapshotStopsTheDomino
CHECK_DEADLOCK FALSE
