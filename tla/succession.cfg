SPECIFICATION Spec
CONSTANTS
  ca = ca
  cb = cb
  cc = cc
  v1 = v1
  v2 = v2
  v3 = v3
  Founder = Founder
  Candidates = {ca, cb, cc}
  Voters = {v1, v2, v3}
  LastEpoch = 2
  Config <- TwoConfigs
  TTL = 1
  MaxTime = 4
SYMMETRY Symmetric
INVARIANTS OneReignPerEpoch
PROPERTIES AuthorityIsDisjoint
CHECK_DEADLOCK FALSE
