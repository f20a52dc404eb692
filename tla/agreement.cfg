SPECIFICATION AllSpec
CONSTANTS
  s1 = s1
  s2 = s2
  s3 = s3
  x = x
  g1 = g1
  g2 = g2
  g3 = g3
  a1 = a1
  a2 = a2
  a = a
  b = b
  c = c
  Shards = {s1, s2, s3, x}
  Declared = {s1, s2, s3}
  SagaIds = {g1, g2, g3}
  Accounts = {a1, a2}
  Plan <- MCPlan
  Granted <- MCGranted
  Procs = {a, b, c}
  MaxWrites = 3
  Programs <- MCPrograms
  Holders = {a, b, c}
  Proposal <- MCProposal
  Merges <- MCMerges
  Epochs = {1, 2}
  Memberships <- MCMemberships
  LowMembers = {a}
  MaxMinted = 3
INVARIANTS NoTornCommit CapacityIsConserved SagaIsWhole NoEffectBeforeCause NoLostUpdate Converges CertifiedMergesConverge MembersAreConserved
PROPERTIES CommitIsUnanimous DoubtEnds
CHECK_DEADLOCK FALSE
