SPECIFICATION TermsSpec
CONSTANTS
  n1 = n1
  n2 = n2
  n3 = n3
  n4 = n4
  n5 = n5
  ca = ca
  cb = cb
  Nobody = Nobody
  Nodes = {n1, n2, n3, n4, n5}
  Candidates = {ca, cb}
  Founders = {n1, n2, n3, n4, n5}
  MaxChanges = 2
  Relabel = TRUE
SYMMETRY Symmetric
INVARIANTS OneLeaderNearby LeftoversStayUncommitted
CHECK_DEADLOCK FALSE
