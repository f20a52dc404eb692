----------------------------- MODULE MCElection -----------------------------
(* Instances of Terms over Election: five founders that can shrink          *)
(* 5 -> 4 -> 3 and grow again, one legal step at a time.                     *)
EXTENDS Terms, TLC

CONSTANTS n1, n2, n3, n4, n5, ca, cb

Symmetric == Permutations({n1, n2, n3, n4, n5}) \cup Permutations({ca, cb})
=============================================================================
