---------------------------- MODULE MCSuccession ----------------------------
(* Instances of Succession: three candidates compete for two epochs with     *)
(* member sets of their own.                                                 *)
EXTENDS Succession, TLC

CONSTANTS ca, cb, cc, v1, v2, v3

\* An even epoch 1, whose votes can be split, and an epoch 2 that shares a single
\* member with it.
TwoConfigs == (1 :> {ca, cb, v1, v2}) @@ (2 :> {cb, v3})

\* The two voters of epoch 1 are interchangeable.
Symmetric == Permutations({v1, v2})

=============================================================================
