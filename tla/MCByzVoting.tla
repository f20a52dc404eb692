---------------------------- MODULE MCByzVoting ----------------------------
(* Instances of ByzVoting: five members and a budget of one, the smallest  *)
(* configuration with a liar (n >= 4f+1), and a reused epoch label.        *)
EXTENDS ByzVoting, TLC

CONSTANTS n1, n2, n3, n4, n5, va, vb, colA, colB

Five == {n1, n2, n3, n4, n5}

\* Both collectors hold the same configuration.
SameConfig == [c \in {colA, colB} |-> [members |-> Five, f |-> 1]]

\* The label E is reused: colB wears it over one member and a budget of none.
ReusedLabel ==
  (colA :> [members |-> Five, f |-> 1]) @@
  (colB :> [members |-> {n4}, f |-> 0])

EveryConfig == {SameConfig, ReusedLabel}

\* The honest nodes agreed on va in the previous epoch.
PreviouslyA == [n \in Honest |-> va]

\* Nodes with the same role are interchangeable.
Symmetric == Permutations({n1, n2, n3})

=============================================================================
