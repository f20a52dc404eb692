------------------------------ MODULE Quorums ------------------------------
(***************************************************************************)
(* The counting rules every certificate of the crate rests on: crash       *)
(* majorities (membership.rs), masking quorums (byzantine.rs), the size    *)
(* rule of a reconfiguration (reconfig_safety.rs) and read/write quorums   *)
(* (flex.rs).  They are pure functions of sets, so they are operators      *)
(* here; the modules that model running systems call them where the code   *)
(* calls certify, intersect or reconfigure.                                *)
(*                                                                         *)
(* A certificate is a set of members.  A function that returns Option is   *)
(* a predicate here, true exactly when the code returns Some.              *)
(***************************************************************************)
EXTENDS Naturals, FiniteSets

-----------------------------------------------------------------------------
(* Crash faults: membership.rs.                                            *)

\* Mutant: every member is needed.
ThresholdUnanimous(members) == Cardinality(members)

\* Config::threshold: strictly more than half.
Threshold(members) == Cardinality(members) \div 2 + 1

\* Mutants: the count is never compared; the comparison is off by one.
CertifyAnySubset(members, subset) == subset \subseteq members
CertifyStrict(members, subset) ==
  subset \subseteq members /\ Cardinality(subset) > Threshold(members)

\* Config::certify: a subset of the members that reaches the threshold.
Certify(members, subset) ==
  /\ subset \subseteq members
  /\ Cardinality(subset) >= Threshold(members)

\* Quorum::intersect returns Some.
Intersect(quorum, other) == quorum \cap other # {}

-----------------------------------------------------------------------------
(* Byzantine faults: byzantine.rs.                                         *)

\* BftConfig::new: the masking existence bound n >= 4f + 1, in the wrap-free
\* form the code uses.
BftConfig(members, f) ==
  /\ members # {}
  /\ f <= (Cardinality(members) - 1) \div 4

\* Mutant: the 2f+1 of a signed 3f+1 protocol.
MaskingThresholdSigned(members, f) == 2 * f + 1

\* BftConfig::threshold: (n + 2f + 1).div_ceil(2).
MaskingThreshold(members, f) == (Cardinality(members) + 2 * f + 1 + 1) \div 2

\* BftConfig::certify.
CertifyMasking(members, f, subset) ==
  /\ subset \subseteq members
  /\ Cardinality(subset) >= MaskingThreshold(members, f)

\* Mutants: the comparison is off by one, either way.
MintsOverlapLoose(quorum, other, f)  == Cardinality(quorum \cap other) >= 2 * f
MintsOverlapStrict(quorum, other, f) == Cardinality(quorum \cap other) > 2 * f + 1

\* ByzQuorum::intersect: an Overlap is minted only above 2f shared members,
\* f being the budget of the receiver.
MintsOverlap(quorum, other, f) == Cardinality(quorum \cap other) > 2 * f

\* Overlap::min_correct: the shared members that cannot lie.
OverlapMinCorrect(quorum, other, f) == Cardinality(quorum \cap other) - f

\* Attested::min_correct: members that cannot lie, floored at zero.
MinCorrect(support, f) ==
  IF Cardinality(support) > f THEN Cardinality(support) - f ELSE 0

-----------------------------------------------------------------------------
(* Reconfiguration: reconfig_safety.rs.                                    *)

Majority(m) == m \div 2 + 1

\* preserves_intersection(old, new), the compile-time gate on the two sizes.
PreservesIntersection(old, new) ==
  Majority(old) + Majority(new) > (IF old > new THEN old ELSE new)

Nested(old, new) == new \subseteq old \/ old \subseteq new

\* SizedConfig::reconfigure returns Some: the size step compiles and the sets
\* are nested.
Reconfigurable(old, new) ==
  /\ PreservesIntersection(Cardinality(old), Cardinality(new))
  /\ Nested(old, new)

-----------------------------------------------------------------------------
(* Read and write quorums over the nodes 0 .. n-1: flex.rs.                *)

\* ReadQuorum::<N, R>::certify and WriteQuorum::<N, W>::certify.
CertifySized(n, size, members) ==
  /\ size \in 1 .. n
  /\ Cardinality(members) = size
  /\ \A m \in members : m < n

\* The compile-time gate of read_sees_write.
FlexGate(n, r, w) == r + w > n

=============================================================================
