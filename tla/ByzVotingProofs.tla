-------------------------- MODULE ByzVotingProofs --------------------------
(* Agreement and corroboration for every set of nodes, liars within the    *)
(* declared budget, configurations and values.                             *)
(*                                                                         *)
(* None of the invariants is inductive: what a decision means depends on   *)
(* where its votes came from.  IInv adds the two facts that tie them       *)
(* together: a promoted vote of an honest node is what that node tells     *)
(* everyone (HonestVotes), and a decision rests on the votes its collector *)
(* holds, which it no longer changes (Backed).                             *)
EXTENDS ByzVoting, FoundationProofs

\* promote_vote lets through only this epoch's datagrams, and an honest node
\* tells every collector the same value.
HonestVotes ==
  \A c \in Collectors : \A w \in votes[c] :
    w.voter \in Honest => faces[w.voter] = w.value

\* The support a decision carries is the group it was decided by.
Backed ==
  \A c \in Collectors :
    /\ Decided(c) =>
         /\ decided[c].value \in Clearing(c)
         /\ decided[c].support = Support(c, decided[c].value)
    /\ decided[c].kind = "abstained" => Clearing(c) = {}

IInv == TypeOK /\ HonestVotes /\ Backed

-----------------------------------------------------------------------------
\* The type invariant alone is inductive.
LEMMA TypeInit == Init => TypeOK
  BY DEF Init, TypeOK, Decisions

LEMMA SupportType ==
  ASSUME TypeOK, NEW c \in Collectors, NEW v
  PROVE  Support(c, v) \in SUBSET Members(c) /\ Members(c) \in SUBSET Nodes
  BY ConfigAssumption DEF Support, Members, TypeOK

LEMMA TypeNext == TypeOK /\ [Next]_vars => TypeOK'
<1> SUFFICES ASSUME TypeOK, [Next]_vars PROVE TypeOK'
  OBVIOUS
<1> USE DEF TypeOK
<1>1. ASSUME NEW n \in Honest, Cast(n) PROVE TypeOK'
  BY <1>1 DEF Cast
<1>2. ASSUME NEW c \in Collectors, Receive(c) PROVE TypeOK'
  BY <1>2 DEF Receive, Sent, Datagrams, Votes
<1>3. ASSUME NEW c \in Collectors, Decide(c) PROVE TypeOK'
  <2>1. CASE decided' = [decided EXCEPT ![c] = [kind |-> "abstained"]]
    BY <1>3, <2>1 DEF Decide, Decisions
  <2>2. ASSUME NEW v \in Best(c),
               decided' = [decided EXCEPT ![c] =
                 [kind |-> "decided", value |-> v, support |-> Support(c, v)]]
        PROVE  TypeOK'
    <3>1. v \in Values
      BY DEF Best, Clearing, Attestable, Committable
    <3>2. Support(c, v) \in SUBSET Nodes
      BY SupportType
    <3>3. [kind |-> "decided", value |-> v, support |-> Support(c, v)] \in Decisions
      BY <3>1, <3>2 DEF Decisions
    <3> QED
      BY <1>3, <2>2, <3>3 DEF Decide
  <2> QED
    BY <1>3, <2>1, <2>2 DEF Decide
<1>4. CASE UNCHANGED vars
  BY <1>4 DEF vars
<1> QED
  BY <1>1, <1>2, <1>3, <1>4 DEF Next

\* Type correctness of the voting run.
THEOREM TypeCorrect == Spec => []TypeOK
  BY TypeInit, TypeNext, PTL DEF Spec

-----------------------------------------------------------------------------
LEMMA InvInit == Init => IInv
  BY TypeInit DEF Init, IInv, HonestVotes, Backed, Decided

\* The group of a value, and so what clears, depends on c's votes only.
LEMMA ClearingFrame ==
  ASSUME NEW c \in Collectors, votes'[c] = votes[c], UNCHANGED <<tier, config>>
  PROVE  /\ \A v : Support(c, v)' = Support(c, v)
         /\ Clearing(c)' = Clearing(c)
  BY DEF Support, Clearing, Attestable, Committable, Members, Budget

LEMMA HonestVotesNext == TypeOK /\ HonestVotes /\ [Next]_vars => HonestVotes'
<1> SUFFICES ASSUME TypeOK, HonestVotes, [Next]_vars PROVE HonestVotes'
  OBVIOUS
<1>1. ASSUME NEW n \in Honest, Cast(n) PROVE HonestVotes'
  <2> SUFFICES ASSUME NEW c \in Collectors, NEW w \in votes[c], w.voter \in Honest
               PROVE  faces'[w.voter] = w.value
    BY <1>1 DEF HonestVotes, Cast
  <2>1. w.value \in Values /\ faces[w.voter] = w.value
    BY DEF TypeOK, Votes, HonestVotes
  <2>2. w.voter # n
    BY <1>1, <2>1, NodesAssumption DEF Cast
  <2> QED
    BY <1>1, <2>1, <2>2 DEF Cast, TypeOK
<1>2. ASSUME NEW c \in Collectors, Receive(c) PROVE HonestVotes'
  <2>1. PICK d \in Sent :
          /\ Promotes(d)
          /\ votes' = [votes EXCEPT ![c] = @ \cup {[voter |-> d.voter, value |-> d.value]}]
          /\ faces' = faces
    BY <1>2 DEF Receive
  <2>2. d.voter \in Honest => faces[d.voter] = d.value
    BY <2>1 DEF Sent, Promotes, Honest
  <2> QED
    BY <2>1, <2>2 DEF HonestVotes, TypeOK
<1>3. ASSUME NEW c \in Collectors, Decide(c) PROVE HonestVotes'
  BY <1>3 DEF Decide, HonestVotes
<1>4. CASE UNCHANGED vars
  BY <1>4 DEF vars, HonestVotes
<1> QED
  BY <1>1, <1>2, <1>3, <1>4 DEF Next

LEMMA BackedNext == TypeOK /\ Backed /\ [Next]_vars => Backed'
<1> SUFFICES ASSUME TypeOK, Backed, [Next]_vars, NEW c \in Collectors
             PROVE  /\ Decided(c)' =>
                         /\ decided'[c].value \in Clearing(c)'
                         /\ decided'[c].support = Support(c, decided[c].value)'
                    /\ decided'[c].kind = "abstained" => Clearing(c)' = {}
  BY DEF Backed
<1>0. UNCHANGED <<tier, config>>
  BY DEF Next, Cast, Receive, Decide, vars
<1>1. CASE decided'[c] = decided[c] /\ votes'[c] = votes[c]
  BY <1>0, <1>1, ClearingFrame DEF Backed, Decided, Support, Members
<1>2. ASSUME NEW n \in Honest, Cast(n) PROVE decided' = decided /\ votes' = votes
  BY <1>2 DEF Cast
<1>3. ASSUME NEW b \in Collectors, Receive(b)
      PROVE  /\ decided' = decided
             /\ b # c => votes'[c] = votes[c]
             /\ b = c => decided[c].kind = "open"
  BY <1>3 DEF Receive, Open, TypeOK
<1>4. ASSUME NEW b \in Collectors, Decide(b), b # c
      PROVE  decided'[c] = decided[c] /\ votes'[c] = votes[c]
  BY <1>4 DEF Decide, TypeOK
<1>5. ASSUME Decide(c)
      PROVE  /\ Decided(c)' =>
                  /\ decided'[c].value \in Clearing(c)'
                  /\ decided'[c].support = Support(c, decided[c].value)'
             /\ decided'[c].kind = "abstained" => Clearing(c)' = {}
  <2>1. votes'[c] = votes[c]
    BY <1>5 DEF Decide
  <2>2. CASE Clearing(c) = {} /\ decided'[c] = [kind |-> "abstained"]
    BY <1>0, <2>1, <2>2, ClearingFrame DEF Decided
  <2>3. ASSUME NEW v \in Best(c),
               decided'[c] = [kind |-> "decided", value |-> v, support |-> Support(c, v)]
        PROVE  /\ decided'[c].kind = "decided"
               /\ decided'[c].value \in Clearing(c)'
               /\ decided'[c].support = Support(c, decided[c].value)'
    BY <1>0, <2>1, <2>3, ClearingFrame DEF Best, Support, Members
  <2> QED
    BY <1>5, <2>2, <2>3 DEF Decide, TypeOK
<1>6. CASE UNCHANGED vars
  BY <1>1, <1>6 DEF vars
<1> QED
  BY <1>1, <1>2, <1>3, <1>4, <1>5, <1>6 DEF Next, Decided

LEMMA Inductive == Spec => []IInv
<1>1. IInv /\ [Next]_vars => IInv'
  BY TypeNext, HonestVotesNext, BackedNext DEF IInv
<1> QED
  BY InvInit, <1>1, PTL DEF Spec

-----------------------------------------------------------------------------
LEMMA ConfigFacts ==
  ASSUME TypeOK, NEW c \in Collectors
  PROVE  /\ IsFiniteSet(Members(c)) /\ Members(c) \in SUBSET Nodes
         /\ Budget(c) \in Nat
         /\ Cardinality(Members(c)) \in Nat
         /\ Cardinality(Members(c)) >= 4 * Budget(c) + 1
<1>1. Members(c) \in SUBSET Nodes /\ Budget(c) \in Nat
  BY ConfigAssumption DEF Members, Budget, TypeOK
<1>2. IsFiniteSet(Members(c)) /\ Cardinality(Members(c)) \in Nat
  BY <1>1, NodesAssumption, FS_Subset, FS_CardinalityType
<1>3. Members(c) # {} /\ Budget(c) <= (Cardinality(Members(c)) - 1) \div 4
  BY ConfigAssumption DEF BftConfig, Members, Budget, TypeOK
<1>4. Cardinality(Members(c)) # 0
  BY <1>2, <1>3, FS_EmptySet
<1> QED
  BY <1>1, <1>2, <1>3, <1>4

\* Among any members there are at most f liars.
LEMMA MostlyHonest ==
  ASSUME TypeOK, NEW c \in Collectors, NEW q \in SUBSET Members(c)
  PROVE  /\ IsFiniteSet(q) /\ IsFiniteSet(q \cap Honest)
         /\ Cardinality(q) \in Nat /\ Cardinality(q \cap Honest) \in Nat
         /\ Cardinality(q \cap Honest) >= Cardinality(q) - Budget(c)
<1>1. IsFiniteSet(q) /\ q \in SUBSET Nodes
  BY ConfigFacts, FS_Subset
<1>2. /\ IsFiniteSet(q \cap Honest) /\ IsFiniteSet(q \cap Liars)
      /\ IsFiniteSet(Liars \cap Members(c))
  BY <1>1, ConfigFacts, FS_Subset,
     q \cap Honest \subseteq q, q \cap Liars \subseteq q,
     Liars \cap Members(c) \subseteq Members(c)
<1>3. Cardinality(q \cap Liars) <= Budget(c)
  <2>1. Cardinality(q \cap Liars) <= Cardinality(Liars \cap Members(c))
    BY <1>2, FS_Subset, q \cap Liars \subseteq Liars \cap Members(c)
  <2> QED
    <3>1. Cardinality(Liars \cap Members(c)) <= Budget(c)
      BY BudgetAssumption DEF Members, Budget, TypeOK
    <3> QED
      BY <2>1, <3>1, <1>2, ConfigFacts, FS_CardinalityType
<1>4. q \cap Honest = q \ (q \cap Liars)
  BY <1>1 DEF Honest
<1>5. Cardinality(q \cap Honest) = Cardinality(q) - Cardinality(q \cap Liars)
  <2>1. q \cap (q \cap Liars) = q \cap Liars
    OBVIOUS
  <2> QED
    BY <1>1, <1>2, <1>4, <2>1, FS_Difference
<1> QED
  BY <1>1, <1>2, <1>3, <1>5, ConfigFacts, FS_CardinalityType

\* What IInv says of one decision.
LEMMA DecisionFacts ==
  ASSUME IInv, NEW c \in Collectors, Decided(c)
  PROVE  /\ decided[c].support \in SUBSET Members(c)
         /\ \A n \in decided[c].support \cap Honest : faces[n] = decided[c].value
         /\ Cardinality(decided[c].support) > Budget(c)
         /\ tier = "masking" =>
              CertifyMasking(Members(c), Budget(c), decided[c].support)
<1> TypeOK
  BY DEF IInv
<1> DEFINE v == decided[c].value
           q == decided[c].support
<1>1. v \in Clearing(c) /\ q = Support(c, v)
  BY DEF IInv, Backed
<1>2. q \in SUBSET Members(c)
  BY <1>1 DEF Support
<1>3. \A n \in q \cap Honest : faces[n] = v
  BY <1>1 DEF Support, IInv, HonestVotes
<1>4. /\ tier = "existence" => Cardinality(q) > Budget(c)
      /\ tier = "masking" => Cardinality(q) >= MaskingThreshold(Members(c), Budget(c))
  BY <1>1, NodesAssumption DEF Clearing, Attestable, Committable
<1>5. /\ MaskingThreshold(Members(c), Budget(c)) > Budget(c)
      /\ MaskingThreshold(Members(c), Budget(c)) \in Nat
  <2>1. Cardinality(Members(c)) \in Nat /\ Budget(c) \in Nat
    BY ConfigFacts
  <2> QED
    BY <2>1 DEF MaskingThreshold
<1>6. tier \in {"existence", "masking"}
  BY DEF IInv, TypeOK, Tiers
<1>7. Cardinality(q) \in Nat
  BY <1>2, MostlyHonest
<1> QED
  BY <1>2, <1>3, <1>4, <1>5, <1>6, <1>7, ConfigFacts DEF CertifyMasking

\* Two decisions whose supports share more than f members agree: one of the
\* shared members is honest, and it told both collectors the same value.
LEMMA SharedHonest ==
  ASSUME IInv, NEW a \in Collectors, NEW b \in Collectors, Decided(a), Decided(b),
         Cardinality(decided[a].support \cap decided[b].support) > Budget(a)
  PROVE  decided[a].value = decided[b].value
<1> TypeOK
  BY DEF IInv
<1> DEFINE shared == decided[a].support \cap decided[b].support
<1>1. shared \in SUBSET Members(a)
  BY DecisionFacts
<1> HIDE DEF shared
<1>2. Cardinality(shared \cap Honest) # 0
  <2>1. /\ Cardinality(shared \cap Honest) >= Cardinality(shared) - Budget(a)
        /\ Cardinality(shared) \in Nat /\ Cardinality(shared \cap Honest) \in Nat
    BY <1>1, MostlyHonest
  <2> QED
    BY <2>1, ConfigFacts DEF shared
<1>3. PICK n \in shared \cap Honest : TRUE
  BY <1>1, <1>2, MostlyHonest, FS_EmptySet
<1> QED
  BY <1>3, DecisionFacts DEF shared

\* Under the masking tier two collectors of one configuration mint a witness.
LEMMA OneConfigOverlap ==
  ASSUME IInv, NEW a \in Collectors, NEW b \in Collectors, Decided(a), Decided(b),
         tier = "masking", config[a] = config[b]
  PROVE  MintsOverlap(decided[a].support, decided[b].support, Budget(a))
<1> TypeOK
  BY DEF IInv
<1>1. Members(a) = Members(b) /\ Budget(a) = Budget(b)
  BY DEF Members, Budget
<1>2. /\ CertifyMasking(Members(a), Budget(a), decided[a].support)
      /\ CertifyMasking(Members(a), Budget(a), decided[b].support)
  BY <1>1, DecisionFacts
<1> QED
  BY <1>2, ConfigFacts, MaskingQuorumsOverlap

\* The budget is exceeded whenever a witness is minted.
LEMMA OverlapExceedsBudget ==
  ASSUME IInv, NEW a \in Collectors, NEW r, Decided(a),
         MintsOverlap(decided[a].support, r, Budget(a))
  PROVE  Cardinality(decided[a].support \cap r) > Budget(a)
<1> TypeOK
  BY DEF IInv
<1>1. decided[a].support \cap r \in SUBSET Members(a)
  BY DecisionFacts
<1>2. Cardinality(decided[a].support \cap r) \in Nat
  BY <1>1, MostlyHonest
<1> QED
  BY <1>2, ConfigFacts DEF MintsOverlap

-----------------------------------------------------------------------------
\* commit_masking (attest.rs:283-314): no two collectors of one configuration
\* commit two values, for every f and every behaviour of at most f liars.
THEOREM CommittedValueIsUnique == Spec => []MaskingUnique
<1>1. IInv => MaskingUnique
  BY OneConfigOverlap, OverlapExceedsBudget, SharedHonest DEF MaskingUnique
<1> QED
  BY <1>1, Inductive, PTL

\* Committed::agreement_witness (attest.rs:264-271): the None arm is unreachable
\* for two commitments of one configuration.
THEOREM WitnessIsMinted == Spec => []WitnessMinted
<1>1. IInv => WitnessMinted
  BY OneConfigOverlap DEF WitnessMinted, Witnessed
<1> QED
  BY <1>1, Inductive, PTL

\* Committed::agreement_witness: a minted witness means agreement, also across a
\* reused epoch label, and min_correct() (byzantine.rs:289) honest members vouch for it.
THEOREM WitnessMeansAgreement == Spec => []WitnessSound
<1>1. IInv => WitnessSound
  <2> SUFFICES ASSUME IInv, NEW a \in Collectors, NEW b \in Collectors, Decided(a), Decided(b),
                      MintsOverlap(decided[a].support, decided[b].support, Budget(a))
               PROVE  LET shared == {n \in decided[a].support \cap decided[b].support \cap Honest :
                                       faces[n] = decided[a].value}
                      IN  /\ decided[a].value = decided[b].value
                          /\ Cardinality(shared)
                               >= OverlapMinCorrect(decided[a].support, decided[b].support, Budget(a))
    BY DEF WitnessSound, Witnessed
  <2> TypeOK
    BY DEF IInv
  <2> DEFINE overlap == decided[a].support \cap decided[b].support
  <2>1. decided[a].value = decided[b].value
    BY OverlapExceedsBudget, SharedHonest
  <2>2. overlap \in SUBSET Members(a)
    BY DecisionFacts
  <2>3. {n \in overlap \cap Honest : faces[n] = decided[a].value} = overlap \cap Honest
    BY DecisionFacts
  <2>4. Cardinality(overlap \cap Honest) >= Cardinality(overlap) - Budget(a)
    BY <2>2, MostlyHonest
  <2> QED
    BY <2>1, <2>3, <2>4 DEF OverlapMinCorrect
<1> QED
  BY <1>1, Inductive, PTL

\* The two together: agreement_witness neither fails without need nor vouches wrongly.
THEOREM WitnessIsExact == Spec => []AgreementWitness
<1>1. WitnessMinted /\ WitnessSound => AgreementWitness
  BY DEF AgreementWitness
<1> QED
  BY <1>1, WitnessIsMinted, WitnessMeansAgreement, PTL

\* attest (attest.rs:150-188): min_correct() supporters are honest members that
\* really voted for the value.
THEOREM EveryDecisionIsVouchedFor == Spec => []CorrectVouchers
<1>1. IInv => CorrectVouchers
  <2> SUFFICES ASSUME IInv, NEW c \in Collectors, Decided(c)
               PROVE  LET vouchers == {n \in decided[c].support \cap Honest \cap Members(c) :
                                         faces[n] = decided[c].value}
                      IN  /\ Cardinality(vouchers) >= MinCorrect(decided[c].support, Budget(c))
                          /\ MinCorrect(decided[c].support, Budget(c)) >= 1
    BY DEF CorrectVouchers
  <2> TypeOK
    BY DEF IInv
  <2> DEFINE q == decided[c].support
             vouchers == {n \in q \cap Honest \cap Members(c) : faces[n] = decided[c].value}
  <2>1. vouchers = q \cap Honest
    BY DecisionFacts
  <2>2. Cardinality(q \cap Honest) >= Cardinality(q) - Budget(c)
    BY DecisionFacts, MostlyHonest
  <2>3. Cardinality(q) \in Nat /\ Budget(c) \in Nat /\ Cardinality(q) > Budget(c)
    BY DecisionFacts, MostlyHonest, ConfigFacts
  <2>4. Cardinality(vouchers) >= Cardinality(q) - Budget(c)
    BY <2>1, <2>2
  <2> HIDE DEF vouchers
  <2>5. /\ Cardinality(vouchers) >= MinCorrect(q, Budget(c))
        /\ MinCorrect(q, Budget(c)) >= 1
    BY <2>3, <2>4 DEF MinCorrect
  <2> QED
    BY <2>5 DEF vouchers
<1> QED
  BY <1>1, Inductive, PTL

\* BftConfig::new (byzantine.rs:185-191): n >= 4f+1 is what lets the honest
\* members reach the threshold without the liars.
THEOREM HonestMembersSuffice == Spec => []HonestSuffice
<1>1. IInv => HonestSuffice
  <2> SUFFICES ASSUME IInv, NEW c \in Collectors, decided[c].kind = "abstained",
                      NEW v \in Values, Honest \cap Members(c) \subseteq Support(c, v)
               PROVE  FALSE
    BY DEF HonestSuffice
  <2> TypeOK
    BY DEF IInv
  <2>1. Support(c, v) \in SUBSET Members(c) /\ v \notin Clearing(c)
    BY DEF IInv, Backed, Support
  <2>2. /\ Cardinality(Members(c) \cap Honest) >= Cardinality(Members(c)) - Budget(c)
        /\ Cardinality(Members(c) \cap Honest) \in Nat
    BY MostlyHonest
  <2>3. Cardinality(Support(c, v)) \in Nat
        /\ Cardinality(Members(c) \cap Honest) <= Cardinality(Support(c, v))
    BY <2>1, MostlyHonest, FS_Subset
  <2>4. Cardinality(Support(c, v)) >= Cardinality(Members(c)) - Budget(c)
    BY <2>2, <2>3, ConfigFacts
  <2>5. Cardinality(Support(c, v)) > Budget(c)
    BY <2>3, <2>4, ConfigFacts
  <2>6. Cardinality(Support(c, v)) >= MaskingThreshold(Members(c), Budget(c))
    BY <2>3, <2>4, ConfigFacts DEF MaskingThreshold
  <2> QED
    BY <2>1, <2>5, <2>6 DEF Clearing, Attestable, Committable
<1> QED
  BY <1>1, Inductive, PTL

=============================================================================
