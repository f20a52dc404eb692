----------------------------- MODULE ByzVoting -----------------------------
(***************************************************************************)
(* Value corroboration under lying voters: attest.rs driven over datagrams *)
(* as tests/attest_wire.rs drives it.  Every node sends one vote to each   *)
(* collector; a liar sends whatever it likes to whomever it likes.  A      *)
(* collector gathers the votes that promote_vote lets through and then     *)
(* asks the library once, at one of two thresholds: attest (f+1, the       *)
(* existence tier) or commit_masking (the masking tier).                   *)
(*                                                                         *)
(* Datagrams may be lost, delayed, reordered and duplicated: a collector   *)
(* receives any datagram that was sent, in any order, or never.  The votes *)
(* of the previous epoch are still under way.  Each collector holds        *)
(* its own configuration, because the type parameter E pins a label and    *)
(* not a member set: two collectors that wear the same E may hold          *)
(* different configurations (byzantine.rs:258-266).                        *)
(***************************************************************************)
EXTENDS Quorums

CONSTANTS
  Nodes,        \* every node id a datagram can carry
  Liars,        \* the nodes that do not follow voter()
  Collectors,   \* the hosts that decide
  Configs,      \* what cfg() may return at each of them
  Values,       \* the values voted on
  PreviousVote, \* [Honest -> Values], what the honest nodes voted an epoch ago
  NoValue       \* not a value: an honest node that has not voted

Honest == Nodes \ Liars
Epochs == {"previous", "current"}

Datagrams == [epoch : Epochs, voter : Nodes, to : Collectors, value : Values]
Votes     == [voter : Nodes, value : Values]

ASSUME NodesAssumption ==
  /\ IsFiniteSet(Nodes)
  /\ Liars \subseteq Nodes
  /\ NoValue \notin Values
  /\ PreviousVote \in [Honest -> Values]

\* BftConfig::new returned Some for every collector.
ASSUME ConfigAssumption ==
  /\ Configs \subseteq [Collectors -> [members : SUBSET Nodes, f : Nat]]
  /\ \A g \in Configs, c \in Collectors : BftConfig(g[c].members, g[c].f)

\* The declared fault budget is right: the axiom of byzantine.rs.
ASSUME BudgetAssumption ==
  \A g \in Configs, c \in Collectors : Cardinality(Liars \cap g[c].members) <= g[c].f

VARIABLES
  tier,     \* which of the two thresholds this run decides at
  config,   \* the configuration of each collector
  faces,    \* faces[n]: the value honest node n tells every collector
  votes,    \* votes[c]: the votes collector c has promoted
  decided   \* decided[c]: c's decision

vars == <<tier, config, faces, votes, decided>>

Tiers == {"existence", "masking"}

Members(c) == config[c].members
Budget(c)  == config[c].f

Decisions == [kind : {"open", "abstained"}]
             \cup [kind : {"decided"}, value : Values, support : SUBSET Nodes]

Open(c)    == decided[c].kind = "open"
Decided(c) == decided[c].kind = "decided"

TypeOK ==
  /\ tier \in Tiers
  /\ config \in Configs
  /\ faces \in [Honest -> Values \cup {NoValue}]
  /\ votes \in [Collectors -> SUBSET Votes]
  /\ decided \in [Collectors -> Decisions]

Init ==
  /\ tier \in Tiers
  /\ config \in Configs
  /\ faces = [n \in Honest |-> NoValue]
  /\ votes = [c \in Collectors |-> {}]
  /\ decided = [c \in Collectors |-> [kind |-> "open"]]

-----------------------------------------------------------------------------
\* The datagrams sent so far.  An honest node sends the same value to every
\* collector; a liar may have sent anything.
Sent ==
  {d \in Datagrams :
     \/ d.voter \in Liars
     \/ d.epoch = "previous" /\ d.value = PreviousVote[d.voter]
     \/ d.epoch = "current"  /\ d.value = faces[d.voter]}

(* voter(): an honest node picks its value and sends it, once.             *)
Cast(n) ==
  /\ faces[n] = NoValue
  /\ \E v \in Values : faces' = [faces EXCEPT ![n] = v]
  /\ UNCHANGED <<tier, config, votes, decided>>

\* Mutant: the epoch of the datagram is not looked at.
PromotesAnyEpoch(d) == TRUE

\* promote_vote: the epoch is checked against the compiled one, never lifted.
Promotes(d) == d.epoch = "current"

(* collector(): one recv_from of the gathering loop.                       *)
Receive(c) ==
  /\ Open(c)
  /\ \E d \in Sent :
       /\ d.to = c
       /\ Promotes(d)
       /\ votes' = [votes EXCEPT ![c] = @ \cup {[voter |-> d.voter, value |-> d.value]}]
  /\ UNCHANGED <<tier, config, faces, decided>>

\* The group of a value: its distinct voters that are members.
Support(c, v) == {n \in Members(c) : [voter |-> n, value |-> v] \in votes[c]}

\* attest: the groups above f.
Attestable(c) == {v \in Values : Cardinality(Support(c, v)) > Budget(c)}

\* commit_masking: the groups that reach the masking threshold.
Committable(c) ==
  {v \in Values :
     Cardinality(Support(c, v)) >= MaskingThreshold(Members(c), Budget(c))}

Clearing(c) == IF tier = "existence" THEN Attestable(c) ELSE Committable(c)

\* max_by_key: a best supported group; which one of a tie depends on the order
\* of arrival.
Best(c) == {v \in Clearing(c) : \A w \in Clearing(c) :
                 Cardinality(Support(c, w)) <= Cardinality(Support(c, v))}

(* collector(): the window closes and the library decides.                 *)
Decide(c) ==
  /\ Open(c)
  /\ \/ /\ Clearing(c) = {}
        /\ decided' = [decided EXCEPT ![c] = [kind |-> "abstained"]]
     \/ \E v \in Best(c) :
          /\ tier = "masking" => CertifyMasking(Members(c), Budget(c), Support(c, v))
          /\ decided' = [decided EXCEPT ![c] =
                [kind |-> "decided", value |-> v, support |-> Support(c, v)]]
  /\ UNCHANGED <<tier, config, faces, votes>>

Next ==
  \/ \E n \in Honest : Cast(n)
  \/ \E c \in Collectors : Receive(c)
  \/ \E c \in Collectors : Decide(c)

Spec == Init /\ [][Next]_vars

-----------------------------------------------------------------------------
(* Safety.                                                                 *)

\* Committed::agreement_witness, of two decided collectors: an Overlap is returned.
Witnessed(a, b) == MintsOverlap(decided[a].support, decided[b].support, Budget(a))

\* commit_masking: two collectors of one configuration never commit two
\* values, whatever the liars told each of them and whatever was lost.
MaskingUnique ==
  \A a, b \in Collectors :
    (tier = "masking" /\ config[a] = config[b] /\ Decided(a) /\ Decided(b))
      => decided[a].value = decided[b].value

\* Committed::agreement_witness: for one configuration the None arm is
\* unreachable, the two supports overlap above 2f.
WitnessMinted ==
  \A a, b \in Collectors :
    (tier = "masking" /\ config[a] = config[b] /\ Decided(a) /\ Decided(b))
      => Witnessed(a, b)

\* Committed::agreement_witness: when a witness is minted the values agree, also
\* for two configurations that wear the same epoch label, as long as the budget
\* of the receiver covers the liars among its members; and min_correct() of the shared
\* members are honest and stand behind the value.
WitnessSound ==
  \A a, b \in Collectors :
    Decided(a) /\ Decided(b) /\ Witnessed(a, b) =>
      LET shared == {n \in decided[a].support \cap decided[b].support \cap Honest :
                       faces[n] = decided[a].value}
      IN  /\ decided[a].value = decided[b].value
          /\ Cardinality(shared)
               >= OverlapMinCorrect(decided[a].support, decided[b].support, Budget(a))

\* Committed::agreement_witness, both sides: over one configuration it never fails,
\* and over any two it never vouches for different values.
AgreementWitness == WitnessMinted /\ WitnessSound

\* attest and commit_masking: at least min_correct() >= 1 of the supporters are
\* honest members that voted for this value in this epoch; the liars alone, a
\* stale vote or an outsider never make a value believable.
CorrectVouchers ==
  \A c \in Collectors : Decided(c) =>
    LET vouchers == {n \in decided[c].support \cap Honest \cap Members(c) :
                       faces[n] = decided[c].value}
    IN  /\ Cardinality(vouchers) >= MinCorrect(decided[c].support, Budget(c))
        /\ MinCorrect(decided[c].support, Budget(c)) >= 1

\* BftConfig::new: at n >= 4f+1 the honest members alone reach the threshold, so
\* a collector that heard one value from all of them never abstains.
HonestSuffice ==
  \A c \in Collectors : decided[c].kind = "abstained" =>
    ~ \E v \in Values : Honest \cap Members(c) \subseteq Support(c, v)

=============================================================================
