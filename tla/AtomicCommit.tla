---------------------------- MODULE AtomicCommit ----------------------------
(***************************************************************************)
(* Atomic commit of one transaction: twophase.rs (participants that give    *)
(* up their choice when they vote YES, and a ballot) and cross_shard.rs (a  *)
(* barrier over the declared shards).  The two modules offer two tallies    *)
(* for the same protocol; a run uses one of them throughout.                *)
(*                                                                         *)
(* A vote is linear: it arrives once or never.  A decision is Copy: it may  *)
(* be sent to anybody, any number of times.  The coordinator may die at any *)
(* moment, and what it had collected dies with it.                          *)
(*                                                                         *)
(* twophase.rs leaves two duties to its coordinator (92-99), which          *)
(* the ballot's one keeps here: it tells everybody one decision, and        *)
(* it resolves no ballot that holds some of the votes but not all.  What it *)
(* does with such a ballot is to drop it and to resolve an empty one.       *)
(***************************************************************************)
EXTENDS Naturals, FiniteSets

CONSTANTS
  Shards,    \* the shards that prepare for the transaction
  Declared   \* the participants the coordinator knows of

ASSUME CommitAssumption ==
  IsFiniteSet(Shards) /\ Declared \subseteq Shards

VARIABLES
  tally,     \* "ballot" (twophase.rs) or "barrier" (cross_shard.rs)
  state,     \* state[s]: the type-level state of Participant s
  voted,     \* the shards that ever emitted a vote
  votes,     \* the votes under way
  recorded,  \* the votes in the coordinator's open ballot or barrier
  outcome,   \* the decision minted, "none" before
  told,      \* the shards the decision was sent to
  alive      \* whether the coordinator lives

vars == <<tally, state, voted, votes, recorded, outcome, told, alive>>

Final == {"committed", "aborted"}

TypeOK ==
  /\ tally \in {"ballot", "barrier"}
  /\ state \in [Shards -> {"working", "prepared"} \cup Final]
  /\ voted \in SUBSET Shards /\ votes \in SUBSET voted /\ recorded \in SUBSET (voted \ votes)
  /\ outcome \in {"none", "commit", "abort"}
  /\ told \in SUBSET Shards
  /\ alive \in BOOLEAN

\* Participant::join, Ballot::new and AtomicCommit::over.
Init ==
  /\ tally \in {"ballot", "barrier"}
  /\ state = [s \in Shards |-> "working"]
  /\ voted = {} /\ votes = {} /\ recorded = {}
  /\ outcome = "none" /\ told = {} /\ alive = TRUE

-----------------------------------------------------------------------------
\* cross_shard.rs, prepare: the linear vote of a shard comes into being.
Emitted(s) == votes \cup {s}

\* Participant::prepare(true): in doubt from here on, with a vote on its way.
VoteYes(s) ==
  /\ state[s] = "working"
  /\ state' = [state EXCEPT ![s] = "prepared"]
  /\ voted' = voted \cup {s}
  /\ votes' = Emitted(s)
  /\ UNCHANGED <<tally, recorded, outcome, told, alive>>

\* Participant::prepare(false): aborted at once, and no vote.
VoteNo(s) ==
  /\ state[s] = "working"
  /\ state' = [state EXCEPT ![s] = "aborted"]
  /\ UNCHANGED <<tally, voted, votes, recorded, outcome, told, alive>>

\* The linear token is consumed.
Taken(s) == votes \ {s}

\* Ballot::record and AtomicCommit::record: of whichever shard the vote is.
Record(s) ==
  /\ alive /\ outcome = "none"
  /\ s \in votes
  /\ votes' = Taken(s)
  /\ recorded' = recorded \cup {s}
  /\ UNCHANGED <<tally, state, voted, outcome, told, alive>>

\* The coordinator gives up on what it has: the ballot is dropped for an empty one.
Discard ==
  /\ alive /\ outcome = "none" /\ recorded # {}
  /\ recorded' = {}
  /\ UNCHANGED <<tally, state, voted, votes, outcome, told, alive>>

\* Mutants: unanimity by number; one vote is as good as all.
CompleteByCount == Cardinality(recorded) >= Cardinality(Declared)
CompleteByOne   == recorded # {}

\* Every declared participant has voted: AtomicCommit::seal's test, and the ballot
\* coordinator's duty.
Complete == Declared \subseteq recorded

\* Ballot::resolve commits on any vote, AtomicCommit::seal on unanimity over a set
\* that is not empty.
Commits ==
  \/ tally = "ballot"  /\ recorded # {}
  \/ tally = "barrier" /\ Declared # {} /\ Complete

\* Ballot::resolve and AtomicCommit::seal.
Resolve ==
  /\ alive /\ outcome = "none"
  /\ tally = "ballot" => Complete \/ recorded = {}
  /\ outcome' = IF Commits THEN "commit" ELSE "abort"
  /\ recorded' = {}
  /\ UNCHANGED <<tally, state, voted, votes, told, alive>>

\* The decision is sent to a participant; that of the barrier, to any shard.
Tell(s) ==
  /\ alive /\ outcome # "none"
  /\ tally = "ballot" => s \in Declared
  /\ told' = told \cup {s}
  /\ UNCHANGED <<tally, state, voted, votes, recorded, outcome, alive>>

\* Mutant: an abort is no news.
VerdictUnlessAbort(s) == IF outcome = "commit" THEN "committed" ELSE "prepared"

\* What the decision means for s: the outcome is in the type of Decision, and
\* CrossCommitted::commits asks whether s was declared.
Verdict(s) ==
  IF outcome = "commit" /\ (tally = "barrier" => s \in Declared)
  THEN "committed" ELSE "aborted"

\* Participant::decide, the only way out of doubt.
Decide(s) ==
  /\ state[s] = "prepared" /\ s \in told
  /\ state' = [state EXCEPT ![s] = Verdict(s)]
  /\ UNCHANGED <<tally, voted, votes, recorded, outcome, told, alive>>

\* The coordinator dies; a decision that was sent still arrives.
Crash ==
  /\ alive
  /\ alive' = FALSE
  /\ recorded' = {}
  /\ UNCHANGED <<tally, state, voted, votes, outcome, told>>

Next ==
  \/ \E s \in Shards : VoteYes(s) \/ VoteNo(s) \/ Record(s) \/ Tell(s) \/ Decide(s)
  \/ Discard \/ Resolve \/ Crash

Spec == Init /\ [][Next]_vars

-----------------------------------------------------------------------------
\* seal (cross_shard.rs:209-218) and resolve (twophase.rs:271-277): once a commit is
\* decided every declared shard has voted for it and none has aborted or ever
\* will, however late the votes and the news, and nobody commits without it.
NoTornCommit ==
  IF outcome = "commit"
  THEN \A s \in Declared : s \in voted /\ state[s] # "aborted"
  ELSE \A s \in Shards : state[s] # "committed"

Fate(s) == IF state[s] \in Final THEN state[s] ELSE "open"

U == INSTANCE Unanimity WITH Parties <- Declared,
                             consent <- voted \cap Declared,
                             fate <- [s \in Declared |-> Fate(s)]

\* With either tally the protocol is the abstract one.
CommitIsUnanimous == U!Spec

=============================================================================
