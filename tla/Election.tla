------------------------------ MODULE Election ------------------------------
(***************************************************************************)
(* Leader election in one term while the electorate is reconfigured:       *)
(* election.rs (Ballot, close) certified by membership.rs, over the        *)
(* electorates that reconfig_safety.rs (SizedConfig::reconfigure) lets     *)
(* follow one another.                                                     *)
(*                                                                         *)
(* A ballot is typed by its term and a voter's vote by its term, so terms  *)
(* do not interact and one of them is modelled.  The voters are those the  *)
(* module docs ask for: one vote per term (election.rs "one-vote-per-term  *)
(* seam", the voter of tests/wire_sim.rs).  Candidates learn of a          *)
(* reconfiguration when they do: each closes its ballot against the        *)
(* electorate it knows.                                                    *)
(***************************************************************************)
EXTENDS Quorums, Sequences

CONSTANTS
  Nodes,
  Candidates,
  Founders,     \* the members of the first electorate
  MaxChanges,   \* bound of the runs: reconfigurations
  Relabel,      \* whether each electorate gets an epoch label of its own
  Nobody        \* not a candidate: a vote not yet cast

ASSUME ElectionAssumption ==
  /\ IsFiniteSet(Nodes)
  /\ Founders \in SUBSET Nodes
  /\ MaxChanges \in Nat
  /\ Relabel \in BOOLEAN
  /\ Nobody \notin Candidates

VARIABLES
  history,   \* the electorates so far, each reconfigured from the one before
  live,      \* whether the last of them is still held by anyone
  view,      \* view[c]: the electorate candidate c knows of, by position
  voted,     \* voted[n]: whom n voted for in this term
  ballot,    \* ballot[c]: the voters recorded, and whether the ballot is open
  elected    \* the certificates minted: who, against which electorate, by whom

vars == <<history, live, view, voted, ballot, elected>>

Ballots == [open : BOOLEAN, voters : SUBSET Nodes]
Seats   == [leader : Candidates, at : Nat \ {0}, quorum : SUBSET Nodes]

\* The type parameter E of the electorate at a position: the operator's choice.
Label(i) == IF Relabel THEN i ELSE 1

TypeOK ==
  /\ history \in Seq(SUBSET Nodes) /\ history # <<>>
  /\ live \in BOOLEAN
  /\ view \in [Candidates -> DOMAIN history]
  /\ voted \in [Nodes -> Candidates \cup {Nobody}]
  /\ ballot \in [Candidates -> Ballots]
  /\ elected \in SUBSET Seats /\ \A s \in elected : s.at \in DOMAIN history

Init ==
  /\ history = <<Founders>>
  /\ live = TRUE
  /\ view = [c \in Candidates |-> 1]
  /\ voted = [n \in Nodes |-> Nobody]
  /\ ballot = [c \in Candidates |-> [open |-> TRUE, voters |-> {}]]
  /\ elected = {}

-----------------------------------------------------------------------------
Current == history[Len(history)]

\* Mutant: any set of a permitted size is accepted.
AcceptsAnySet(old, new) == TRUE

\* The runtime half of SizedConfig::reconfigure: the sets are nested.
Accepts(old, new) == Nested(old, new)

(* SizedConfig::reconfigure.  A size that breaks the intersection does not   *)
(* compile; a set of the wrong size, or one that is not nested, is refused.  *)
(* The old configuration is consumed either way: a refusal leaves nobody     *)
(* with a configuration to go on from.                                       *)
Reconfigure ==
  /\ live
  /\ Len(history) <= MaxChanges
  /\ \/ \E new \in SUBSET Nodes :
          /\ PreservesIntersection(Cardinality(Current), Cardinality(new))
          /\ Accepts(Current, new)
          /\ history' = Append(history, new)
          /\ UNCHANGED live
     \/ live' = FALSE /\ UNCHANGED history
  /\ UNCHANGED <<view, voted, ballot, elected>>

\* The electorates a candidate can be told of next.
Agreed(c) == (view[c] + 1) .. Len(history)

Learn(c) ==
  /\ \E i \in Agreed(c) : view' = [view EXCEPT ![c] = i]
  /\ UNCHANGED <<history, live, voted, ballot, elected>>

\* The one-vote-per-term seam.
MayVote(n) == voted[n] = Nobody

(* A voter grants its vote; the candidate may or may not hear of it.       *)
CastVote(n) ==
  /\ MayVote(n)
  /\ \E c \in Candidates : voted' = [voted EXCEPT ![n] = c]
  /\ UNCHANGED <<history, live, view, ballot, elected>>

(* Ballot::vote: idempotent, members or not.                               *)
Record(c) ==
  /\ ballot[c].open
  /\ \E n \in Nodes :
       /\ voted[n] = c
       /\ ballot' = [ballot EXCEPT ![c].voters = @ \cup {n}]
  /\ UNCHANGED <<history, live, view, voted, elected>>

(* Ballot::close: the ballot is consumed whether it certifies or not.      *)
Close(c) ==
  /\ ballot[c].open
  /\ ballot' = [ballot EXCEPT ![c].open = FALSE]
  /\ elected' = IF Certify(history[view[c]], ballot[c].voters)
                  THEN elected \cup {[leader |-> c, at |-> view[c],
                                      quorum |-> ballot[c].voters]}
                  ELSE elected
  /\ UNCHANGED <<history, live, view, voted>>

Next ==
  \/ Reconfigure
  \/ \E c \in Candidates : Learn(c) \/ Record(c) \/ Close(c)
  \/ \E n \in Nodes : CastVote(n)

Spec == Init /\ [][Next]_vars

-----------------------------------------------------------------------------
(* Safety.                                                                 *)

Adjacent(i, j) == i <= j + 1 /\ j <= i + 1

\* Elected (election.rs:112-142) under the gate of reconfig_safety.rs:125-144:
\* two leaders of one term, certified by the same electorate or by two that
\* follow one another, are one and the same, whatever each candidate has missed.
OneLeaderNearby ==
  \A s, t \in elected : Adjacent(s.at, t.at) => s.leader = t.leader

\* Quorum::intersect (membership.rs:126-128): two certificates that wear the same
\* epoch label always share a member, so the result is never None.
SameLabelMeets ==
  \A s, t \in elected : Label(s.at) = Label(t.at) => Intersect(s.quorum, t.quorum)

=============================================================================
