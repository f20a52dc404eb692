----------------------------- MODULE Succession -----------------------------
(***************************************************************************)
(* A line of leaders, one epoch after another: reconfig.rs (reconfigure,   *)
(* LeasedQuorum) with the election rules of tests/wire_sim.rs, for any     *)
(* number of candidates that compete for an epoch.                         *)
(*                                                                         *)
(* Every candidate runs candidate() and elect_and_serve(), every voter     *)
(* runs voter().  Datagrams may be lost, delayed, reordered and            *)
(* duplicated: a heartbeat carries a copy of the sender's lease and may be *)
(* heard late, so a candidate can act on a lease that has long been        *)
(* succeeded.  Each epoch has a member set of its own, and the sets of two *)
(* epochs need not meet (reconfig.rs:11-16): nothing but the lease orders  *)
(* the leaders of different epochs.                                        *)
(*                                                                         *)
(* Module WireSim follows one such candidate datagram by datagram.         *)
(***************************************************************************)
EXTENDS Quorums

CONSTANTS
  Candidates,
  Voters,
  Founder,    \* the leader of epoch 0
  LastEpoch,  \* the compiled epoch space is 0 .. LastEpoch
  Config,     \* [1 .. LastEpoch -> member set]
  TTL,
  MaxTime     \* bound of the runs

Nodes  == Candidates \cup Voters \cup {Founder}
Epochs == 0 .. LastEpoch

ASSUME SuccessionAssumption ==
  /\ IsFiniteSet(Nodes)
  /\ Candidates \cap Voters = {} /\ Founder \notin Candidates \cup Voters
  /\ LastEpoch \in Nat /\ TTL \in Nat /\ MaxTime \in Nat
  /\ Config \in [1 .. LastEpoch -> SUBSET Nodes]

VARIABLES
  clock,
  reigns,   \* every LeasedQuorum ever minted, and who holds it
  known,    \* known[c]: the epoch and lease c heard last; empty for None
  prior,    \* prior[c]: the one it passes to reconfigure; empty when it listens
  votes,    \* votes[c]: the votes c has gathered in this election
  asked,    \* the vote requests on the network
  voted     \* voted[n]: the epochs n granted, each with its candidate

vars == <<clock, reigns, known, prior, votes, asked, voted>>

Leases == [epoch : Epochs, granted_at : 0 .. MaxTime]
Reigns == [epoch : Epochs, granted_at : 0 .. MaxTime,
           leader : Nodes, quorum : SUBSET Nodes]
Ballots == [epoch : Epochs, candidate : Candidates]

\* Lease::new(now, TTL).expires_after.
ExpiresAfter(lease) == lease.granted_at + TTL

\* What a heartbeat of this reign says.
LeaseOf(reign) == [epoch |-> reign.epoch, granted_at |-> reign.granted_at]

TypeOK ==
  /\ clock \in 0 .. MaxTime
  /\ reigns \in SUBSET Reigns
  /\ known \in [Candidates -> SUBSET Leases]
  /\ prior \in [Candidates -> SUBSET Leases]
  /\ votes \in [Candidates -> SUBSET Nodes]
  /\ asked \in SUBSET Ballots
  /\ voted \in [Voters -> SUBSET Ballots]

Init ==
  /\ clock = 0
  /\ reigns = {[epoch |-> 0, granted_at |-> 0, leader |-> Founder, quorum |-> {}]}
  /\ known = [c \in Candidates |-> {}]
  /\ prior = [c \in Candidates |-> {}]
  /\ votes = [c \in Candidates |-> {}]
  /\ asked = {}
  /\ voted = [n \in Voters |-> {}]

-----------------------------------------------------------------------------
Serves(c)  == \E r \in reigns : r.leader = c
Listens(c) == prior[c] = {} /\ ~ Serves(c)

Tick ==
  /\ clock < MaxTime
  /\ clock' = clock + 1
  /\ UNCHANGED <<reigns, known, prior, votes, asked, voted>>

(* candidate(): a heartbeat replaces what was known, newer or older.       *)
Hear(c) ==
  /\ Listens(c)
  /\ \E r \in reigns : known' = [known EXCEPT ![c] = {LeaseOf(r)}]
  /\ UNCHANGED <<clock, reigns, prior, votes, asked, voted>>

\* The epoch after this one is compiled in.
HasSuccessor(lease) == lease.epoch < LastEpoch

(* candidate(): after a silence it seeks the next epoch, if it has one, and *)
(* acts on this lease until the election is over.                          *)
Seek(c) ==
  /\ Listens(c)
  /\ \E lease \in known[c] :
       /\ HasSuccessor(lease)
       /\ prior' = [prior EXCEPT ![c] = {lease}]
       /\ asked' = asked \cup {[epoch |-> lease.epoch + 1, candidate |-> c]}
  /\ votes' = [votes EXCEPT ![c] = {c}]
  /\ UNCHANGED <<clock, reigns, known, voted>>

\* Mutant: the voter goes by the candidate, not by the epoch.
MayGrantEach(n, request) == request \notin voted[n]

\* voted.insert(epoch) returns true.
MayGrant(n, request) == \A b \in voted[n] : b.epoch # request.epoch

(* voter(): one vote for an epoch, for whoever asks first.                 *)
Grant(n) ==
  /\ \E request \in asked :
       /\ MayGrant(n, request)
       /\ voted' = [voted EXCEPT ![n] = @ \cup {request}]
  /\ UNCHANGED <<clock, reigns, known, prior, votes, asked>>

\* A vote that this candidate counts in this election.
Counts(ballot, c, lease) ==
  ballot.candidate = c /\ ballot.epoch = lease.epoch + 1

(* elect_and_serve(): a vote arrives while the candidate polls, which it   *)
(* does until it has as many votes as a quorum, members' or not.           *)
Collect(c) ==
  /\ \E lease \in prior[c], n \in Voters :
       /\ Cardinality(votes[c]) < Threshold(Config[lease.epoch + 1])
       /\ \E ballot \in voted[n] : Counts(ballot, c, lease)
       /\ votes' = [votes EXCEPT ![c] = @ \cup {n}]
  /\ UNCHANGED <<clock, reigns, known, prior, asked, voted>>

\* What certify makes of the votes gathered so far.
Certified(c, lease) == Certify(Config[lease.epoch + 1], votes[c])

(* elect_and_serve(): the polls are used up without a quorum.              *)
GiveUp(c) ==
  /\ \E lease \in prior[c] : ~ Certified(c, lease)
  /\ prior' = [prior EXCEPT ![c] = {}]
  /\ UNCHANGED <<clock, reigns, known, votes, asked, voted>>

\* Mutant: the expiry is taken for exclusive.
LapsedEarly(lease) == clock >= ExpiresAfter(lease)

\* The lease is no longer valid.
Lapsed(lease) == clock > ExpiresAfter(lease)

(* reconfig.rs reconfigure: both guards hold, and the candidate serves from *)
(* here on.  While the lease is valid it waits and tries again.            *)
Reconfigure(c) ==
  /\ \E lease \in prior[c] :
       /\ Lapsed(lease)
       /\ Certified(c, lease)
       /\ reigns' = reigns \cup
            {[epoch |-> lease.epoch + 1, granted_at |-> clock,
              leader |-> c, quorum |-> votes[c]]}
  /\ prior' = [prior EXCEPT ![c] = {}]
  /\ UNCHANGED <<clock, known, votes, asked, voted>>

Next ==
  \/ Tick
  \/ \E c \in Candidates : Hear(c) \/ Seek(c) \/ Collect(c) \/ GiveUp(c)
                           \/ Reconfigure(c)
  \/ \E n \in Voters : Grant(n)

Spec == Init /\ [][Next]_vars

-----------------------------------------------------------------------------
(* Safety.                                                                 *)

\* The leases granted, as module Authority sees them.
Granted ==
  {[epoch |-> r.epoch, granted_at |-> r.granted_at,
    expires_after |-> ExpiresAfter(r)] : r \in reigns}

A == INSTANCE Authority WITH Times <- 0 .. (MaxTime + TTL),
                             clock <- clock, grants <- Granted

\* reconfigure (reconfig.rs:92-103): with competing candidates that act on copies
\* of old leases, authority is still granted one epoch after another, and never
\* before every earlier lease has run out.
AuthorityIsDisjoint == A!Spec

\* certify under the voters' one grant per epoch: whoever serves an epoch, nobody
\* else ever does.
OneReignPerEpoch ==
  \A r, s \in reigns : r.epoch = s.epoch => r = s

\* The voters whose grant candidate c has at an epoch, or can still get.
Winnable(c, epoch) ==
  {n \in Voters : \A b \in voted[n] : b.epoch = epoch => b.candidate = c}

\* The votes of an epoch are split beyond repair: no candidate can gather a
\* quorum around itself.
Split(epoch) ==
  \A c \in Candidates : \A q \in SUBSET Winnable(c, epoch) :
    ~ Certify(Config[epoch], q \cup {c})

\* voter() never takes a grant back: once the votes of an epoch are split, the
\* line of leaders ends there, for that epoch and every later one.
SplitEndsTheLine ==
  \A e \in 1 .. LastEpoch : Split(e) => \A r \in reigns : r.epoch < e

=============================================================================
