--------------------------- MODULE WireSimProofs ---------------------------
(* Lease-guarded failover for every TTL, every silence and every network:  *)
(* type correctness, how long two hosts can serve at once, the vote behind *)
(* every service, and that the harness implements module Authority.        *)
(*                                                                         *)
(* The overlap bound is not inductive.  It follows from what ties the      *)
(* clocks of the two hosts together: a leader with its token has acted at  *)
(* its last wake-up and wakes by the tick after its expiry (LeaderClock),  *)
(* and a candidate that was refused waits for the tick after that          *)
(* (CandidateClock).                                                       *)
EXTENDS WireSim, FiniteSetTheorems, TLAPS

LeaderClock ==
  token => now <= due /\ due <= Expiry + 1

CandidateClock ==
  /\ refused => pc \in {"sleep", "serve"}
  /\ pc = "sleep" => refused /\ wake = Expiry + 2
  /\ CandidateServes =>
       /\ Expiry < granted /\ granted <= now
       /\ refused => Expiry + 2 <= granted

Elected ==
  /\ Vote \in net => voted
  /\ votes \subseteq {CANDIDATE, VOTER}
  /\ VOTER \in votes => voted
  /\ pc = "poll" => polls < 4
  /\ pc \in {"sleep", "serve"} => VOTER \in votes

IInv == TypeOK /\ LeaderClock /\ CandidateClock /\ Elected

USE DEF Expiry, Never

-----------------------------------------------------------------------------
\* The candidate and the voter are two hosts.
LEMMA TwoHosts == VOTER # CANDIDATE
<1>1. SUFFICES ASSUME VOTER = CANDIDATE PROVE FALSE
  OBVIOUS
<1>2. IsFiniteSet({LEADER}) /\ Cardinality({LEADER}) = 1
  BY FS_Singleton
<1>3. {LEADER, CANDIDATE, VOTER} = {LEADER} \cup {CANDIDATE}
  BY <1>1
<1> QED
  BY <1>2, <1>3, FS_AddElement, HostAssumption

\* Two of the three hosts are needed, so the candidate's own vote is not enough.
LEMMA NeedsVoter ==
  ASSUME NEW voters \in SUBSET {CANDIDATE, VOTER}, Certify(Hosts, voters)
  PROVE  VOTER \in voters
<1>1. Cardinality(voters) >= 2
  BY HostAssumption DEF Certify, Threshold, Hosts
<1>2. voters # {} /\ voters # {CANDIDATE}
  BY <1>1, FS_EmptySet, FS_Singleton
<1> QED
  BY <1>2

\* The datagram kinds are told apart by their records.
LEMMA DistinctDatagrams ==
  /\ Vote # LeaderBeat /\ Vote # CandidateBeat /\ Vote # VoteReq
  /\ LeaderBeat \in Datagrams /\ CandidateBeat \in Datagrams
  /\ VoteReq \in Datagrams /\ Vote \in Datagrams
  BY DEF Vote, LeaderBeat, CandidateBeat, VoteReq, Datagrams

\* A send adds at most the datagram sent.
LEMMA SendAdds ==
  ASSUME NEW d \in Datagrams, TypeOK, Send(d)
  PROVE  net' \in SUBSET Datagrams /\ net' \subseteq net \cup {d}
  BY DEF Send, TypeOK

\* What reconfigure makes of a candidate that holds a certified quorum.
LEMMA MintKeeps ==
  ASSUME TypeOK, Mint, now' = now, refused => now >= Expiry + 2
  PROVE  /\ pc' \in {"sleep", "serve"}
         /\ wake' \in Nat /\ granted' \in Nat /\ refused' \in BOOLEAN
         /\ CandidateClock'
<1>1. now \in Nat /\ TTL \in Nat /\ refused \in BOOLEAN
  BY TimeAssumption DEF TypeOK
<1>2. CASE Reconfigures
  BY <1>1, <1>2 DEF Mint, Reconfigures, TypeOK, CandidateClock, CandidateServes
<1>3. CASE ~ Reconfigures
  BY <1>1, <1>3 DEF Mint, Reconfigures, TypeOK, CandidateClock, CandidateServes
<1> QED
  BY <1>2, <1>3

\* What a poll makes of the candidate.
LEMMA AfterPollKeeps ==
  ASSUME IInv, pc = "poll", NEW voters \in SUBSET {CANDIDATE, VOTER},
         AfterPoll(voters), VOTER \in voters => voted, net' \subseteq net,
         UNCHANGED <<now, network, leaderVars, heard, voted>>
  PROVE  IInv'
<1> USE TimeAssumption
<1>1. /\ polls' \in 0 .. 4 /\ votes' = voters /\ voters \in SUBSET Hosts
      /\ ~ refused /\ net' \in SUBSET Datagrams
  BY DEF AfterPoll, IInv, TypeOK, CandidateClock, Elected, Hosts
<1>2. CASE polls' < 4 /\ UNCHANGED <<pc, authority>>
  BY <1>1, <1>2
  DEF IInv, TypeOK, LeaderClock, CandidateClock, CandidateServes, Elected,
      authority, network, leaderVars
<1>3. CASE pc' = "listen" /\ UNCHANGED authority
  BY <1>1, <1>3
  DEF IInv, TypeOK, LeaderClock, CandidateClock, CandidateServes, Elected,
      authority, network, leaderVars
<1>4. CASE Certify(Hosts, voters) /\ Mint
  <2>1. VOTER \in voters
    BY <1>4, NeedsVoter
  <2>2. /\ pc' \in {"sleep", "serve"}
        /\ wake' \in Nat /\ granted' \in Nat /\ refused' \in BOOLEAN
        /\ CandidateClock'
    BY <1>1, <1>4, MintKeeps DEF IInv
  <2> QED
    BY <1>1, <2>1, <2>2 DEF IInv, TypeOK, LeaderClock, Elected, network, leaderVars
<1> QED
  BY <1>2, <1>3, <1>4 DEF AfterPoll

-----------------------------------------------------------------------------
LEMMA InvInit == Init => IInv
<1> SUFFICES ASSUME Init PROVE IInv
  OBVIOUS
<1> USE TimeAssumption
<1>1. TypeOK
  <2>1. 0 \in 0 .. MaxTime /\ MaxTime + 1 \in 0 .. MaxTime + 1 /\ 0 \in 0 .. 4
    OBVIOUS
  <2>2. /\ {} \in SUBSET Datagrams /\ {} \in SUBSET Hosts
    OBVIOUS
  <2> QED
    BY <2>1, <2>2 DEF Init, TypeOK
<1>2. LeaderClock
  BY DEF Init, LeaderClock
<1>3. CandidateClock /\ Elected
  BY DEF Init, CandidateClock, CandidateServes, Elected
<1> QED
  BY <1>1, <1>2, <1>3 DEF IInv

\* One step per action.
LEMMA InvNext == IInv /\ [Next]_vars => IInv'
<1> SUFFICES ASSUME IInv, [Next]_vars PROVE IInv'
  OBVIOUS
<1> USE TimeAssumption DEF network, leaderVars, candidateVars, election, authority
<1>1. CASE Tick
  BY <1>1 DEF Tick, IInv, TypeOK, LeaderClock, CandidateClock, CandidateServes, Elected
<1>2. CASE Isolate \/ Heal
  BY <1>2 DEF Isolate, Heal, IInv, TypeOK, LeaderClock, CandidateClock, CandidateServes, Elected
<1>3. CASE Lead
  <2>1. token' \in BOOLEAN /\ due' \in Nat /\ LeaderClock'
    <3>1. now \in Nat /\ due \in Nat /\ now' = now
      BY <1>3 DEF Lead, IInv, TypeOK
    <3>2. CASE Surrenders
      BY <1>3, <3>1, <3>2 DEF Lead, LeaderClock
    <3>3. CASE ~ Surrenders
      BY <1>3, <3>1, <3>3 DEF Lead, Surrenders, LeaderClock
    <3> QED
      BY <3>2, <3>3
  <2>2. net' \in SUBSET Datagrams /\ net' \subseteq net \cup {LeaderBeat}
    BY <1>3, SendAdds, DistinctDatagrams DEF Lead, IInv, TypeOK
  <2> QED
    BY <1>3, <2>1, <2>2, DistinctDatagrams
    DEF Lead, IInv, TypeOK, CandidateClock, CandidateServes, Elected
<1>4. CASE Follow
  BY <1>4 DEF Follow, IInv, TypeOK, LeaderClock, CandidateClock, CandidateServes, Elected
<1>5. CASE HearBeat
  BY <1>5 DEF HearBeat, IInv, TypeOK, LeaderClock, CandidateClock, CandidateServes, Elected
<1>6. CASE DropVote
  BY <1>6 DEF DropVote, IInv, TypeOK, LeaderClock, CandidateClock, CandidateServes, Elected
<1>7. CASE Seek
  <2>1. net' \in SUBSET Datagrams /\ net' \subseteq net \cup {VoteReq}
    BY <1>7, SendAdds, DistinctDatagrams DEF Seek, IInv, TypeOK
  <2>2. /\ pc = "listen" /\ pc' = "poll" /\ polls' = 0 /\ votes' = {CANDIDATE}
        /\ UNCHANGED <<now, network, leaderVars, heard, authority, voted>>
    BY <1>7 DEF Seek
  <2> QED
    BY <2>1, <2>2, TwoHosts, DistinctDatagrams
    DEF IInv, TypeOK, LeaderClock, CandidateClock, CandidateServes, Elected, Hosts
<1>8. CASE Poll
  <2>1. CASE Vote \in net /\ net' = net \ {Vote} /\ AfterPoll(votes \cup {VOTER})
    BY <1>8, <2>1, AfterPollKeeps DEF Poll, IInv, Elected
  <2>2. CASE net' \subseteq net /\ AfterPoll(votes)
    BY <1>8, <2>2, AfterPollKeeps DEF Poll, IInv, Elected
  <2> QED
    BY <1>8, <2>1, <2>2 DEF Poll
<1>9. CASE Retry
  <2>1. now >= Expiry + 2
    BY <1>9 DEF Retry, IInv, CandidateClock
  <2>2. /\ pc' \in {"sleep", "serve"}
        /\ wake' \in Nat /\ granted' \in Nat /\ refused' \in BOOLEAN
        /\ CandidateClock'
    BY <1>9, <2>1, MintKeeps DEF Retry, IInv
  <2> QED
    BY <1>9, <2>2 DEF Retry, IInv, TypeOK, LeaderClock, Elected
<1>10. CASE Serve
  <2>1. net' \in SUBSET Datagrams /\ net' \subseteq net \cup {CandidateBeat}
    BY <1>10, SendAdds, DistinctDatagrams DEF Serve, IInv, TypeOK
  <2> QED
    BY <1>10, <2>1, DistinctDatagrams
    DEF Serve, IInv, TypeOK, LeaderClock, CandidateClock, CandidateServes, Elected
<1>11. CASE Voter
  <2>1. net' \in SUBSET Datagrams /\ voted' = TRUE
    BY <1>11, DistinctDatagrams DEF Voter, IInv, TypeOK
  <2> QED
    BY <1>11, <2>1
    DEF Voter, IInv, TypeOK, LeaderClock, CandidateClock, CandidateServes, Elected
<1>12. CASE UNCHANGED vars
  BY <1>12 DEF vars, IInv, TypeOK, LeaderClock, CandidateClock, CandidateServes, Elected
<1> QED
  BY <1>1, <1>2, <1>3, <1>4, <1>5, <1>6, <1>7, <1>8, <1>9, <1>10, <1>11, <1>12 DEF Next

LEMMA Inductive == Spec => []IInv
  BY InvInit, InvNext, PTL DEF Spec

-----------------------------------------------------------------------------
\* Type correctness of the harness.
THEOREM TypeCorrect == Spec => []TypeOK
  BY Inductive, PTL DEF IInv

\* The slack of elect_and_serve (wire_sim.rs:283) and the lease guard together:
\* however late the votes and whatever was lost, two hosts serve at once for at
\* most one tick, and never after a refusal.
THEOREM OverlapBounded == Spec => []OverlapIsOneTick
<1>1. IInv => OverlapIsOneTick
  BY TimeAssumption
  DEF IInv, TypeOK, LeaderClock, CandidateClock, CandidateServes, LeaderServes,
      OverlapIsOneTick
<1> QED
  BY <1>1, Inductive, PTL

\* certify (membership.rs:98-105) on votes off the wire: the voter granted epoch
\* 1 before anyone minted it.
THEOREM ServiceWasGranted == Spec => []GrantBehindService
<1>1. IInv => GrantBehindService
  BY DEF IInv, Elected, GrantBehindService
<1> QED
  BY <1>1, Inductive, PTL

\* voter() (wire_sim.rs:308-321) never sends a vote twice: a candidate that
\* missed the grant stays unelected, whatever it does.
THEOREM MissedGrantStays == Spec => MissedGrantIsFinal
<1>1. ASSUME IInv, Next, Doomed
      PROVE  Doomed'
  <2> USE <1>1 DEF Doomed, candidateVars, election
  <2>1. CASE Tick \/ Isolate \/ Heal \/ Follow \/ HearBeat \/ DropVote
    BY <2>1 DEF Tick, Isolate, Heal, Follow, HearBeat, DropVote
  <2>2. CASE Lead \/ Serve
    <3>1. net' \subseteq net \cup {LeaderBeat, CandidateBeat}
      BY <2>2, SendAdds, DistinctDatagrams DEF Lead, Serve, IInv
    <3> QED
      BY <2>2, <3>1, DistinctDatagrams DEF Lead, Serve
  <2>3. CASE Seek
    BY <2>3, TwoHosts, DistinctDatagrams DEF Seek, Send
  <2>4. CASE Poll
    <3>1. net' \subseteq net /\ AfterPoll(votes) /\ UNCHANGED voted
      BY <2>4 DEF Poll
    <3>2. ~ Certify(Hosts, votes)
      BY NeedsVoter DEF IInv, Elected
    <3> QED
      BY <2>4, <3>1, <3>2 DEF AfterPoll, Poll
  <2>5. CASE Retry
    BY <2>5 DEF Retry
  <2>6. CASE Voter
    BY <2>6, DistinctDatagrams DEF Voter, Grants
  <2> QED
    BY <2>1, <2>2, <2>3, <2>4, <2>5, <2>6 DEF Next
<1>2. IInv /\ [Next]_vars => [Doomed => Doomed']_vars
  BY <1>1
<1> QED
  BY <1>2, Inductive, PTL DEF Spec, MissedGrantIsFinal

-----------------------------------------------------------------------------
\* Every step of the harness is a tick, a grant or a stutter of Authority.
LEMMA AuthorityStep ==
  IInv /\ IInv' /\ [Next]_vars => [A!Next]_<<now, Granted>>
<1> SUFFICES ASSUME IInv, IInv', [Next]_vars, ~ UNCHANGED <<now, Granted>>
             PROVE  A!Next
  OBVIOUS
<1> USE TimeAssumption
<1>1. CASE Tick
  <2>1. Granted' = Granted
    BY <1>1 DEF Tick, Granted, CandidateServes, candidateVars, authority
  <2> QED
    BY <1>1, <2>1 DEF Tick, A!Next, A!Tick
<1>2. CASE now' = now /\ pc' = "serve" /\ pc # "serve" /\ granted' = now
  <2> DEFINE lease == [epoch |-> 1, granted_at |-> now, expires_after |-> now + TTL]
  <2>1. lease \in A!Lease
    BY DEF A!Lease, IInv, TypeOK
  <2>2. /\ Granted = {[epoch |-> 0, granted_at |-> 0, expires_after |-> Expiry]}
        /\ Granted' = Granted \cup {lease}
    BY <1>2 DEF Granted, CandidateServes
  <2>3. now > Expiry
    BY <1>2 DEF IInv, CandidateClock, CandidateServes
  <2>4. A!Grant(lease)
    BY <1>2, <2>2, <2>3 DEF A!Grant, A!Valid, IInv, TypeOK
  <2> QED
    BY <2>1, <2>4 DEF A!Next
<1>3. CASE UNCHANGED <<now, pc, granted>>
  BY <1>3 DEF Granted, CandidateServes
<1>4. CASE now' = now /\ pc # "serve" /\ pc' # "serve"
  BY <1>4 DEF Granted, CandidateServes
<1>5. ASSUME Mint
      PROVE  pc' # "serve" \/ granted' = now
  BY <1>5 DEF Mint
<1>6. CASE Poll \/ Retry
  BY <1>2, <1>4, <1>5, <1>6 DEF Poll, Retry, AfterPoll
<1>7. CASE Isolate \/ Heal \/ Lead \/ Follow \/ HearBeat \/ DropVote \/ Serve \/ Voter
           \/ UNCHANGED vars
  BY <1>3, <1>7
  DEF Isolate, Heal, Lead, Follow, HearBeat, DropVote, Serve, Voter, vars,
      candidateVars, authority
<1>8. CASE Seek
  BY <1>4, <1>8 DEF Seek
<1> QED
  BY <1>1, <1>6, <1>7, <1>8 DEF Next

\* reconfigure (failover.rs:150-160): in this harness authority is granted for
\* disjoint intervals, as Authority demands.
THEOREM ImplementsAuthority == Spec => AuthorityIsDisjoint
<1>1. Init => A!Init
  BY TimeAssumption DEF Init, A!Init, Granted, CandidateServes
<1>2. Spec => []IInv
  BY Inductive
<1> QED
  BY <1>1, <1>2, AuthorityStep, PTL DEF Spec, AuthorityIsDisjoint, A!Spec

=============================================================================
