------------------------------ MODULE WireSim ------------------------------
(***************************************************************************)
(* Lease-guarded failover over a network: tests/wire_sim.rs driving        *)
(* failover.rs (surrender, reconfigure) and membership.rs (certify).       *)
(*                                                                         *)
(* Three hosts exchange datagrams.  The leader serves epoch 0 under one    *)
(* lease; the candidate, after SILENCE ticks without a heartbeat, asks the *)
(* voter for epoch 1, and mints authority through reconfigure; the driver  *)
(* isolates the leader and later heals the network.                        *)
(*                                                                         *)
(* A step is what a host does between two awaits, so no other host acts in *)
(* the middle of one.  Clocks are whole ticks: several steps of several    *)
(* hosts fall into one tick, in any order.                                 *)
(***************************************************************************)
EXTENDS Quorums

CONSTANTS
  TTL,        \* the lease of a leader, in ticks
  SILENCE,    \* ticks without a heartbeat before the candidate acts
  LEADER, CANDIDATE, VOTER,
  MaxTime     \* bound of the runs: time stops here

ASSUME TimeAssumption ==
  /\ TTL \in Nat
  /\ SILENCE \in Nat \ {0}
  /\ MaxTime \in Nat

ASSUME HostAssumption ==
  Cardinality({LEADER, CANDIDATE, VOTER}) = 3

VARIABLES
  now,        \* tick()
  lossy,      \* whether the network loses datagrams and delays them past timeouts
  isolated,   \* "linked", "cut" or "healed": the driver's script
  net,        \* the datagrams in flight
  token,      \* leader: whether it holds its Leased<0>
  due,        \* leader: when its sleep ends
  learned,    \* leader: the flag of that name
  pc,         \* candidate: what it waits in
  heard,      \* candidate: last_heard, Never for None
  polls,      \* candidate: the turns of the polling loop so far
  votes,      \* candidate: the set of that name
  wake,       \* candidate: when its sleep ends
  granted,    \* candidate: when its lease was granted
  refused,    \* candidate: whether reconfigure ever refused it
  voted       \* voter: whether its set holds epoch 1

network       == <<isolated, lossy>>
leaderVars    == <<token, due, learned>>
election      == <<heard, polls, votes>>
authority     == <<wake, granted, refused>>
candidateVars == <<pc, election, authority>>
vars          == <<now, network, net, leaderVars, candidateVars, voted>>

Hosts == {LEADER, CANDIDATE, VOTER}

\* promote() lets every frame these hosts build through.  Only the epoch-0
\* leader heartbeats the candidate, so every heartbeat it hears carries epoch 0
\* and the lease (0, TTL), and the epoch it seeks is always 1.  Heartbeats to
\* the voter, which ignores them, are left out.
LeaderBeat    == [kind |-> "heartbeat", to |-> CANDIDATE]
CandidateBeat == [kind |-> "heartbeat", to |-> LEADER]
VoteReq       == [kind |-> "voteReq", to |-> VOTER]
Vote          == [kind |-> "vote", to |-> CANDIDATE]
Datagrams     == {LeaderBeat, CandidateBeat, VoteReq, Vote}

Never  == MaxTime + 1     \* heard: None
Expiry == TTL             \* Lease::new(0, TTL).expires_after

TypeOK ==
  /\ now \in 0 .. MaxTime
  /\ lossy \in BOOLEAN
  /\ isolated \in {"linked", "cut", "healed"}
  /\ net \in SUBSET Datagrams
  /\ token \in BOOLEAN /\ due \in Nat /\ learned \in BOOLEAN
  /\ pc \in {"listen", "poll", "sleep", "serve"}
  /\ heard \in 0 .. Never /\ polls \in 0 .. 4 /\ votes \in SUBSET Hosts
  /\ wake \in Nat /\ granted \in Nat /\ refused \in BOOLEAN
  /\ voted \in BOOLEAN

Init ==
  /\ now = 0
  /\ lossy \in BOOLEAN
  /\ isolated = "linked"
  /\ net = {}
  /\ token = TRUE /\ due = 0 /\ learned = FALSE
  /\ pc = "listen" /\ heard = Never /\ polls = 0 /\ votes = {}
  /\ wake = 0 /\ granted = 0 /\ refused = FALSE
  /\ voted = FALSE

-----------------------------------------------------------------------------
\* send_to: a datagram to or from an isolated leader is dropped; any other may
\* be lost when the network is lossy.
Send(d) ==
  \/ /\ ~ (isolated = "cut" /\ d \in {LeaderBeat, CandidateBeat})
     /\ net' = net \cup {d}
  \/ /\ lossy \/ (isolated = "cut" /\ d \in {LeaderBeat, CandidateBeat})
     /\ net' = net

\* The datagrams whose receiver is waiting in recv_from.
Awaited ==
  {d \in net :
     \/ d.to = VOTER
     \/ d.to = CANDIDATE /\ pc \in {"listen", "poll"}
     \/ d.to = LEADER /\ ~ token}

(* Virtual time.  The leader's sleep ends within the tick it is due.       *)
Tick ==
  /\ now < MaxTime
  /\ token => now < due
  /\ ~ lossy => Awaited = {}
  /\ now' = now + 1
  /\ UNCHANGED <<network, net, leaderVars, candidateVars, voted>>

(* The driver.                                                             *)
Isolate ==
  /\ isolated = "linked"
  /\ isolated' = "cut"
  /\ UNCHANGED <<now, lossy, net, leaderVars, candidateVars, voted>>

Heal ==
  /\ isolated = "cut"
  /\ isolated' = "healed"
  /\ UNCHANGED <<now, lossy, net, leaderVars, candidateVars, voted>>

-----------------------------------------------------------------------------
(* leader(): one turn of the loop with the token in hand.                  *)

\* Leased::surrender returns Ok: the lease is no longer valid.
Surrenders == now > Expiry

Lead ==
  /\ token
  /\ now >= due
  /\ IF Surrenders
       THEN token' = FALSE /\ UNCHANGED <<due, net>>
       ELSE due' = now + 1 /\ UNCHANGED token /\ Send(LeaderBeat)
  /\ UNCHANGED <<now, network, learned, candidateVars, voted>>

(* leader(): without the token it listens, and learns who serves.          *)
Follow ==
  /\ ~ token
  /\ CandidateBeat \in net
  /\ net' = net \ {CandidateBeat}
  /\ learned' = TRUE
  /\ UNCHANGED <<now, network, token, due, candidateVars, voted>>

-----------------------------------------------------------------------------
(* candidate(): one turn of the listening loop.                            *)

HearBeat ==
  /\ pc = "listen"
  /\ LeaderBeat \in net
  /\ net' = net \ {LeaderBeat}
  /\ heard' = now
  /\ UNCHANGED <<now, network, leaderVars, pc, polls, votes, authority, voted>>

\* timeout(.., recv_from) may expire at any moment, for it is shorter than a
\* tick; but never ahead of a datagram on its way when it is not lossy.
TimesOut == ~ lossy => net \cap {LeaderBeat, VoteReq, Vote} = {}

\* The silence is measured at the end of a turn.
Silent == heard # Never /\ now - heard >= SILENCE

\* A vote that arrives while the candidate listens is dropped.
DropVote ==
  /\ pc = "listen"
  /\ ~ Silent
  /\ Vote \in net
  /\ net' = net \ {Vote}
  /\ UNCHANGED <<now, network, leaderVars, candidateVars, voted>>

\* elect_and_serve::<1> up to its first await.
Seek ==
  /\ pc = "listen"
  /\ Silent
  /\ pc' = "poll" /\ polls' = 0 /\ votes' = {CANDIDATE}
  /\ \/ TimesOut /\ Send(VoteReq)
     \/ Vote \in net /\ net' = (net \ {Vote}) \cup {VoteReq}
     \/ Vote \in net /\ lossy /\ net' = net \ {Vote}
  /\ UNCHANGED <<now, network, leaderVars, heard, authority, voted>>

-----------------------------------------------------------------------------
(* elect_and_serve::<1>: polling for votes, then minting.                  *)

\* Mutant: the expiry is taken for exclusive.
ReconfiguresEarly == now >= Expiry

\* failover::reconfigure returns Ok.
Reconfigures == now > Expiry

\* Mutant: the candidate sleeps to the expiry, with a tick of slack less.
MintWithLessSlack ==
  IF Reconfigures
    THEN pc' = "serve" /\ granted' = now /\ UNCHANGED <<wake, refused>>
    ELSE pc' = "sleep" /\ wake' = Expiry + 1 /\ refused' = TRUE /\ UNCHANGED granted

\* The minting loop up to its next await.
Mint ==
  IF Reconfigures
    THEN pc' = "serve" /\ granted' = now /\ UNCHANGED <<wake, refused>>
    ELSE pc' = "sleep" /\ wake' = Expiry + 2 /\ refused' = TRUE /\ UNCHANGED granted

\* What follows a poll: another one, or the close of the election and certify.
AfterPoll(voters) ==
  /\ polls' = polls + 1
  /\ votes' = voters
  /\ IF polls' < 4 /\ Cardinality(voters) < Threshold(Hosts)
       THEN UNCHANGED <<pc, authority>>
     ELSE IF Certify(Hosts, voters)
       THEN Mint
       ELSE pc' = "listen" /\ UNCHANGED authority

\* One poll: a vote counts, anything else that arrives only uses the poll up.
Poll ==
  /\ pc = "poll"
  /\ \/ /\ Vote \in net
        /\ net' = net \ {Vote}
        /\ AfterPoll(votes \cup {VOTER})
     \/ /\ LeaderBeat \in net
        /\ net' = net \ {LeaderBeat}
        /\ AfterPoll(votes)
     \/ /\ TimesOut
        /\ UNCHANGED net
        /\ AfterPoll(votes)
  /\ UNCHANGED <<now, network, leaderVars, heard, voted>>

\* The sleep after a refusal ends: reconfigure is tried again.
Retry ==
  /\ pc = "sleep"
  /\ now >= wake
  /\ Mint
  /\ UNCHANGED <<now, network, net, leaderVars, election, voted>>

\* The epoch-1 leader's heartbeats, which never stop; the second between two of
\* them is left out.
Serve ==
  /\ pc = "serve"
  /\ Send(CandidateBeat)
  /\ UNCHANGED <<now, network, leaderVars, candidateVars, voted>>

-----------------------------------------------------------------------------
(* voter(): one vote for an epoch, sent once.                              *)

\* Mutant: the voter answers every request.
GrantsAgain == TRUE

\* voted.insert(epoch) returns true.
Grants == ~ voted

Voter ==
  /\ VoteReq \in net
  /\ voted' = TRUE
  /\ \/ Grants /\ net' = (net \ {VoteReq}) \cup {Vote}
     \/ Grants /\ lossy /\ net' = net \ {VoteReq}
     \/ ~ Grants /\ net' = net \ {VoteReq}
  /\ UNCHANGED <<now, network, leaderVars, candidateVars>>

Next ==
  \/ Tick \/ Isolate \/ Heal
  \/ Lead \/ Follow
  \/ HearBeat \/ DropVote \/ Seek \/ Poll \/ Retry \/ Serve
  \/ Voter

Spec == Init /\ [][Next]_vars

\* Every host is scheduled again after each await, virtual time goes on, and the
\* driver heals what it cut.
FairSpec ==
  /\ Spec
  /\ WF_vars(Tick) /\ WF_vars(Heal)
  /\ WF_vars(Lead) /\ WF_vars(Follow)
  /\ WF_vars(HearBeat \/ DropVote \/ Seek \/ Poll \/ Retry) /\ WF_vars(Serve)
  /\ WF_vars(Voter)

-----------------------------------------------------------------------------
(* Properties.                                                             *)

LeaderServes    == token
CandidateServes == pc = "serve"

\* The authority granted so far, as module Authority sees it.
Granted ==
  {[epoch |-> 0, granted_at |-> 0, expires_after |-> Expiry]} \cup
  (IF CandidateServes
     THEN {[epoch |-> 1, granted_at |-> granted,
            expires_after |-> granted + TTL]}
     ELSE {})

A == INSTANCE Authority WITH Epochs <- {0, 1}, Times <- 0 .. (MaxTime + TTL),
                            clock <- now, grants <- Granted

\* reconfigure (failover.rs:150-160) makes the harness implement Authority: the
\* candidate's lease starts after the leader's has ended, whatever the network
\* lost or delayed and however the election went.
AuthorityIsDisjoint == A!Spec

\* Two hosts serve at once only in the very tick in which the old lease has just
\* run out, while the leader has yet to notice, and only if the candidate was
\* never refused: the two ticks of slack (wire_sim.rs:283) come after a refusal.
OverlapIsOneTick ==
  LeaderServes /\ CandidateServes => now = Expiry + 1 /\ ~ refused

\* certify (membership.rs:98-105): nobody gets past the election without the
\* voter's grant for this epoch.
GrantBehindService ==
  pc \in {"sleep", "serve"} => voted /\ VOTER \in votes

\* voter() grants an epoch once and never sends the vote again, so a candidate
\* that missed it can never be elected, however often it asks.
Doomed ==
  /\ voted
  /\ Vote \notin net
  /\ pc \in {"listen", "poll"} /\ VOTER \notin votes

MissedGrantIsFinal == [][Doomed => Doomed']_vars

\* candidate(): on a prompt network that loses nothing, a candidate that ever
\* heard the leader ends up serving.
KnownLeadsToService == ~ lossy /\ heard # Never ~> CandidateServes

=============================================================================
