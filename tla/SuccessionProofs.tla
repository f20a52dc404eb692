-------------------------- MODULE SuccessionProofs --------------------------
(* One leader per epoch, one lease after another, for any candidates,      *)
(* voters, configurations and lease length.                                *)
(*                                                                         *)
(* That leases are disjoint is not inductive: a candidate passes to        *)
(* reconfigure a copy of some earlier lease, which says nothing of the     *)
(* leases granted since.  IInv says why none was: the epochs served so far *)
(* have no gap (Line), every lease a candidate holds was some leader's     *)
(* (Heard), every vote it counts was granted to it at the epoch it seeks   *)
(* (Gathered), a voter grants an epoch once (OneGrant), and every reign    *)
(* had a quorum behind it whose holder has stopped seeking (Won).  So a    *)
(* candidate with a quorum for an epoch that someone has served would      *)
(* share a voter with that leader.                                         *)
EXTENDS Succession, FoundationProofs

\* Voter n granted the epoch to c.
GrantedTo(n, epoch, c) ==
  n \in Voters /\ \E b \in voted[n] : b.epoch = epoch /\ b.candidate = c

\* Every vote in a quorum is the candidate's own or was granted to it.
GrantsBehind(quorum, epoch, c) ==
  \A n \in quorum : n = c \/ GrantedTo(n, epoch, c)

Line ==
  \A r \in reigns :
    /\ r.granted_at <= clock
    /\ \A e \in 0 .. r.epoch : \E p \in reigns : p.epoch = e
    /\ \A s \in reigns : r.epoch < s.epoch => ExpiresAfter(r) < s.granted_at

Heard ==
  \A c \in Candidates :
    /\ \A lease \in known[c] : \E r \in reigns : lease = LeaseOf(r)
    /\ \A lease \in prior[c] : \E r \in reigns : lease = LeaseOf(r)

Gathered ==
  \A c \in Candidates : \A lease \in prior[c] :
    /\ prior[c] = {lease}
    /\ lease.epoch < LastEpoch
    /\ c \in votes[c]
    /\ GrantsBehind(votes[c], lease.epoch + 1, c)

OneGrant ==
  \A n \in Voters : \A b, d \in voted[n] : b.epoch = d.epoch => b.candidate = d.candidate

Won ==
  \A r \in reigns : r.epoch > 0 =>
    /\ r.leader \in Candidates
    /\ prior[r.leader] = {}
    /\ r.leader \in r.quorum
    /\ Certify(Config[r.epoch], r.quorum)
    /\ GrantsBehind(r.quorum, r.epoch, r.leader)

IInv ==
  TypeOK /\ Line /\ Heard /\ Gathered /\ OneGrant /\ Won /\ OneReignPerEpoch

-----------------------------------------------------------------------------
\* Every configuration is finite.
LEMMA FiniteConfig ==
  ASSUME NEW epoch \in 1 .. LastEpoch
  PROVE  IsFiniteSet(Config[epoch])
  BY FS_Subset, SuccessionAssumption

\* A new reign adds one epoch to the line, with a lease that starts after all the
\* others have ended.
LEMMA NextInLine ==
  ASSUME IInv, NEW c \in Candidates, NEW lease \in prior[c],
         Lapsed(lease), Certified(c, lease)
  PROVE  /\ lease.epoch \in Epochs /\ lease.epoch + 1 \in 1 .. LastEpoch
         /\ \E p \in reigns : p.epoch = lease.epoch
         /\ \A r \in reigns : r.epoch <= lease.epoch /\ ExpiresAfter(r) < clock
<1>1. /\ lease \in Leases /\ clock \in Nat /\ TTL \in Nat /\ LastEpoch \in Nat
      /\ lease.epoch \in Epochs /\ lease.granted_at \in Nat
  BY SuccessionAssumption DEF IInv, TypeOK, Leases, Epochs
<1>2. lease.epoch + 1 \in 1 .. LastEpoch
  BY <1>1 DEF IInv, Gathered, Epochs
<1>3. PICK p \in reigns : lease = LeaseOf(p)
  BY DEF IInv, Heard
<1>4. \A r \in reigns : r.epoch \in Nat /\ r.granted_at \in Nat /\ r.granted_at <= clock
  BY SuccessionAssumption DEF IInv, TypeOK, Reigns, Epochs, Line
<1>5. p.epoch = lease.epoch /\ p.granted_at = lease.granted_at
  BY <1>3 DEF LeaseOf
<1>6. \A r \in reigns : r.epoch # lease.epoch + 1
  <2>1. SUFFICES ASSUME NEW r \in reigns, r.epoch = lease.epoch + 1 PROVE FALSE
    OBVIOUS
  <2>2. /\ r.leader \in Candidates /\ prior[r.leader] = {}
        /\ Certify(Config[lease.epoch + 1], r.quorum)
        /\ GrantsBehind(r.quorum, lease.epoch + 1, r.leader)
    BY <1>1, <2>1 DEF IInv, Won, Epochs
  <2>3. /\ Certify(Config[lease.epoch + 1], votes[c])
        /\ GrantsBehind(votes[c], lease.epoch + 1, c)
    BY DEF IInv, Gathered, Certified
  <2>4. r.leader = c
    <3>1. IsFiniteSet(Config[lease.epoch + 1])
      BY <1>2, FiniteConfig
    <3>2. votes[c] \cap r.quorum # {}
      BY <2>2, <2>3, <3>1, MajoritiesShare DEF Intersect
    <3>3. PICK n : n \in votes[c] /\ n \in r.quorum
      BY <3>2
    <3>4. /\ n = c \/ GrantedTo(n, lease.epoch + 1, c)
          /\ n = r.leader \/ GrantedTo(n, lease.epoch + 1, r.leader)
      BY <2>2, <2>3, <3>3 DEF GrantsBehind
    <3>5. CASE n \in Voters
      BY <2>2, <3>4, <3>5, SuccessionAssumption DEF IInv, OneGrant, GrantedTo
    <3>6. CASE n \notin Voters
      BY <3>4, <3>6 DEF GrantedTo
    <3> QED
      BY <3>5, <3>6
  <2> QED
    BY <2>2, <2>4
<1>7. ASSUME NEW r \in reigns
      PROVE  r.epoch <= lease.epoch /\ ExpiresAfter(r) < clock
  <2>1. r.epoch <= lease.epoch
    <3>1. SUFFICES ASSUME r.epoch > lease.epoch PROVE FALSE
      BY <1>1, <1>4 DEF Epochs
    <3>2. lease.epoch + 1 \in 0 .. r.epoch
      BY <1>1, <1>4, <3>1 DEF Epochs
    <3> QED
      BY <1>6, <3>2 DEF IInv, Line
  <2>2. CASE r.epoch = lease.epoch
    <3>1. r = p
      BY <1>5, <2>2 DEF IInv, OneReignPerEpoch
    <3> QED
      BY <1>1, <1>4, <1>5, <2>1, <3>1 DEF Lapsed, ExpiresAfter
  <2>3. CASE r.epoch < lease.epoch
    <3>1. ExpiresAfter(r) < p.granted_at
      BY <1>5, <2>3 DEF IInv, Line
    <3>2. r.granted_at \in Nat /\ p.granted_at \in Nat /\ p.granted_at <= clock
      BY <1>4
    <3> QED
      BY <1>1, <2>1, <3>1, <3>2 DEF ExpiresAfter
  <2> QED
    BY <1>1, <1>4, <2>1, <2>2, <2>3 DEF Epochs
<1> QED
  BY <1>1, <1>2, <1>5, <1>7

-----------------------------------------------------------------------------
LEMMA InitInv == Init => IInv
<1> SUFFICES ASSUME Init PROVE IInv
  OBVIOUS
<1> DEFINE first == [epoch |-> 0, granted_at |-> 0, leader |-> Founder, quorum |-> {}]
<1>1. reigns = {first} /\ clock = 0
  BY DEF Init
<1>2. first \in Reigns
  BY SuccessionAssumption DEF Reigns, Epochs, Nodes
<1>3. TypeOK
  BY <1>1, <1>2, SuccessionAssumption DEF Init, TypeOK
<1>4. Line
  BY <1>1 DEF Line
<1>5. Heard /\ Gathered /\ OneGrant
  BY DEF Init, Heard, Gathered, OneGrant
<1>6. Won /\ OneReignPerEpoch
  BY <1>1 DEF Won, OneReignPerEpoch
<1> QED
  BY <1>3, <1>4, <1>5, <1>6 DEF IInv

LEMMA TickInv == IInv /\ Tick => IInv'
<1> SUFFICES ASSUME IInv, Tick PROVE IInv'
  OBVIOUS
<1>1. /\ clock' = clock + 1 /\ clock < MaxTime
      /\ UNCHANGED <<reigns, known, prior, votes, asked, voted>>
  BY DEF Tick
<1>2. TypeOK'
  BY <1>1, SuccessionAssumption DEF IInv, TypeOK
<1>3. Line'
  <2>1. \A r \in reigns : r.granted_at \in Nat /\ r.granted_at <= clock
    BY SuccessionAssumption DEF IInv, TypeOK, Reigns, Line
  <2>2. \A r \in reigns : r.granted_at <= clock'
    BY <1>1, <2>1 DEF IInv, TypeOK
  <2> QED
    BY <1>1, <2>2 DEF IInv, Line, ExpiresAfter
<1>4. Heard' /\ Gathered' /\ OneGrant' /\ Won' /\ OneReignPerEpoch'
  BY <1>1 DEF IInv, Heard, LeaseOf, Gathered, OneGrant, Won, OneReignPerEpoch, GrantsBehind, GrantedTo
<1> QED
  BY <1>2, <1>3, <1>4 DEF IInv

LEMMA HearInv ==
  ASSUME IInv, NEW c \in Candidates, Hear(c)
  PROVE  IInv'
<1>1. PICK r \in reigns : known' = [known EXCEPT ![c] = {LeaseOf(r)}]
  BY DEF Hear
<1>2. UNCHANGED <<clock, reigns, prior, votes, asked, voted>>
  BY DEF Hear
<1>3. LeaseOf(r) \in Leases
  BY DEF IInv, TypeOK, Reigns, Leases, LeaseOf
<1>4. TypeOK'
  BY <1>1, <1>2, <1>3 DEF IInv, TypeOK
<1>5. Heard'
  BY <1>1, <1>2 DEF IInv, TypeOK, Heard, LeaseOf
<1>6. Line' /\ Gathered' /\ OneGrant' /\ Won' /\ OneReignPerEpoch'
  BY <1>2 DEF IInv, Line, ExpiresAfter, Gathered, OneGrant, Won, OneReignPerEpoch, GrantsBehind, GrantedTo
<1> QED
  BY <1>4, <1>5, <1>6 DEF IInv

LEMMA SeekInv ==
  ASSUME IInv, NEW c \in Candidates, Seek(c)
  PROVE  IInv'
<1>1. PICK lease \in known[c] :
        /\ lease.epoch < LastEpoch
        /\ prior' = [prior EXCEPT ![c] = {lease}]
        /\ asked' = asked \cup {[epoch |-> lease.epoch + 1, candidate |-> c]}
  BY DEF Seek, HasSuccessor
<1>2. /\ votes' = [votes EXCEPT ![c] = {c}]
      /\ UNCHANGED <<clock, reigns, known, voted>>
  BY DEF Seek
<1>3. lease \in Leases /\ lease.epoch \in Epochs
  BY DEF IInv, TypeOK, Leases
<1>4. [epoch |-> lease.epoch + 1, candidate |-> c] \in Ballots
  BY <1>1, <1>3, SuccessionAssumption DEF Ballots, Epochs
<1>5. TypeOK'
  BY <1>1, <1>2, <1>3, <1>4 DEF IInv, TypeOK, Nodes
<1>6. Heard'
  BY <1>1, <1>2 DEF IInv, TypeOK, Heard, LeaseOf
<1>7. Gathered'
  BY <1>1, <1>2 DEF IInv, TypeOK, Gathered, GrantsBehind, GrantedTo
<1>8. Won'
  <2>1. \A r \in reigns : r.leader # c
    BY DEF Seek, Listens, Serves
  <2> QED
    BY <1>1, <1>2, <2>1 DEF IInv, TypeOK, Won, GrantsBehind, GrantedTo
<1>9. Line' /\ OneGrant' /\ OneReignPerEpoch'
  BY <1>2 DEF IInv, Line, ExpiresAfter, OneGrant, OneReignPerEpoch
<1> QED
  BY <1>5, <1>6, <1>7, <1>8, <1>9 DEF IInv

LEMMA GrantInv ==
  ASSUME IInv, NEW n \in Voters, Grant(n)
  PROVE  IInv'
<1>1. PICK request \in asked :
        /\ \A b \in voted[n] : b.epoch # request.epoch
        /\ voted' = [voted EXCEPT ![n] = @ \cup {request}]
  BY DEF Grant, MayGrant
<1>2. UNCHANGED <<clock, reigns, known, prior, votes, asked>>
  BY DEF Grant
<1>3. TypeOK'
  BY <1>1, <1>2 DEF IInv, TypeOK
<1>4. OneGrant'
  BY <1>1, <1>2 DEF IInv, TypeOK, OneGrant
<1>5. \A m, e, c : GrantedTo(m, e, c) => GrantedTo(m, e, c)'
  BY <1>1 DEF GrantsBehind, GrantedTo, IInv, TypeOK
<1>6. Gathered' /\ Won'
  BY <1>2, <1>5 DEF IInv, Gathered, Won, GrantsBehind
<1>7. Line' /\ Heard' /\ OneReignPerEpoch'
  BY <1>2 DEF IInv, Line, ExpiresAfter, Heard, LeaseOf, OneReignPerEpoch
<1> QED
  BY <1>3, <1>4, <1>6, <1>7 DEF IInv

LEMMA CollectInv ==
  ASSUME IInv, NEW c \in Candidates, Collect(c)
  PROVE  IInv'
<1>1. PICK lease \in prior[c], n \in Voters :
        /\ \E ballot \in voted[n] : Counts(ballot, c, lease)
        /\ votes' = [votes EXCEPT ![c] = @ \cup {n}]
  BY DEF Collect
<1>2. UNCHANGED <<clock, reigns, known, prior, asked, voted>>
  BY DEF Collect
<1>3. GrantedTo(n, lease.epoch + 1, c)
  BY <1>1 DEF GrantsBehind, GrantedTo, Counts
<1>4. TypeOK'
  BY <1>1, <1>2 DEF IInv, TypeOK, Nodes
<1>5. Gathered'
  BY <1>1, <1>2, <1>3 DEF IInv, TypeOK, Gathered, GrantsBehind, GrantedTo
<1>6. Line' /\ Heard' /\ OneGrant' /\ Won' /\ OneReignPerEpoch'
  BY <1>2 DEF IInv, Line, ExpiresAfter, Heard, LeaseOf, OneGrant, Won,
              OneReignPerEpoch, GrantsBehind, GrantedTo
<1> QED
  BY <1>4, <1>5, <1>6 DEF IInv

LEMMA GiveUpInv ==
  ASSUME IInv, NEW c \in Candidates, GiveUp(c)
  PROVE  IInv'
<1>1. /\ prior' = [prior EXCEPT ![c] = {}]
      /\ UNCHANGED <<clock, reigns, known, votes, asked, voted>>
  BY DEF GiveUp
<1>2. TypeOK'
  BY <1>1 DEF IInv, TypeOK
<1>3. Heard' /\ Gathered' /\ Won'
  BY <1>1 DEF IInv, TypeOK, Heard, LeaseOf, Gathered, Won, GrantsBehind, GrantedTo
<1>4. Line' /\ OneGrant' /\ OneReignPerEpoch'
  BY <1>1 DEF IInv, Line, ExpiresAfter, OneGrant, OneReignPerEpoch
<1> QED
  BY <1>2, <1>3, <1>4 DEF IInv

LEMMA ReconfigureInv ==
  ASSUME IInv, NEW c \in Candidates, Reconfigure(c)
  PROVE  IInv'
<1>1. PICK lease \in prior[c] :
        /\ Lapsed(lease) /\ Certified(c, lease)
        /\ reigns' = reigns \cup
             {[epoch |-> lease.epoch + 1, granted_at |-> clock,
               leader |-> c, quorum |-> votes[c]]}
  BY DEF Reconfigure
<1>2. /\ prior' = [prior EXCEPT ![c] = {}]
      /\ UNCHANGED <<clock, known, votes, asked, voted>>
  BY DEF Reconfigure
<1> DEFINE new == [epoch |-> lease.epoch + 1, granted_at |-> clock,
                   leader |-> c, quorum |-> votes[c]]
<1>3. /\ lease.epoch \in Epochs /\ lease.epoch + 1 \in 1 .. LastEpoch
      /\ \E p \in reigns : p.epoch = lease.epoch
      /\ \A r \in reigns : r.epoch <= lease.epoch /\ ExpiresAfter(r) < clock
  BY <1>1, NextInLine
<1>4. /\ new.epoch = lease.epoch + 1 /\ new.granted_at = clock
      /\ new.leader = c /\ new.quorum = votes[c]
      /\ reigns' = reigns \cup {new}
  BY <1>1
<1>5. clock \in 0 .. MaxTime /\ clock \in Nat /\ votes[c] \in SUBSET Nodes /\ c \in Nodes
  BY SuccessionAssumption DEF IInv, TypeOK, Nodes
<1>6. new \in Reigns
  BY <1>3, <1>5, SuccessionAssumption DEF Reigns, Epochs
<1>7. \A r \in reigns : r.epoch \in Nat /\ r.granted_at \in Nat
  BY SuccessionAssumption DEF IInv, TypeOK, Reigns, Epochs
<1>8. lease.epoch \in Nat /\ new.epoch \in Nat
  BY <1>3, <1>4, SuccessionAssumption DEF Epochs
<1> HIDE DEF new
<1>9. TypeOK'
  BY <1>2, <1>4, <1>6 DEF IInv, TypeOK
<1>10. Line'
  <2>1. \A r \in reigns' : r.granted_at <= clock'
    BY <1>2, <1>4, <1>5, <1>7 DEF IInv, Line
  <2>2. ASSUME NEW r \in reigns', NEW e \in 0 .. r.epoch
        PROVE  \E p \in reigns' : p.epoch = e
    <3>1. CASE r \in reigns
      BY <1>4, <3>1 DEF IInv, Line
    <3>2. CASE r = new
      <4>1. e \in 0 .. lease.epoch \/ e = new.epoch
        BY <1>4, <1>8, <3>2
      <4>2. PICK p \in reigns : p.epoch = lease.epoch
        BY <1>3
      <4>3. \A i \in 0 .. p.epoch : \E s \in reigns : s.epoch = i
        BY DEF IInv, Line
      <4> QED
        BY <1>4, <4>1, <4>2, <4>3
    <3> QED
      BY <1>4, <3>1, <3>2
  <2>3. ASSUME NEW r \in reigns', NEW s \in reigns', r.epoch < s.epoch
        PROVE  ExpiresAfter(r) < s.granted_at
    <3>1. CASE r \in reigns /\ s \in reigns
      BY <2>3, <3>1 DEF IInv, Line
    <3>2. CASE r \in reigns /\ s = new
      BY <1>3, <1>4, <3>2
    <3>3. CASE r = new /\ s \in reigns
      BY <1>3, <1>4, <1>7, <1>8, <2>3, <3>3
    <3>4. CASE r = new /\ s = new
      BY <1>8, <2>3, <3>4
    <3> QED
      BY <1>4, <3>1, <3>2, <3>3, <3>4
  <2> QED
    BY <2>1, <2>2, <2>3 DEF Line, ExpiresAfter
<1>11. Heard'
  BY <1>2, <1>4 DEF IInv, TypeOK, Heard, LeaseOf
<1>12. Gathered'
  BY <1>2 DEF IInv, TypeOK, Gathered, GrantsBehind, GrantedTo
<1>13. Won'
  <2>1. /\ c \in votes[c] /\ Certify(Config[new.epoch], votes[c])
        /\ GrantsBehind(votes[c], new.epoch, c)
    BY <1>1, <1>4 DEF IInv, Gathered, Certified
  <2>2. prior'[c] = {} /\ \A d \in Candidates : prior[d] = {} => prior'[d] = {}
    BY <1>2 DEF IInv, TypeOK
  <2>3. ASSUME NEW r \in reigns', r.epoch > 0
        PROVE  /\ r.leader \in Candidates
               /\ prior'[r.leader] = {}
               /\ r.leader \in r.quorum
               /\ Certify(Config[r.epoch], r.quorum)
               /\ GrantsBehind(r.quorum, r.epoch, r.leader)
    BY <1>4, <2>1, <2>2, <2>3 DEF IInv, Won
  <2> QED
    BY <1>2, <2>3 DEF Won, GrantsBehind, GrantedTo
<1>14. OneReignPerEpoch'
  <2>1. \A r \in reigns : r.epoch # new.epoch
    BY <1>3, <1>4, <1>7, <1>8
  <2> QED
    BY <1>4, <2>1 DEF IInv, OneReignPerEpoch
<1>15. OneGrant'
  BY <1>2 DEF IInv, OneGrant
<1> QED
  BY <1>9, <1>10, <1>11, <1>12, <1>13, <1>14, <1>15 DEF IInv

LEMMA NextInv == IInv /\ [Next]_vars => IInv'
<1> SUFFICES ASSUME IInv, [Next]_vars PROVE IInv'
  OBVIOUS
<1>1. CASE UNCHANGED vars
  BY <1>1 DEF vars, IInv, TypeOK, Line, ExpiresAfter, Heard, LeaseOf, Gathered,
              OneGrant, Won, OneReignPerEpoch, GrantsBehind, GrantedTo
<1> QED
  BY <1>1, TickInv, HearInv, SeekInv, GrantInv, CollectInv, GiveUpInv, ReconfigureInv
  DEF Next

LEMMA Inductive == Spec => []IInv
  BY InitInv, NextInv, PTL DEF Spec

-----------------------------------------------------------------------------
\* Every lease, ballot and reign stays within the compiled epochs.
THEOREM TypeCorrect == Spec => []TypeOK
<1>1. IInv => TypeOK
  BY DEF IInv
<1> QED
  BY Inductive, <1>1, PTL

\* reconfigure (reconfig.rs:92-103) behind voters that grant an epoch once: for any
\* candidates and configurations, an epoch has one leader and one lease, ever.
THEOREM EpochHasOneLeader == Spec => []OneReignPerEpoch
<1>1. IInv => OneReignPerEpoch
  BY DEF IInv
<1> QED
  BY Inductive, <1>1, PTL

\* voter() (tests/wire_sim.rs:307-321): once the votes of an epoch are split, nobody
\* serves that epoch or any later one.
THEOREM SplitIsFinal == Spec => []SplitEndsTheLine
<1>1. ASSUME IInv PROVE SplitEndsTheLine
  <2>1. SUFFICES ASSUME NEW e \in 1 .. LastEpoch, Split(e),
                        NEW r \in reigns, ~ (r.epoch < e)
                 PROVE  FALSE
    BY DEF SplitEndsTheLine
  <2>2. r.epoch \in Nat /\ e \in Nat
    BY <1>1, SuccessionAssumption DEF IInv, TypeOK, Reigns, Epochs
  <2>3. e \in 0 .. r.epoch
    BY <2>1, <2>2
  <2>4. PICK p \in reigns : p.epoch = e
    BY <1>1, <2>3 DEF IInv, Line
  <2>5. /\ p.leader \in Candidates /\ p.leader \in p.quorum
        /\ Certify(Config[e], p.quorum)
        /\ GrantsBehind(p.quorum, e, p.leader)
    BY <1>1, <2>2, <2>4 DEF IInv, Won
  <2> DEFINE q == p.quorum \ {p.leader}
  <2>6. q \cup {p.leader} = p.quorum
    BY <2>5
  <2>7. q \in SUBSET Winnable(p.leader, e)
    BY <1>1, <2>5 DEF Winnable, GrantsBehind, GrantedTo, IInv, OneGrant
  <2> HIDE DEF q
  <2> QED
    BY <2>1, <2>5, <2>6, <2>7 DEF Split
<1> QED
  BY Inductive, <1>1, PTL

-----------------------------------------------------------------------------
\* Every granted lease is a lease of module Authority.
LEMMA GrantedLeases ==
  ASSUME TypeOK, NEW r \in reigns
  PROVE  [epoch |-> r.epoch, granted_at |-> r.granted_at,
          expires_after |-> ExpiresAfter(r)] \in A!Lease
<1>1. /\ r.epoch \in Epochs /\ r.granted_at \in 0 .. MaxTime
      /\ TTL \in Nat /\ MaxTime \in Nat
  BY SuccessionAssumption DEF TypeOK, Reigns
<1>2. r.granted_at \in 0 .. (MaxTime + TTL) /\ ExpiresAfter(r) \in 0 .. (MaxTime + TTL)
  BY <1>1 DEF ExpiresAfter
<1> QED
  BY <1>1, <1>2 DEF A!Lease

LEMMA InitAuthority == Init => A!Init
<1> SUFFICES ASSUME Init PROVE A!Init
  OBVIOUS
<1> DEFINE first == [epoch |-> 0, granted_at |-> 0, leader |-> Founder, quorum |-> {}]
<1>1. reigns = {first} /\ clock = 0
  BY DEF Init
<1>2. TTL \in 0 .. (MaxTime + TTL) /\ 0 + TTL = TTL
  BY SuccessionAssumption
<1>3. Granted = {[epoch |-> 0, granted_at |-> 0, expires_after |-> TTL]}
  BY <1>1, <1>2 DEF Granted, ExpiresAfter
<1> QED
  BY <1>1, <1>2, <1>3 DEF A!Init

LEMMA ReconfigureAuthority ==
  ASSUME IInv, NEW c \in Candidates, Reconfigure(c), IInv'
  PROVE  A!Next
<1>1. PICK lease \in prior[c] :
        /\ Lapsed(lease) /\ Certified(c, lease)
        /\ reigns' = reigns \cup
             {[epoch |-> lease.epoch + 1, granted_at |-> clock,
               leader |-> c, quorum |-> votes[c]]}
        /\ clock' = clock
  BY DEF Reconfigure
<1> DEFINE new == [epoch |-> lease.epoch + 1, granted_at |-> clock,
                   leader |-> c, quorum |-> votes[c]]
           grant(r) == [epoch |-> r.epoch, granted_at |-> r.granted_at,
                        expires_after |-> ExpiresAfter(r)]
<1>2. /\ lease.epoch \in Epochs
      /\ \A r \in reigns : r.epoch <= lease.epoch /\ ExpiresAfter(r) < clock
  BY <1>1, NextInLine
<1>3. reigns' = reigns \cup {new} /\ new.epoch = lease.epoch + 1 /\ new.granted_at = clock
  BY <1>1
<1> HIDE DEF new
<1>4. Granted' = Granted \cup {grant(new)}
  BY <1>3 DEF Granted, ExpiresAfter
<1>5. grant(new) \in A!Lease
  <2>1. new \in Reigns
    BY <1>3 DEF IInv, TypeOK
  <2>2. /\ new.epoch \in Epochs /\ new.granted_at \in 0 .. MaxTime
        /\ TTL \in Nat /\ MaxTime \in Nat
    BY <2>1, SuccessionAssumption DEF Reigns
  <2>3. new.granted_at \in 0 .. (MaxTime + TTL) /\ ExpiresAfter(new) \in 0 .. (MaxTime + TTL)
    BY <2>2 DEF ExpiresAfter
  <2> QED
    BY <2>2, <2>3 DEF A!Lease
<1>6. ASSUME NEW g \in Granted
      PROVE  ~ A!Valid(g, clock) /\ g.epoch < grant(new).epoch
  <2>1. PICK r \in reigns : g = grant(r)
    BY DEF Granted
  <2>2. /\ r.epoch \in Nat /\ ExpiresAfter(r) \in Nat /\ clock \in Nat
        /\ lease.epoch \in Nat
    BY <1>2, SuccessionAssumption DEF IInv, TypeOK, Reigns, Epochs, ExpiresAfter
  <2> QED
    BY <1>2, <1>3, <2>1, <2>2 DEF A!Valid
<1>7. A!Grant(grant(new))
  BY <1>1, <1>3, <1>4, <1>6 DEF A!Grant
<1> QED
  BY <1>5, <1>7 DEF A!Next

LEMMA StepAuthority == IInv /\ IInv' /\ [Next]_vars => [A!Next]_<<clock, Granted>>
<1> SUFFICES ASSUME IInv, IInv', [Next]_vars PROVE [A!Next]_<<clock, Granted>>
  OBVIOUS
<1>1. CASE Tick
  BY <1>1 DEF Tick, Granted, ExpiresAfter, A!Next, A!Tick
<1>2. CASE \E c \in Candidates : Reconfigure(c)
  BY <1>2, ReconfigureAuthority
<1>3. CASE UNCHANGED <<clock, reigns>>
  BY <1>3 DEF Granted, ExpiresAfter
<1> QED
  BY <1>1, <1>2, <1>3 DEF Next, Hear, Seek, Collect, GiveUp, Grant, vars

\* reconfigure (reconfig.rs:92-103): any number of competing candidates, acting on
\* copies of leases however old, implement Authority: leases are granted in order
\* of epochs and never overlap.
THEOREM ImplementsAuthority == Spec => AuthorityIsDisjoint
  BY Inductive, InitAuthority, StepAuthority, PTL DEF Spec, AuthorityIsDisjoint, A!Spec

=============================================================================
