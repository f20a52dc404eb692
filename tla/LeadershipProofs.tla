-------------------------- MODULE LeadershipProofs --------------------------
(* One leader per term among neighbouring electorates, for any number of   *)
(* nodes, candidates and reconfigurations, and what becomes of the decrees *)
(* of leaders that stepped down.                                           *)
(*                                                                         *)
(* The property is not inductive: it says nothing of the votes behind a    *)
(* certificate.  IInv adds that every recorded vote was cast for that      *)
(* candidate (Recorded), that every certificate is a majority of its       *)
(* electorate whose members all voted for its leader (Earned), and that    *)
(* each electorate follows from the one before (Chained).                  *)
(*                                                                         *)
(* Of Terms the invariant TermsInv says that a reign has a certificate     *)
(* behind it and a decree a reign (Certified), and that whoever commits    *)
(* what was left over is not its author (Foreign).  The rest is            *)
(* OneLeaderNearby: two leaders have no neighbouring electorates.          *)
(*                                                                         *)
(* What leaders write goes to a fenced store: the second half is about     *)
(* ChainStore.                                                             *)
EXTENDS Terms, ChainStore, FoundationProofs

Recorded ==
  \A c \in Candidates : \A n \in ballot[c].voters : voted[n] = c

Earned ==
  \A s \in elected :
    /\ Certify(history[s.at], s.quorum)
    /\ \A n \in s.quorum : voted[n] = s.leader

Chained ==
  \A i \in 1 .. (Len(history) - 1) : Reconfigurable(history[i], history[i + 1])

IInv == TypeOK /\ Recorded /\ Earned /\ Chained

-----------------------------------------------------------------------------
\* The electorates so far stay where they are when another follows.
LEMMA HistoryGrows ==
  ASSUME NEW h \in Seq(SUBSET Nodes), NEW new \in SUBSET Nodes
  PROVE  /\ Append(h, new) \in Seq(SUBSET Nodes)
         /\ Len(Append(h, new)) = Len(h) + 1
         /\ Len(h) \in Nat
         /\ DOMAIN h = 1 .. Len(h)
         /\ DOMAIN Append(h, new) = 1 .. (Len(h) + 1)
         /\ \A i \in 1 .. Len(h) : Append(h, new)[i] = h[i]
         /\ Append(h, new)[Len(h) + 1] = new
  OBVIOUS

\* Certificates of one electorate, or of two that follow one another, share a
\* voter.
LEMMA NeighboursMeet ==
  ASSUME IInv, NEW s \in elected, NEW t \in elected, Adjacent(s.at, t.at)
  PROVE  \E n : n \in s.quorum /\ n \in t.quorum
<1>1. /\ s.at \in 1 .. Len(history) /\ t.at \in 1 .. Len(history)
      /\ Len(history) \in Nat
      /\ Certify(history[s.at], s.quorum) /\ Certify(history[t.at], t.quorum)
  BY DEF IInv, TypeOK, Earned
<1>2. \A i \in 1 .. Len(history) : history[i] \in SUBSET Nodes
  BY DEF IInv, TypeOK
<1>3. \A i \in 1 .. Len(history) : IsFiniteSet(history[i])
  BY <1>2, FS_Subset, ElectionAssumption
<1>4. CASE s.at = t.at
  <2>1. s.quorum \cap t.quorum # {}
    BY <1>1, <1>3, <1>4, MajoritiesShare DEF Intersect
  <2> QED
    BY <2>1
<1>5. CASE t.at = s.at + 1
  <2>1. Reconfigurable(history[s.at], history[t.at])
    BY <1>1, <1>5 DEF IInv, Chained
  <2>2. s.quorum \cap t.quorum # {}
    BY <1>1, <1>3, <2>1, ReconfigurationIntersects
  <2> QED
    BY <2>2
<1>6. CASE s.at = t.at + 1
  <2>1. Reconfigurable(history[t.at], history[s.at])
    BY <1>1, <1>6 DEF IInv, Chained
  <2>2. t.quorum \cap s.quorum # {}
    BY <1>1, <1>3, <2>1, ReconfigurationIntersects
  <2> QED
    BY <2>2
<1> QED
  BY <1>1, <1>4, <1>5, <1>6 DEF Adjacent

-----------------------------------------------------------------------------
LEMMA InitInv == Init => IInv
<1> SUFFICES ASSUME Init PROVE IInv
  OBVIOUS
<1>1. TypeOK
  BY ElectionAssumption DEF Init, TypeOK, Ballots
<1>2. Recorded /\ Earned /\ Chained
  BY DEF Init, Recorded, Earned, Chained
<1> QED
  BY <1>1, <1>2 DEF IInv

LEMMA LastOrBefore ==
  \A n \in Nat : \A i \in 1 .. n : i = n \/ i \in 1 .. (n - 1)
OBVIOUS

LEMMA ReconfigureInv == IInv /\ Reconfigure => IInv'
<1> SUFFICES ASSUME IInv, Reconfigure PROVE IInv'
  OBVIOUS
<1> USE DEF IInv
<1>1. /\ history \in Seq(SUBSET Nodes) /\ history # <<>>
      /\ UNCHANGED <<view, voted, ballot, elected>>
  BY DEF Reconfigure, TypeOK
<1>2. CASE live' = FALSE /\ UNCHANGED history
  BY <1>1, <1>2 DEF TypeOK, Recorded, Earned, Chained
<1>3. ASSUME NEW new \in SUBSET Nodes, history' = Append(history, new),
             Reconfigurable(Current, new), UNCHANGED live
      PROVE  IInv'
  <2>1. /\ history' \in Seq(SUBSET Nodes)
        /\ Len(history) \in Nat /\ Len(history') = Len(history) + 1
        /\ DOMAIN history = 1 .. Len(history)
        /\ DOMAIN history' = 1 .. (Len(history) + 1)
        /\ \A i \in 1 .. Len(history) : history'[i] = history[i]
        /\ history'[Len(history) + 1] = new
    BY <1>1, <1>3, HistoryGrows
  <2>2. Len(history) >= 1
    BY <1>1, EmptySeq
  <2>3. TypeOK'
    BY <1>1, <1>3, <2>1, <2>2 DEF TypeOK
  <2>4. Recorded' /\ Earned'
    BY <1>1, <2>1 DEF Recorded, Earned, TypeOK
  <2>5. Len(history') - 1 = Len(history)
    BY <2>1
  <2>6. ASSUME NEW i \in 1 .. (Len(history') - 1)
        PROVE  Reconfigurable(history'[i], history'[i + 1])
    <3>1. CASE i = Len(history)
      BY <1>3, <2>1, <2>2, <3>1 DEF Current
    <3>2. CASE i \in 1 .. (Len(history) - 1)
      <4>1. i + 1 \in 1 .. Len(history) /\ i \in 1 .. Len(history)
        BY <2>1, <3>2
      <4>2. Reconfigurable(history[i], history[i + 1])
        BY <3>2 DEF Chained
      <4> QED
        BY <2>1, <4>1, <4>2
    <3>3. i \in 1 .. Len(history)
      BY <2>5
    <3>4. i = Len(history) \/ i \in 1 .. (Len(history) - 1)
      BY <2>1, <3>3, LastOrBefore
    <3> QED
      BY <3>1, <3>2, <3>4
  <2> QED
    BY <2>3, <2>4, <2>6 DEF Chained
<1> QED
  BY <1>2, <1>3 DEF Reconfigure, Reconfigurable, Accepts

LEMMA LearnInv ==
  ASSUME IInv, NEW c \in Candidates, Learn(c)
  PROVE  IInv'
<1>1. TypeOK'
  BY DEF Learn, Agreed, IInv, TypeOK
<1>2. Recorded' /\ Earned' /\ Chained'
  BY DEF Learn, IInv, Recorded, Earned, Chained
<1> QED
  BY <1>1, <1>2 DEF IInv

LEMMA CastVoteInv ==
  ASSUME IInv, NEW n \in Nodes, CastVote(n)
  PROVE  IInv'
<1> PICK c \in Candidates : voted' = [voted EXCEPT ![n] = c]
  BY DEF CastVote
<1>1. voted[n] = Nobody /\ UNCHANGED <<history, live, view, ballot, elected>>
  BY DEF CastVote, MayVote
<1>2. TypeOK'
  BY <1>1 DEF IInv, TypeOK
<1>3. Recorded'
  <2>1. \A d \in Candidates : ballot[d].voters \subseteq Nodes
    BY DEF IInv, TypeOK, Ballots
  <2>2. \A d \in Candidates : n \notin ballot[d].voters
    BY <1>1, ElectionAssumption DEF IInv, Recorded
  <2> QED
    BY <1>1, <2>1, <2>2 DEF IInv, TypeOK, Recorded
<1>4. Earned'
  <2>1. \A s \in elected : s.quorum \subseteq Nodes /\ s.leader \in Candidates
    BY DEF IInv, TypeOK, Seats
  <2>2. \A s \in elected : n \notin s.quorum
    BY <1>1, <2>1, ElectionAssumption DEF IInv, Earned
  <2> QED
    BY <1>1, <2>1, <2>2 DEF IInv, TypeOK, Earned
<1>5. Chained'
  BY <1>1 DEF IInv, Chained
<1> QED
  BY <1>2, <1>3, <1>4, <1>5 DEF IInv

LEMMA RecordInv ==
  ASSUME IInv, NEW c \in Candidates, Record(c)
  PROVE  IInv'
<1> PICK n \in Nodes : /\ voted[n] = c
                       /\ ballot' = [ballot EXCEPT ![c].voters = @ \cup {n}]
  BY DEF Record
<1>1. UNCHANGED <<history, live, view, voted, elected>>
  BY DEF Record
<1>2. TypeOK'
  <2>1. /\ ballot \in [Candidates -> Ballots]
        /\ ballot[c].open \in BOOLEAN /\ ballot[c].voters \subseteq Nodes
    BY DEF IInv, TypeOK, Ballots
  <2>2. [ballot[c] EXCEPT !.voters = @ \cup {n}] \in Ballots
    BY <2>1 DEF Ballots
  <2>3. ballot' \in [Candidates -> Ballots]
    BY <2>1, <2>2
  <2> QED
    BY <1>1, <2>3 DEF IInv, TypeOK
<1>3. Recorded'
  BY <1>1 DEF IInv, TypeOK, Recorded, Ballots
<1>4. Earned' /\ Chained'
  BY <1>1 DEF IInv, Earned, Chained
<1> QED
  BY <1>2, <1>3, <1>4 DEF IInv

LEMMA CloseInv ==
  ASSUME IInv, NEW c \in Candidates, Close(c)
  PROVE  IInv'
<1> DEFINE seat == [leader |-> c, at |-> view[c], quorum |-> ballot[c].voters]
<1>1. /\ ballot' = [ballot EXCEPT ![c].open = FALSE]
      /\ UNCHANGED <<history, live, view, voted>>
  BY DEF Close
<1>2. \/ elected' = elected
      \/ elected' = elected \cup {seat} /\ Certify(history[view[c]], ballot[c].voters)
  BY DEF Close
<1>3. /\ history \in Seq(SUBSET Nodes)
      /\ view[c] \in DOMAIN history /\ DOMAIN history = 1 .. Len(history)
      /\ Len(history) \in Nat
      /\ ballot[c].voters \in SUBSET Nodes
  BY DEF IInv, TypeOK, Ballots
<1>4. seat \in Seats /\ seat.at \in DOMAIN history
  BY <1>3 DEF Seats
<1>5. TypeOK'
  BY <1>1, <1>2, <1>4 DEF IInv, TypeOK, Ballots
<1>6. Recorded'
  BY <1>1 DEF IInv, TypeOK, Recorded, Ballots
<1>7. Earned'
  <2>1. \A n \in seat.quorum : voted[n] = seat.leader
    BY DEF IInv, Recorded
  <2> QED
    BY <1>1, <1>2, <2>1 DEF IInv, Earned
<1>8. Chained'
  BY <1>1 DEF IInv, Chained
<1> QED
  BY <1>5, <1>6, <1>7, <1>8 DEF IInv

LEMMA NextInv == IInv /\ [Next]_vars => IInv'
<1> SUFFICES ASSUME IInv, [Next]_vars PROVE IInv'
  OBVIOUS
<1>1. CASE UNCHANGED vars
  BY <1>1 DEF vars, IInv, TypeOK, Recorded, Earned, Chained
<1> QED
  BY <1>1, ReconfigureInv, LearnInv, CastVoteInv, RecordInv, CloseInv DEF Next

LEMMA Inductive == Spec => []IInv
  BY InitInv, NextInv, PTL DEF Spec

\* Two neighbouring certificates have a voter in common, and it voted once.
LEMMA InvLeader == IInv => OneLeaderNearby
<1> SUFFICES ASSUME IInv, NEW s \in elected, NEW t \in elected, Adjacent(s.at, t.at)
             PROVE  s.leader = t.leader
  BY DEF OneLeaderNearby
<1>1. PICK n : n \in s.quorum /\ n \in t.quorum
  BY NeighboursMeet
<1> QED
  BY <1>1 DEF IInv, Earned

-----------------------------------------------------------------------------
\* Every view, ballot and certificate stays within the electorates there are.
THEOREM TypeCorrect == Spec => []TypeOK
<1>1. IInv => TypeOK
  BY DEF IInv
<1> QED
  BY Inductive, <1>1, PTL

\* Elected (election.rs:112-142): for any nodes, candidates and chain of legal
\* reconfigurations, two certificates of one term whose electorates are equal or
\* adjacent name the same leader.
THEOREM AtMostOneLeader == Spec => []OneLeaderNearby
  BY Inductive, InvLeader, PTL

\* Quorum::intersect (membership.rs:126-128): where every electorate wears a label
\* of its own, two certificates with one label share a member.
THEOREM LabelledQuorumsMeet ==
  ASSUME Relabel
  PROVE  Spec => []SameLabelMeets
<1>1. ASSUME IInv PROVE SameLabelMeets
  <2>1. SUFFICES ASSUME NEW s \in elected, NEW t \in elected,
                        Label(s.at) = Label(t.at)
                 PROVE  Intersect(s.quorum, t.quorum)
    BY DEF SameLabelMeets
  <2>2. s.at = t.at /\ s.at \in Nat
    BY <1>1, <2>1 DEF Label, IInv, TypeOK, Seats
  <2>3. PICK n : n \in s.quorum /\ n \in t.quorum
    BY <1>1, <2>2, NeighboursMeet DEF Adjacent
  <2> QED
    BY <2>3 DEF Intersect
<1> QED
  BY Inductive, <1>1, PTL

-----------------------------------------------------------------------------
TermsTypeOK ==
  /\ reign \in [Candidates -> {"none", "reigning", "deposed"}]
  /\ decree \in [Candidates -> {"none", "open", "left", "committed"}]
  /\ committed \subseteq [by : Candidates, under : Candidates, late : BOOLEAN]

Certified ==
  \A c \in Candidates :
    /\ reign[c] # "none" => \E s \in elected : s.leader = c
    /\ decree[c] # "none" => \E s \in elected : s.leader = c
    /\ decree[c] = "open" => reign[c] = "reigning"
    /\ decree[c] = "left" => reign[c] = "deposed"

Foreign ==
  \A d \in committed :
    /\ \E s \in elected : s.leader = d.by
    /\ d.late => d.by # d.under

TermsInv == IInv /\ TermsTypeOK /\ Certified /\ Foreign

\* Certificates are never taken back.
LEMMA ElectedGrows == Next => elected \subseteq elected'
BY DEF Next, Reconfigure, Learn, CastVote, Record, Close

LEMMA TermsInitInv == TermsInit => TermsInv
<1> SUFFICES ASSUME TermsInit PROVE TermsInv
  OBVIOUS
<1>1. IInv
  BY InitInv DEF TermsInit
<1> QED
  BY <1>1 DEF TermsInit, TermsInv, TermsTypeOK, Certified, Foreign

LEMMA TermsNextInv == TermsInv /\ [TermsNext]_<<vars, termVars>> => TermsInv'
<1> SUFFICES ASSUME TermsInv, [TermsNext]_<<vars, termVars>> PROVE TermsInv'
  OBVIOUS
<1> USE DEF TermsInv
<1>1. CASE UNCHANGED <<vars, termVars>>
  BY <1>1, NextInv DEF vars, termVars, TermsTypeOK, Certified, Foreign
<1>2. CASE Next /\ UNCHANGED termVars
  <2>1. IInv'
    BY <1>2, NextInv
  <2>2. (TermsTypeOK /\ Certified /\ Foreign)'
    BY <1>2, ElectedGrows DEF termVars, TermsTypeOK, Certified, Foreign
  <2> QED
    BY <2>1, <2>2
<1>3. ASSUME NEW c \in Candidates, Install(c) PROVE TermsInv'
  <2>1. IInv' /\ UNCHANGED <<elected, decree, committed>>
    BY <1>3, NextInv DEF Install, vars
  <2>2. (TermsTypeOK /\ Certified /\ Foreign)'
    BY <1>3, <2>1 DEF Install, ByCertificate, TermsTypeOK, Certified, Foreign
  <2> QED
    BY <2>1, <2>2
<1>4. ASSUME NEW c \in Candidates, Stamp(c) PROVE TermsInv'
  <2>1. IInv' /\ UNCHANGED <<elected, reign, committed>>
    BY <1>4, NextInv DEF Stamp, vars
  <2>2. (TermsTypeOK /\ Certified /\ Foreign)'
    BY <1>4, <2>1 DEF Stamp, TermsTypeOK, Certified, Foreign
  <2> QED
    BY <2>1, <2>2
<1>5. ASSUME NEW c \in Candidates, SupersededBy(c) PROVE TermsInv'
  <2>1. IInv' /\ UNCHANGED <<elected, committed>>
    BY <1>5, NextInv DEF SupersededBy, vars
  <2>2. (TermsTypeOK /\ Certified /\ Foreign)'
    BY <1>5, <2>1 DEF SupersededBy, TermsTypeOK, Certified, Foreign
  <2> QED
    BY <2>1, <2>2
<1>6. ASSUME NEW c \in Candidates, NEW d \in Candidates, Commit(d, c) PROVE TermsInv'
  <2>1. IInv' /\ UNCHANGED <<elected, reign>>
    BY <1>6, NextInv DEF Commit, vars
  <2> DEFINE done == [by |-> d, under |-> c, late |-> decree[d] = "left"]
  <2>2. /\ committed' = committed \cup {done}
        /\ decree' = [decree EXCEPT ![d] = "committed"]
        /\ reign[c] = "reigning" /\ decree[d] \in {"open", "left"}
    BY <1>6 DEF Commit
  <2>3. TermsTypeOK'
    <3>1. done \in [by : Candidates, under : Candidates, late : BOOLEAN]
      OBVIOUS
    <3> QED
      BY <2>1, <2>2, <3>1 DEF TermsTypeOK
  <2>4. Certified'
    BY <2>1, <2>2 DEF TermsTypeOK, Certified
  <2>5. (\E s \in elected : s.leader = done.by) /\ (done.late => done.by # done.under)
    BY <2>2 DEF Certified
  <2>6. Foreign'
    BY <2>1, <2>2, <2>5 DEF Foreign
  <2> QED
    BY <2>1, <2>3, <2>4, <2>6
<1> QED
  BY <1>1, <1>2, <1>3, <1>4, <1>5, <1>6 DEF TermsNext

\* Reign::install (term.rs:122-127) and Decree::commit (149-156): for any nodes,
\* candidates and chain of legal reconfigurations, what a deposed leader left over is
\* committed by nobody whose electorate is the same or a neighbour.
THEOREM LeftoversAreVoid == TermsSpec => []LeftoversStayUncommitted
<1>1. ASSUME TermsInv PROVE LeftoversStayUncommitted
  <2>1. OneLeaderNearby
    BY <1>1, InvLeader DEF TermsInv
  <2> QED
    BY <1>1, <2>1 DEF TermsInv, Foreign, LeftoversStayUncommitted, OneLeaderNearby
<1>2. TermsSpec => []TermsInv
  BY TermsInitInv, TermsNextInv, PTL DEF TermsSpec
<1> QED
  BY <1>1, <1>2, PTL

-----------------------------------------------------------------------------
(* The fenced store over a chain.  Of the fence FenceInv says that a number *)
(* belongs to one client and that the accepted numbers never go down.  Of   *)
(* the chain ChainInv says that every replica's log is the head's up to its *)
(* own length (LogsAreOneChain), that nothing is committed which the tail   *)
(* has not got (CommittedAtTail), that issue times never go down            *)
(* (StampsInOrder), and that a replica has what was issued up to the time   *)
(* it claims to be as recent as (RecencyIsTrue).                            *)

FenceTypeOK ==
  /\ next \in Nat \ {0}
  /\ tokens \in [Clients -> SUBSET (1 .. next - 1)]
  /\ high_water \in Nat
  /\ landed \in Seq([client : Clients, number : Nat])

\* A number is handed out once, and a write lands under a number its client holds.
TokensAreUnique ==
  /\ \A c, d \in Clients : tokens[c] \cap tokens[d] # {} => c = d
  /\ \A i \in 1 .. Len(landed) : landed[i].number \in tokens[landed[i].client]

\* The accepted numbers never go down.
NumbersInOrder ==
  /\ \A i \in 1 .. Len(landed) : landed[i].number <= high_water
  /\ \A i \in 1 .. Len(landed) : \A k \in i .. Len(landed) : landed[i].number <= landed[k].number

FenceInv == FenceTypeOK /\ TokensAreUnique /\ NumbersInOrder

LEMMA LandedTyped ==
  ASSUME FenceTypeOK
  PROVE  /\ Len(landed) \in Nat /\ DOMAIN landed = 1 .. Len(landed)
         /\ \A i \in 1 .. Len(landed) :
              /\ landed[i] \in [client : Clients, number : Nat]
              /\ landed[i].client \in Clients /\ landed[i].number \in Nat
<1> DEFINE W == [client : Clients, number : Nat]
<1>1. landed \in Seq(W)
  BY DEF FenceTypeOK
<1>2. Len(landed) \in Nat /\ DOMAIN landed = 1 .. Len(landed)
  BY <1>1, LenProperties
<1>3. \A i \in 1 .. Len(landed) : landed[i] \in W
  BY <1>1, ElementOfSeq
<1> QED
  BY <1>2, <1>3

LEMMA FenceInitInv == FenceInit => FenceInv
  BY DEF FenceInit, FenceInv, FenceTypeOK, TokensAreUnique, NumbersInOrder

LEMMA AcquireInv == \A c \in Clients : FenceInv /\ Acquire(c) => FenceInv'
<1> SUFFICES ASSUME NEW c \in Clients, FenceInv, Acquire(c) PROVE FenceInv'
  OBVIOUS
<1> USE DEF FenceInv
<1>1. /\ tokens' = [tokens EXCEPT ![c] = @ \cup {next}]
      /\ next' = next + 1 /\ high_water' = high_water /\ landed' = landed
  BY DEF Acquire, Advance
<1>2. FenceTypeOK'
  <2>1. \A d \in Clients : tokens'[d] \subseteq tokens[d] \cup {next}
    BY <1>1 DEF FenceTypeOK
  <2>2. next \in Nat \ {0} /\ next' \in Nat \ {0} /\ \A d \in Clients : tokens[d] \subseteq 1 .. next - 1
    BY <1>1 DEF FenceTypeOK
  <2>3. tokens' \in [Clients -> SUBSET (1 .. next' - 1)]
    BY <1>1, <2>1, <2>2 DEF FenceTypeOK
  <2> QED
    BY <1>1, <2>2, <2>3 DEF FenceTypeOK
<1>3. TokensAreUnique'
  <2>1. \A d \in Clients : next \notin tokens[d]
    BY DEF FenceTypeOK
  <2>2. \A d \in Clients : tokens'[d] = IF d = c THEN tokens[d] \cup {next} ELSE tokens[d]
    BY <1>1 DEF FenceTypeOK
  <2>3. \A i \in 1 .. Len(landed) : landed[i].client \in Clients
    BY LandedTyped
  <2> QED
    BY <1>1, <2>1, <2>2, <2>3 DEF TokensAreUnique
<1>4. NumbersInOrder'
  BY <1>1 DEF NumbersInOrder
<1> QED
  BY <1>2, <1>3, <1>4

LEMMA WriteInv == \A c \in Clients : FenceInv /\ Write(c) => FenceInv' /\ Len(landed') = Len(landed) + 1
<1> SUFFICES ASSUME NEW c \in Clients, FenceInv, Write(c)
             PROVE  FenceInv' /\ Len(landed') = Len(landed) + 1
  OBVIOUS
<1> USE DEF FenceInv
<1>1. PICK number \in tokens[c] :
        /\ number >= high_water /\ high_water' = number
        /\ landed' = Append(landed, [client |-> c, number |-> number])
        /\ next' = next /\ tokens' = tokens
  BY DEF Write, Unfenced
<1> DEFINE w == [client |-> c, number |-> number]
<1>2. number \in Nat /\ w \in [client : Clients, number : Nat]
  BY DEF FenceTypeOK
<1>3. /\ landed' \in Seq([client : Clients, number : Nat])
      /\ Len(landed') = Len(landed) + 1
      /\ \A i \in 1 .. Len(landed) : landed'[i] = landed[i]
      /\ landed'[Len(landed) + 1] = w
  BY <1>1, <1>2, AppendProperties DEF FenceTypeOK
<1>4. Len(landed) \in Nat /\ \A i \in 1 .. Len(landed) : landed[i].number \in Nat
  BY LandedTyped
<1>5. FenceTypeOK'
  BY <1>1, <1>2, <1>3 DEF FenceTypeOK
<1>6. TokensAreUnique'
  BY <1>1, <1>3, <1>4 DEF TokensAreUnique
<1>7. NumbersInOrder'
  <2>1. \A i \in 1 .. Len(landed') : landed'[i].number <= number /\ landed'[i].number \in Nat
    <3> SUFFICES ASSUME NEW i \in 1 .. Len(landed')
                 PROVE  landed'[i].number <= number /\ landed'[i].number \in Nat
      OBVIOUS
    <3>1. CASE i = Len(landed) + 1
      BY <1>2, <1>3, <3>1
    <3>2. CASE i \in 1 .. Len(landed)
      BY <1>1, <1>2, <1>3, <1>4, <3>2 DEF NumbersInOrder, FenceTypeOK
    <3> QED
      BY <1>3, <1>4, <3>1, <3>2
  <2>2. \A i \in 1 .. Len(landed') : \A k \in i .. Len(landed') :
          landed'[i].number <= landed'[k].number
    <3> SUFFICES ASSUME NEW i \in 1 .. Len(landed'), NEW k \in i .. Len(landed')
                 PROVE  landed'[i].number <= landed'[k].number
      OBVIOUS
    <3>1. CASE k = Len(landed) + 1
      BY <1>3, <2>1, <3>1
    <3>2. CASE k \in 1 .. Len(landed)
      BY <1>3, <1>4, <3>2 DEF NumbersInOrder
    <3> QED
      BY <1>3, <1>4, <3>1, <3>2
  <2> QED
    BY <1>1, <2>1, <2>2 DEF NumbersInOrder
<1> QED
  BY <1>3, <1>5, <1>6, <1>7

-----------------------------------------------------------------------------
ChainTypeOK ==
  /\ now \in Nat
  /\ stamp \in Seq(Nat) /\ Len(stamp) = Len(landed)
  /\ log \in [Positions -> Seq(Nat)]
  /\ last_applied \in [Followers -> Nat]

\* Every log is a prefix of the head's, and each position is behind the one before it.
LogsAreOneChain ==
  /\ \A p \in Positions : \A n \in 1 .. Len(log[p]) : log[p][n] = n
  /\ Len(log["tail"]) <= Len(log["mid"])
  /\ Len(log["mid"]) <= Len(log["head"])
  /\ Len(log["head"]) = Len(landed)

CommittedAtTail == acked \subseteq 1 .. Len(log["tail"])

\* Updates are issued in the order of their times.
StampsInOrder ==
  /\ \A i \in 1 .. Len(stamp) : stamp[i] <= now
  /\ \A i \in 1 .. Len(stamp) : \A k \in i .. Len(stamp) : stamp[i] <= stamp[k]

\* A follower is never more recent than an update it misses.
RecencyIsTrue ==
  \A p \in Followers :
    /\ last_applied[p] <= now
    /\ \A i \in Len(log[p]) + 1 .. Len(stamp) : last_applied[p] <= stamp[i]

ChainInv ==
  FenceInv /\ ChainTypeOK /\ LogsAreOneChain /\ CommittedAtTail /\ StampsInOrder /\ RecencyIsTrue

LEMMA LogSet ==
  ASSUME ChainTypeOK, LogsAreOneChain, NEW p \in Positions
  PROVE  /\ log[p] \in Seq(Nat) /\ Len(log[p]) \in Nat /\ DOMAIN log[p] = 1 .. Len(log[p])
         /\ ToSet(log[p]) = 1 .. Len(log[p])
         /\ Len(log["tail"]) <= Len(log[p]) /\ Len(log[p]) <= Len(landed)
<1>1. log[p] \in Seq(Nat) /\ Len(log[p]) \in Nat /\ DOMAIN log[p] = 1 .. Len(log[p])
  BY DEF ChainTypeOK
<1>2. ToSet(log[p]) = 1 .. Len(log[p])
  BY <1>1 DEF ToSet, LogsAreOneChain
<1>3. \A q \in Positions : Len(log[q]) \in Nat
  BY DEF ChainTypeOK
<1> QED
  BY <1>1, <1>2, <1>3 DEF LogsAreOneChain, Positions

LEMMA ChainInitInv == ChainInit => ChainInv
<1> SUFFICES ASSUME ChainInit PROVE ChainInv
  OBVIOUS
<1>1. FenceInv /\ landed = <<>>
  BY FenceInitInv DEF ChainInit, FenceInit
<1> QED
  BY <1>1 DEF ChainInit, ChainInv, ChainTypeOK, LogsAreOneChain, CommittedAtTail,
     StampsInOrder, RecencyIsTrue, Positions, Followers

LEMMA IssueInv == \A c \in Clients : ChainInv /\ Issue(c) => ChainInv'
<1> SUFFICES ASSUME NEW c \in Clients, ChainInv, Issue(c) PROVE ChainInv'
  OBVIOUS
<1> USE DEF ChainInv
<1>1. FenceInv' /\ Len(landed') = Len(landed) + 1
  BY WriteInv DEF Issue
<1>2. /\ log' = [log EXCEPT !["head"] = Append(@, Len(landed) + 1)]
      /\ stamp' = Append(stamp, now)
      /\ now' = now /\ last_applied' = last_applied /\ acked' = acked
  BY DEF Issue
<1>3. Len(landed) \in Nat /\ Len(stamp) = Len(landed) /\ Len(log["head"]) = Len(landed)
  BY DEF FenceInv, FenceTypeOK, ChainTypeOK, LogsAreOneChain
<1>4. /\ stamp' \in Seq(Nat) /\ Len(stamp') = Len(stamp) + 1
      /\ \A i \in 1 .. Len(stamp) : stamp'[i] = stamp[i]
      /\ stamp'[Len(stamp) + 1] = now
  BY <1>2, AppendProperties DEF ChainTypeOK
<1>5. /\ log' \in [Positions -> Seq(Nat)]
      /\ \A p \in Followers : log'[p] = log[p]
      /\ Len(log'["head"]) = Len(landed) + 1
      /\ \A n \in 1 .. Len(landed) + 1 : log'["head"][n] = n
  <2>1. log["head"] \in Seq(Nat) /\ log'["head"] = Append(log["head"], Len(landed) + 1)
    BY <1>2 DEF ChainTypeOK, Positions
  <2>2. /\ log'["head"] \in Seq(Nat) /\ Len(log'["head"]) = Len(landed) + 1
        /\ \A n \in 1 .. Len(landed) : log'["head"][n] = log["head"][n]
        /\ log'["head"][Len(landed) + 1] = Len(landed) + 1
    BY <1>3, <2>1, AppendProperties
  <2>3. \A n \in 1 .. Len(landed) : log["head"][n] = n
    BY <1>3 DEF LogsAreOneChain, Positions
  <2>4. log' \in [Positions -> Seq(Nat)] /\ \A p \in Followers : log'[p] = log[p]
    BY <1>2, <2>1, <2>2 DEF ChainTypeOK, Followers
  <2>5. ASSUME NEW n \in 1 .. Len(landed) + 1 PROVE log'["head"][n] = n
    <3>1. CASE n \in 1 .. Len(landed)
      BY <2>2, <2>3, <3>1
    <3>2. CASE n = Len(landed) + 1
      BY <2>2, <3>2
    <3> QED
      BY <1>3, <3>1, <3>2
  <2> QED
    BY <2>2, <2>4, <2>5
<1>6. ChainTypeOK'
  BY <1>1, <1>2, <1>3, <1>4, <1>5 DEF ChainTypeOK
<1>7. LogsAreOneChain'
  BY <1>1, <1>2, <1>3, <1>5, LogSet DEF LogsAreOneChain, Positions, Followers
<1>8. CommittedAtTail'
  BY <1>2, <1>5 DEF CommittedAtTail, Followers, Positions
<1>9. StampsInOrder'
  <2>1. now \in Nat /\ \A i \in 1 .. Len(stamp) : stamp[i] \in Nat
    BY DEF ChainTypeOK
  <2>2. \A i \in 1 .. Len(stamp') : stamp'[i] <= now
    BY <1>3, <1>4, <2>1 DEF StampsInOrder
  <2>3. ASSUME NEW i \in 1 .. Len(stamp'), NEW k \in i .. Len(stamp')
        PROVE  stamp'[i] <= stamp'[k]
    <3>1. CASE k = Len(stamp) + 1
      BY <1>3, <1>4, <2>1, <2>2, <3>1
    <3>2. CASE k \in 1 .. Len(stamp)
      BY <1>3, <1>4, <3>2 DEF StampsInOrder
    <3> QED
      BY <1>3, <1>4, <3>1, <3>2
  <2> QED
    BY <1>2, <2>2, <2>3 DEF StampsInOrder
<1>10. RecencyIsTrue'
  <2> SUFFICES ASSUME NEW p \in Followers
               PROVE  /\ last_applied'[p] <= now'
                      /\ \A i \in Len(log'[p]) + 1 .. Len(stamp') : last_applied'[p] <= stamp'[i]
    BY DEF RecencyIsTrue
  <2>1. p \in Positions /\ log'[p] = log[p] /\ Len(log[p]) \in Nat /\ last_applied[p] <= now
    BY <1>5, LogSet DEF RecencyIsTrue, Followers
  <2>2. \A i \in Len(log[p]) + 1 .. Len(stamp) : last_applied[p] <= stamp[i]
    BY DEF RecencyIsTrue
  <2>3. ASSUME NEW i \in Len(log[p]) + 1 .. Len(stamp') PROVE last_applied[p] <= stamp'[i]
    <3>1. CASE i = Len(stamp) + 1
      BY <1>4, <2>1, <3>1
    <3>2. CASE i \in Len(log[p]) + 1 .. Len(stamp)
      BY <1>3, <1>4, <2>1, <2>2, <3>2
    <3> QED
      BY <1>3, <1>4, <2>1, <3>1, <3>2
  <2> QED
    BY <1>2, <2>1, <2>3
<1> QED
  BY <1>1, <1>6, <1>7, <1>8, <1>9, <1>10

LEMMA ForwardInv == \A p \in Positions : ChainInv /\ Forward(p) => ChainInv'
<1> SUFFICES ASSUME NEW p \in Positions, ChainInv, Forward(p) PROVE ChainInv'
  OBVIOUS
<1> USE DEF ChainInv
<1> DEFINE q == Following(p)
<1>1. PICK i \in NextOnLink(p) :
        /\ log' = [log EXCEPT ![q] = Append(@, i)]
        /\ last_applied' = [last_applied EXCEPT ![q] = Recency(q, i)]
  BY DEF Forward
<1>2. /\ UNCHANGED <<next, tokens, high_water, landed, now, stamp, acked>>
      /\ FenceInv'
  BY DEF Forward, FenceInv, FenceTypeOK, TokensAreUnique, NumbersInOrder
<1>3. /\ q \in Followers /\ q \in Positions
      /\ p = "head" => q = "mid"
      /\ p = "mid" => q = "tail"
      /\ p \in {"head", "mid"}
  BY DEF Forward, Following, Positions, Followers
<1>4. i \in Nat /\ i = Len(log[q]) + 1 /\ i <= Len(log[p])
  <2>1. PICK n \in DOMAIN log[p] : log[p][n] = i /\ Len(log[q]) = n - 1
    BY <1>1 DEF NextOnLink
  <2>2. n \in 1 .. Len(log[p]) /\ Len(log[p]) \in Nat
    BY <2>1, LogSet
  <2> QED
    BY <2>1, <2>2 DEF LogsAreOneChain
<1>5. /\ log' \in [Positions -> Seq(Nat)]
      /\ \A r \in Positions : r # q => log'[r] = log[r]
      /\ Len(log'[q]) = i
      /\ \A n \in 1 .. i : log'[q][n] = n
  <2>1. log[q] \in Seq(Nat) /\ log'[q] = Append(log[q], i)
    BY <1>1, <1>3 DEF ChainTypeOK
  <2>2. /\ log'[q] \in Seq(Nat) /\ Len(log'[q]) = Len(log[q]) + 1
        /\ \A n \in 1 .. Len(log[q]) : log'[q][n] = log[q][n]
        /\ log'[q][Len(log[q]) + 1] = i
    BY <1>4, <2>1, AppendProperties
  <2>3. \A n \in 1 .. Len(log[q]) : log[q][n] = n
    BY <1>3 DEF LogsAreOneChain
  <2>4. log' \in [Positions -> Seq(Nat)] /\ \A r \in Positions : r # q => log'[r] = log[r]
    BY <1>1, <1>3, <2>1, <2>2 DEF ChainTypeOK
  <2>5. Len(log[q]) \in Nat
    BY <1>3, LogSet
  <2>6. ASSUME NEW n \in 1 .. i PROVE log'[q][n] = n
    <3>1. CASE n \in 1 .. Len(log[q])
      BY <2>2, <2>3, <3>1
    <3>2. CASE n = Len(log[q]) + 1
      BY <1>4, <2>2, <3>2
    <3> QED
      BY <1>4, <2>5, <3>1, <3>2
  <2>7. Len(log'[q]) = i
    BY <1>4, <2>2
  <2> QED
    BY <2>4, <2>6, <2>7
<1>6. stamp[i] \in Nat /\ i \in 1 .. Len(stamp) /\ last_applied[q] \in Nat
  BY <1>3, <1>4, LogSet DEF ChainTypeOK
<1>7. /\ last_applied' \in [Followers -> Nat]
      /\ \A r \in Followers : r # q => last_applied'[r] = last_applied[r]
      /\ last_applied'[q] \in {stamp[i], last_applied[q]}
  BY <1>1, <1>3, <1>6 DEF ChainTypeOK, Recency
<1>8. ChainTypeOK'
  BY <1>2, <1>5, <1>7 DEF ChainTypeOK
<1>9. LogsAreOneChain'
  <2>1. Len(log["head"]) \in Nat /\ Len(log["mid"]) \in Nat /\ Len(log["tail"]) \in Nat
    BY LogSet DEF Positions
  <2>2. \A r \in Positions : \A n \in 1 .. Len(log'[r]) : log'[r][n] = n
    BY <1>5 DEF LogsAreOneChain
  <2>3. CASE p = "head"
    <3>1. /\ log'["head"] = log["head"] /\ log'["tail"] = log["tail"]
          /\ Len(log'["mid"]) = Len(log["mid"]) + 1
          /\ Len(log["mid"]) + 1 <= Len(log["head"])
      BY <1>3, <1>4, <1>5, <2>3 DEF Positions
    <3> QED
      BY <1>2, <2>1, <2>2, <3>1 DEF LogsAreOneChain
  <2>4. CASE p = "mid"
    <3>1. /\ log'["head"] = log["head"] /\ log'["mid"] = log["mid"]
          /\ Len(log'["tail"]) = Len(log["tail"]) + 1
          /\ Len(log["tail"]) + 1 <= Len(log["mid"])
      BY <1>3, <1>4, <1>5, <2>4 DEF Positions
    <3> QED
      BY <1>2, <2>1, <2>2, <3>1 DEF LogsAreOneChain
  <2> QED
    BY <1>3, <2>3, <2>4
<1>10. CommittedAtTail'
  <2>1. "tail" \in Positions /\ Len(log["tail"]) \in Nat
    BY LogSet DEF Positions
  <2>2. Len(log["tail"]) <= Len(log'["tail"]) /\ Len(log'["tail"]) \in Nat
    BY <1>4, <1>5, <2>1
  <2> QED
    BY <1>2, <2>1, <2>2 DEF CommittedAtTail
<1>11. StampsInOrder'
  BY <1>2 DEF StampsInOrder
<1>12. RecencyIsTrue'
  <2> SUFFICES ASSUME NEW r \in Followers
               PROVE  /\ last_applied'[r] <= now'
                      /\ \A k \in Len(log'[r]) + 1 .. Len(stamp') : last_applied'[r] <= stamp'[k]
    BY DEF RecencyIsTrue
  <2>1. CASE r # q
    BY <1>2, <1>5, <1>7, <2>1 DEF RecencyIsTrue, Followers
  <2>2. CASE r = q
    <3>1. last_applied'[q] <= now
      BY <1>6, <1>7, <1>3 DEF StampsInOrder, RecencyIsTrue
    <3>2. ASSUME NEW k \in i + 1 .. Len(stamp) PROVE last_applied'[q] <= stamp[k]
      <4>1. stamp[i] <= stamp[k]
        BY <1>6 DEF StampsInOrder
      <4>2. k \in Len(log[q]) + 1 .. Len(stamp)
        BY <1>3, <1>4, LogSet
      <4>3. last_applied[q] <= stamp[k]
        BY <1>3, <4>2 DEF RecencyIsTrue
      <4> QED
        BY <1>7, <4>1, <4>3
    <3> QED
      BY <1>2, <1>5, <2>2, <3>1, <3>2
  <2> QED
    BY <2>1, <2>2
<1> QED
  BY <1>2, <1>8, <1>9, <1>10, <1>11, <1>12

LEMMA ChainNextInv == ChainInv /\ [ChainNext]_chainVars => ChainInv'
<1> SUFFICES ASSUME ChainInv, [ChainNext]_chainVars PROVE ChainInv'
  OBVIOUS
<1> USE DEF ChainInv
<1>0. ASSUME UNCHANGED <<next, tokens, high_water, landed>> PROVE FenceInv'
  BY <1>0 DEF FenceInv, FenceTypeOK, TokensAreUnique, NumbersInOrder
<1>1. ASSUME NEW c \in Clients, AcquireToken(c) PROVE ChainInv'
  <2>1. FenceInv' /\ UNCHANGED <<landed, now, stamp, log, last_applied, acked>>
    BY <1>1, AcquireInv DEF AcquireToken, Acquire
  <2> QED
    BY <2>1 DEF ChainTypeOK, LogsAreOneChain, CommittedAtTail, StampsInOrder, RecencyIsTrue
<1>2. ASSUME NEW c \in Clients, Issue(c) PROVE ChainInv'
  BY <1>2, IssueInv
<1>3. ASSUME NEW c \in Clients, NEW p \in Positions, ReadInSession(c, p) PROVE ChainInv'
  BY <1>0, <1>3 DEF ReadInSession, ChainTypeOK, LogsAreOneChain, CommittedAtTail,
     StampsInOrder, RecencyIsTrue
<1>4. ASSUME NEW p \in Positions, Forward(p) PROVE ChainInv'
  BY <1>4, ForwardInv
<1>5. ASSUME NEW p \in Followers, Refresh(p) PROVE ChainInv'
  <2>1. /\ last_applied' = [last_applied EXCEPT ![p] = now]
        /\ UNCHANGED <<next, tokens, high_water, landed, now, stamp, log, acked>>
        /\ log[p] = log["head"]
    BY <1>5 DEF Refresh
  <2>2. Len(log[p]) + 1 > Len(stamp)
    BY <2>1 DEF ChainTypeOK, LogsAreOneChain, FenceInv, FenceTypeOK
  <2>3. /\ last_applied' \in [Followers -> Nat] /\ last_applied'[p] = now
        /\ \A r \in Followers : r # p => last_applied'[r] = last_applied[r]
    BY <2>1 DEF ChainTypeOK
  <2>4. RecencyIsTrue'
    <3> SUFFICES ASSUME NEW r \in Followers
                 PROVE  /\ last_applied'[r] <= now
                        /\ \A i \in Len(log[r]) + 1 .. Len(stamp) : last_applied'[r] <= stamp[i]
      BY <2>1 DEF RecencyIsTrue
    <3>1. CASE r = p
      BY <2>2, <2>3, <3>1, LogSet DEF ChainTypeOK, Followers
    <3>2. CASE r # p
      BY <2>3, <3>2 DEF RecencyIsTrue
    <3> QED
      BY <3>1, <3>2
  <2> QED
    BY <1>0, <2>1, <2>3, <2>4
       DEF ChainTypeOK, LogsAreOneChain, CommittedAtTail, StampsInOrder
<1>6. CASE CommitUpdate
  <2>1. /\ UNCHANGED <<next, tokens, high_water, landed, now, stamp, log, last_applied>>
        /\ acked' \subseteq acked \cup ToSet(log["tail"])
    BY <1>6 DEF CommitUpdate, Committable
  <2>2. CommittedAtTail'
    BY <2>1, LogSet DEF CommittedAtTail, Positions
  <2> QED
    BY <1>0, <2>1, <2>2 DEF ChainTypeOK, LogsAreOneChain, StampsInOrder, RecencyIsTrue
<1>7. CASE PassTime
  <2>1. /\ UNCHANGED <<next, tokens, high_water, landed, stamp, log, last_applied, acked>>
        /\ now' = now + 1 /\ now \in Nat
    BY <1>7 DEF PassTime, ChainTypeOK
  <2>2. \A i \in 1 .. Len(stamp) : stamp[i] \in Nat
    BY DEF ChainTypeOK
  <2>3. StampsInOrder' /\ RecencyIsTrue'
    BY <2>1, <2>2 DEF StampsInOrder, RecencyIsTrue, ChainTypeOK
  <2> QED
    BY <1>0, <2>1, <2>3 DEF ChainTypeOK, LogsAreOneChain, CommittedAtTail
<1>8. CASE UNCHANGED chainVars
  BY <1>0, <1>8 DEF chainVars, ChainTypeOK, LogsAreOneChain, CommittedAtTail,
     StampsInOrder, RecencyIsTrue
<1> QED
  BY <1>1, <1>2, <1>3, <1>4, <1>5, <1>6, <1>7, <1>8 DEF ChainNext

LEMMA ChainInvariant == ChainSpec => []ChainInv
  BY ChainInitInv, ChainNextInv, PTL DEF ChainSpec

\* FencedStore::write (fencing.rs:233-243) with LockService::acquire (124-128): for any
\* clients, tokens and writes, however long a holder pauses, the writes under one token
\* stand together at every replica and are one client's.
THEOREM FencedHoldsAreContiguous == ChainSpec => []HoldsAreContiguous
<1>1. ASSUME ChainInv PROVE HoldsAreContiguous
  <2> USE <1>1 DEF ChainInv
  <2> SUFFICES ASSUME NEW p \in Positions, NEW i \in DOMAIN log[p], NEW k \in DOMAIN log[p],
                      landed[log[p][i]].number = landed[log[p][k]].number,
                      NEW j \in i .. k
               PROVE  landed[log[p][j]] = landed[log[p][i]]
    BY DEF HoldsAreContiguous
  <2>1. /\ i \in 1 .. Len(landed) /\ j \in i .. Len(landed) /\ k \in j .. Len(landed)
        /\ log[p][i] = i /\ log[p][j] = j /\ log[p][k] = k
        /\ j \in 1 .. Len(landed) /\ Len(landed) \in Nat
    <3>1. /\ DOMAIN log[p] = 1 .. Len(log[p]) /\ Len(log[p]) \in Nat
          /\ Len(log[p]) <= Len(landed) /\ Len(landed) \in Nat
      BY LogSet, LandedTyped DEF FenceInv
    <3>2. /\ i \in 1 .. Len(log[p]) /\ k \in 1 .. Len(log[p]) /\ j \in 1 .. Len(log[p])
          /\ i <= j /\ j <= k
      BY <3>1
    <3>3. log[p][i] = i /\ log[p][j] = j /\ log[p][k] = k
      BY <3>2 DEF LogsAreOneChain
    <3> QED
      BY <3>1, <3>2, <3>3
  <2>2. /\ landed[i] \in [client : Clients, number : Nat]
        /\ landed[j] \in [client : Clients, number : Nat]
        /\ landed[k].number \in Nat
    BY <2>1, LandedTyped DEF FenceInv
  <2>3. landed[i].number <= landed[j].number /\ landed[j].number <= landed[k].number
    BY <2>1 DEF FenceInv, NumbersInOrder
  <2>4. landed[j].number = landed[i].number
    BY <2>1, <2>2, <2>3
  <2>5. landed[j].client = landed[i].client
    <3>1. /\ landed[i].number \in tokens[landed[i].client]
          /\ landed[j].number \in tokens[landed[j].client]
          /\ landed[i].client \in Clients /\ landed[j].client \in Clients
      BY <2>1, <2>2 DEF FenceInv, TokensAreUnique
    <3> QED
      BY <2>4, <3>1 DEF FenceInv, TokensAreUnique
  <2>6. landed[j] = landed[i]
    BY <2>2, <2>4, <2>5
  <2> QED
    BY <2>1, <2>6
<1> QED
  BY <1>1, ChainInvariant, PTL

\* commit (chain.rs:201-208) with read_linearizable (staleness.rs:113-120): whatever hops
\* are still to be made, a read under the lease reflects every committed update and begins
\* the log of every replica.
THEOREM LeasedReadsAreEverywhere == ChainSpec => []LinearizableIsEverywhere
<1>1. ASSUME ChainInv PROVE LinearizableIsEverywhere
  <2> USE <1>1 DEF ChainInv
  <2>1. "tail" \in Positions
    BY DEF Positions
  <2>2. acked \subseteq ToSet(log["tail"])
    BY <2>1, LogSet DEF CommittedAtTail
  <2>3. ASSUME NEW p \in Positions PROVE IsPrefix(log["tail"], log[p])
    <3> DEFINE n == Len(log["tail"])
    <3>1. /\ n \in Nat /\ n <= Len(log[p])
          /\ log["tail"] \in Seq(Nat) /\ log[p] \in Seq(Nat)
      BY <2>1, LogSet
    <3>2. \A i \in 1 .. n : log["tail"][i] = i /\ log[p][i] = i
      BY <2>1, <3>1, LogSet DEF LogsAreOneChain
    <3>3. SubSeq(log["tail"], 1, n) = SubSeq(log[p], 1, n)
      <4> DEFINE s == SubSeq(log["tail"], 1, n)
                 t == SubSeq(log[p], 1, n)
      <4>1. /\ \A i \in 1 .. n : log["tail"][i] \in Nat
            /\ \A i \in 1 .. n : log[p][i] \in Nat
            /\ 1 \in Int /\ n \in Int
        BY <3>1, <3>2
      <4>2. /\ s \in Seq(Nat) /\ Len(s) = n
            /\ \A i \in 1 .. n : s[i] = log["tail"][i]
        BY <3>1, <4>1, SubSeqProperties
      <4>3. /\ t \in Seq(Nat) /\ Len(t) = n
            /\ \A i \in 1 .. n : t[i] = log[p][i]
        BY <3>1, <4>1, SubSeqProperties
      <4> HIDE DEF s, t, n
      <4>4. s = t
        BY <3>2, <4>2, <4>3, SeqEqual
      <4> QED
        BY <4>4 DEF s, t
    <3> QED
      BY <3>1, <3>3 DEF IsPrefix
  <2> QED
    BY <2>2, <2>3 DEF LinearizableIsEverywhere, HoldsLease, ReadLinearizable
<1> QED
  BY <1>1, ChainInvariant, PTL

\* read_within and require (staleness.rs:104-138): for any time, delay and tolerance, a
\* read that passes misses no update issued longer ago than the tolerance.
THEOREM StalenessIsBounded == ChainSpec => []StaleReadIsBounded
<1>1. ASSUME ChainInv PROVE StaleReadIsBounded
  <2> USE <1>1 DEF ChainInv
  <2> SUFFICES ASSUME NEW p \in Followers, NEW delta \in 0 .. MaxTime, NEW tol \in 0 .. MaxTime,
                      now - last_applied[p] <= delta, delta <= tol,
                      NEW i \in DOMAIN landed, i \notin ToSet(log[p])
               PROVE  now - stamp[i] <= tol
    BY DEF StaleReadIsBounded, ReadWithin, Tolerates
  <2>1. i \in Len(log[p]) + 1 .. Len(stamp)
    BY LogSet DEF ChainTypeOK, FenceInv, FenceTypeOK, Followers
  <2>2. stamp[i] \in Nat /\ last_applied[p] \in Nat /\ now \in Nat
    BY <2>1, LogSet DEF ChainTypeOK, Followers
  <2>3. last_applied[p] <= stamp[i]
    BY <2>1 DEF RecencyIsTrue
  <2> QED
    BY <2>2, <2>3, ChainAssumption
<1> QED
  BY <1>1, ChainInvariant, PTL

=============================================================================
