--------------------------- MODULE RuntimeProofs ----------------------------
(* A live peer is never confirmed dead, for any observers, electorate,     *)
(* liars, budget and lag that meet the bound.                              *)
(*                                                                         *)
(* That nothing is confirmed is not inductive: a report could already hold *)
(* the claims it needs.  IInv says where claims come from: a stamp is off  *)
(* by no more than the lag (Stamped), a live peer was heard not long ago   *)
(* (HeardLately), so only liars claim while it lives (Quiet), and a report *)
(* holds nothing but claims (Claimed).                                     *)
(*                                                                         *)
(* After it come the streams of Channels, and the transactions of           *)
(* Transactions, whose invariant is TxnInv.                                *)
EXTENDS Detector, Channels, Transactions, FoundationProofs

Stamped ==
  \A o \in Observers :
    /\ heard[o] <= now
    /\ last_heard[o] <= heard[o]
    /\ heard[o] <= last_heard[o] + MaxLag

HeardLately == Alive => \A o \in Observers : now <= heard[o] + Gap

\* The budget covers the pauses of a live peer and the lag of the clocks.
Covered == Timeout >= Gap + MaxLag

Quiet == Covered /\ Alive => claims \subseteq Liars

Claimed == reporters \subseteq claims

IInv == TypeOK /\ Stamped /\ HeardLately /\ Quiet /\ Claimed /\ NoFalseAlarm

-----------------------------------------------------------------------------
\* An observer over its budget has truly heard nothing for the budget less the lag.
LEMMA SilenceIsReal ==
  ASSUME TypeOK, Stamped, NEW o \in Observers, NEW reading \in Readings,
         OverBudget(o, reading)
  PROVE  now - heard[o] + MaxLag > Timeout
<1>1. /\ now \in Nat /\ reading \in Nat /\ MaxLag \in Nat /\ Timeout \in Nat
      /\ heard[o] \in Nat /\ last_heard[o] \in Nat /\ reading <= now
  BY DetectorAssumption DEF TypeOK, Readings
<1>2. heard[o] <= last_heard[o] + MaxLag
  BY DEF Stamped
<1>3. reading > last_heard[o] /\ reading - last_heard[o] > Timeout
  BY <1>1 DEF OverBudget, Silence
<1> QED
  BY <1>1, <1>2, <1>3

\* Lying members alone are no quorum.
LEMMA LiarsFallShort ==
  ASSUME Cardinality(Liars \cap Electorate) < Threshold(Electorate),
         NEW q \in SUBSET Liars
  PROVE  ~ Certify(Electorate, q)
<1>1. SUFFICES ASSUME q \subseteq Electorate PROVE Cardinality(q) < Threshold(Electorate)
  BY FS_Subset, FS_CardinalityType, DetectorAssumption DEF Certify, Threshold
<1>2. q \subseteq Liars \cap Electorate /\ IsFiniteSet(Liars \cap Electorate)
  BY <1>1, FS_Subset, DetectorAssumption
<1>3. Cardinality(q) <= Cardinality(Liars \cap Electorate)
  BY <1>2, FS_Subset
<1>4. /\ Cardinality(q) \in Nat /\ Cardinality(Liars \cap Electorate) \in Nat
      /\ Cardinality(Electorate) \in Nat
  BY <1>2, FS_Subset, FS_CardinalityType, DetectorAssumption
<1> QED
  BY <1>3, <1>4 DEF Threshold

-----------------------------------------------------------------------------
LEMMA InvInit == Init => IInv
<1> SUFFICES ASSUME Init PROVE IInv
  OBVIOUS
<1>1. TypeOK
  <2>1. 0 \in 0 .. MaxTime
    BY DetectorAssumption
  <2>2. /\ last_heard \in [Observers -> 0 .. MaxTime]
        /\ heard \in [Observers -> 0 .. MaxTime]
    BY <2>1 DEF Init, NewMonitors
  <2> QED
    BY <2>1, <2>2 DEF Init, NewMonitors, TypeOK
<1>2. Stamped /\ HeardLately
  BY DetectorAssumption DEF Init, NewMonitors, Stamped, HeardLately
<1>3. Quiet /\ Claimed /\ NoFalseAlarm
  BY DEF Init, NewMonitors, Quiet, Claimed, NoFalseAlarm
<1> QED
  BY <1>1, <1>2, <1>3 DEF IInv

LEMMA InvNext == IInv /\ [Next]_vars => IInv'
<1> SUFFICES ASSUME IInv, [Next]_vars PROVE IInv'
  OBVIOUS
<1>0. /\ MaxTime \in Nat /\ Gap \in Nat /\ MaxLag \in Nat /\ Timeout \in Nat
      /\ now \in Nat /\ now <= MaxTime
      /\ \A o \in Observers : heard[o] \in Nat /\ last_heard[o] \in Nat
  BY DetectorAssumption DEF IInv, TypeOK
<1>1. CASE Tick
  <2>1. TypeOK' /\ Claimed'
    BY <1>0, <1>1 DEF Tick, IInv, TypeOK, Claimed
  <2>2. Stamped'
    BY <1>0, <1>1 DEF Tick, IInv, Stamped
  <2>3. HeardLately'
    BY <1>0, <1>1 DEF Tick, IInv, HeardLately, Alive
  <2>4. Quiet' /\ NoFalseAlarm'
    BY <1>1 DEF Tick, IInv, Quiet, NoFalseAlarm, Alive
  <2> QED
    BY <2>1, <2>2, <2>3, <2>4 DEF IInv
<1>2. CASE Crash
  <2>1. TypeOK' /\ Claimed' /\ Stamped'
    BY <1>0, <1>2 DEF Crash, IInv, TypeOK, Claimed, Stamped
  <2>2. ~ Alive'
    BY <1>2 DEF Crash, Alive
  <2> QED
    BY <2>1, <2>2 DEF IInv, HeardLately, Quiet, NoFalseAlarm
<1>3. ASSUME NEW o \in Observers, HeardAt(o) PROVE IInv'
  <2>1. PICK reading \in Readings : last_heard' = [last_heard EXCEPT ![o] = reading]
    BY <1>3 DEF HeardAt
  <2>2. reading \in 0 .. MaxTime /\ reading <= now /\ now <= reading + MaxLag
    BY <1>0 DEF Readings
  <2>3. /\ heard' = [heard EXCEPT ![o] = now]
        /\ UNCHANGED <<patient, now, crashed, claims, reporters, confirmed>>
    BY <1>3 DEF HeardAt
  <2>4. TypeOK'
    BY <2>1, <2>2, <2>3 DEF IInv, TypeOK
  <2>5. Stamped'
    BY <1>0, <2>1, <2>2, <2>3 DEF IInv, TypeOK, Stamped
  <2>6. HeardLately'
    BY <1>0, <2>3 DEF IInv, TypeOK, HeardLately, Alive
  <2>7. Quiet' /\ Claimed' /\ NoFalseAlarm'
    BY <2>3 DEF IInv, Quiet, Claimed, NoFalseAlarm, Alive
  <2> QED
    BY <2>4, <2>5, <2>6, <2>7 DEF IInv
<1>4. ASSUME NEW o \in Observers, Suspect(o) PROVE IInv'
  <2>1. PICK reading \in Readings : OverBudget(o, reading)
    BY <1>4 DEF Suspect
  <2>2. now - heard[o] + MaxLag > Timeout
    BY <2>1, SilenceIsReal DEF IInv
  <2>3. ~ (Covered /\ Alive)
    BY <1>0, <2>2 DEF Covered, IInv, HeardLately
  <2>4. ~ (Covered /\ Alive)'
    BY <1>4, <2>3 DEF Suspect, Covered, Alive
  <2>5. TypeOK' /\ Stamped' /\ HeardLately' /\ Claimed' /\ NoFalseAlarm'
    BY <1>4 DEF Suspect, IInv, TypeOK, Stamped, HeardLately, Claimed, NoFalseAlarm, Alive
  <2> QED
    BY <2>4, <2>5 DEF IInv, Quiet
<1>5. ASSUME NEW o \in Observers, Lie(o) PROVE IInv'
  BY <1>5 DEF Lie, IInv, TypeOK, Stamped, HeardLately, Quiet, Claimed, NoFalseAlarm,
              Alive, Covered
<1>6. ASSUME NEW o \in Observers, Corroborate(o) PROVE IInv'
  BY <1>6 DEF Corroborate, IInv, TypeOK, Stamped, HeardLately, Quiet, Claimed,
              NoFalseAlarm, Alive, Covered
<1>7. CASE Close
  <2>1. TypeOK' /\ Stamped' /\ HeardLately' /\ Quiet' /\ Claimed'
    BY <1>7 DEF Close, IInv, TypeOK, Stamped, HeardLately, Quiet, Claimed, Alive,
                Covered
  <2>2. SUFFICES ASSUME Covered, Alive,
                        Cardinality(Liars \cap Electorate) < Threshold(Electorate)
                 PROVE  ~ confirmed'
    BY <1>7, <2>1 DEF Close, IInv, NoFalseAlarm, Alive, Covered
  <2>3. reporters \in SUBSET Liars
    BY <2>2 DEF IInv, Quiet, Claimed
  <2>4. ~ confirmed /\ ~ Certify(Electorate, reporters)
    BY <2>2, <2>3, LiarsFallShort DEF IInv, NoFalseAlarm, Covered
  <2> QED
    BY <1>7, <2>4 DEF Close
<1>8. CASE UNCHANGED vars
  BY <1>8 DEF vars, IInv, TypeOK, Stamped, HeardLately, Quiet, Claimed, NoFalseAlarm,
              Alive, Covered
<1> QED
  BY <1>1, <1>2, <1>3, <1>4, <1>5, <1>6, <1>7, <1>8 DEF Next

\* Spec keeps the invariant.
LEMMA Invariance == Spec => []IInv
  BY InvInit, InvNext, PTL DEF Spec

\* Every variable keeps its type.
THEOREM TypeCorrect == Spec => []TypeOK
  BY Invariance, PTL DEF IInv

\* close (detector.rs:174-176): under the budget's bound and with fewer lying
\* members than a quorum, a live peer is never confirmed dead.
THEOREM LivePeerIsSafe == Spec => []NoFalseAlarm
  BY Invariance, PTL DEF IInv

\* suspect (suspicion.rs:156-159): a new claim of an honest observer means it has
\* truly heard nothing for the budget less the lag of the clocks.
THEOREM ClaimsAreHonest == Spec => ClaimMeansSilence
<1>1. ASSUME IInv, [Next]_vars, NEW o \in (claims' \ claims) \ Liars
      PROVE  now - heard[o] + MaxLag > Timeout
  <2>1. claims' # claims /\ o \in claims' /\ o \notin claims /\ o \notin Liars
    BY <1>1
  <2>2. PICK p \in Observers : Suspect(p) \/ Lie(p)
    BY <1>1, <2>1 DEF Next, vars, Tick, Crash, HeardAt, Corroborate, Close
  <2>3. claims' = claims \cup {p}
    BY <2>2 DEF Suspect, Lie
  <2>4. p = o /\ Suspect(o)
    BY <2>1, <2>2, <2>3 DEF Lie
  <2>5. PICK reading \in Readings : OverBudget(o, reading)
    BY <2>4 DEF Suspect
  <2> QED
    BY <2>2, <2>4, <2>5, SilenceIsReal, <1>1 DEF IInv
<1>2. IInv /\ [Next]_vars =>
        [\A o \in (claims' \ claims) \ Liars : now - heard[o] + MaxLag > Timeout]_vars
  BY <1>1
<1> QED
  BY <1>2, Invariance, PTL DEF Spec, ClaimMeansSilence

-----------------------------------------------------------------------------
(* Streams.  ChannelInv says that the state and what was told of it follow  *)
(* the log (Replayable), that an effect and its capability exclude each     *)
(* other (OneEffect), that what is acknowledged is logged (AcksAreLogged),  *)
(* and that credits, copies and losses add up (Buffers).                    *)

ChannelTypeOK ==
  /\ window \in Nat /\ free \in Nat
  /\ sending \in [Msgs -> {"unsent", "pending", "retired"}]
  /\ credits \in Nat /\ wire \in [Msgs -> Nat] /\ lost \in Nat /\ outstanding \in Nat
  /\ received \in SUBSET Msgs
  /\ log \in Seq(Msgs) /\ state \in Seq(Msgs) /\ told \in Seq(Msgs)
  /\ token \in SUBSET Msgs /\ fired \in [Msgs -> Nat]
  /\ acks \in SUBSET Msgs

\* The first messages of the log, in its order.
Follows(seq, whole) == Len(seq) <= Len(whole) /\ \A i \in 1 .. Len(seq) : seq[i] = whole[i]

Replayable == Follows(state, log) /\ Follows(told, log)

\* An effect has happened, or may happen, and neither before its message is sent.
OneEffect ==
  \A m \in Msgs :
    /\ fired[m] <= 1 /\ (m \in token => fired[m] = 0)
    /\ sending[m] = "unsent" => m \notin token /\ fired[m] = 0

\* Whatever is acknowledged is in the log.
AcksAreLogged ==
  /\ acks \subseteq ToSet(log)
  /\ \A m \in Msgs : sending[m] = "retired" => m \in ToSet(log)

Unacknowledged(s) == {m \in Msgs : s[m] = "pending"}

Buffers ==
  /\ outstanding = credits + SumOver(wire, Msgs) + lost /\ outstanding <= Cap
  /\ free + Cardinality(Unacknowledged(sending)) = window

ChannelInv == ChannelTypeOK /\ Replayable /\ OneEffect /\ AcksAreLogged /\ Buffers

LEMMA WireOfOne ==
  ASSUME NEW w \in [Msgs -> Nat], NEW m \in Msgs, NEW k \in Nat
  PROVE  /\ SumOver([w EXCEPT ![m] = k], Msgs) = SumOver(w, Msgs) + (k - w[m])
         /\ SumOver(w, Msgs) \in Nat /\ w[m] \in Nat
<1> DEFINE v == [w EXCEPT ![m] = k]
<1>1. /\ \A x \in Msgs : w[x] \in Int /\ v[x] \in Int
      /\ \A x \in Msgs \ {m} : v[x] = w[x]
      /\ v[m] = k
  OBVIOUS
<1> HIDE DEF v
<1>2. IsFiniteSet(Msgs) /\ \A x \in Msgs : w[x] \in Nat
  BY ChannelsAssumption
<1>3. SumOver(v, Msgs) = SumOver(w, Msgs) + (v[m] - w[m])
  BY <1>1, <1>2, SumUpdate
<1>4. SumOver(w, Msgs) \in Nat
  BY <1>2, SumNatural
<1> QED
  BY <1>1, <1>2, <1>3, <1>4 DEF v

LEMMA LogGrows ==
  ASSUME NEW l \in Seq(Msgs), NEW m \in Msgs
  PROVE  /\ Append(l, m) \in Seq(Msgs) /\ Len(l) \in Nat /\ Len(Append(l, m)) = Len(l) + 1
         /\ \A i \in 1 .. Len(l) : Append(l, m)[i] = l[i]
         /\ Append(l, m)[Len(l) + 1] = m
         /\ ToSet(Append(l, m)) = ToSet(l) \cup {m}
<1>1. /\ Append(l, m) \in Seq(Msgs) /\ Len(l) \in Nat /\ Len(Append(l, m)) = Len(l) + 1
      /\ \A i \in 1 .. Len(l) : Append(l, m)[i] = l[i]
      /\ Append(l, m)[Len(l) + 1] = m
  BY AppendProperties, LenProperties
<1>2. DOMAIN Append(l, m) = 1 .. Len(l) + 1 /\ DOMAIN l = 1 .. Len(l)
  BY <1>1, LenProperties
<1>3. ToSet(Append(l, m)) = {Append(l, m)[i] : i \in 1 .. Len(l) + 1}
      /\ ToSet(l) = {l[i] : i \in 1 .. Len(l)}
  BY <1>2 DEF ToSet
<1>4. 1 .. Len(l) + 1 = (1 .. Len(l)) \cup {Len(l) + 1}
  BY <1>1
<1>5. ToSet(Append(l, m)) = ToSet(l) \cup {m}
  BY <1>1, <1>3, <1>4, Zenon
<1> QED
  BY <1>1, <1>5

LEMMA ChannelInitInv == ChannelInit => ChannelInv
<1> SUFFICES ASSUME ChannelInit PROVE ChannelInv
  OBVIOUS
<1> USE DEF ChannelInit
<1>1. <<>> \in Seq(Msgs) /\ Len(<<>>) = 0 /\ ToSet(<<>>) = {}
  BY DEF ToSet
<1>2. ChannelTypeOK
  BY <1>1, ChannelsAssumption DEF ChannelTypeOK
<1>3. Replayable /\ OneEffect /\ AcksAreLogged
  BY <1>1 DEF Replayable, Follows, OneEffect, AcksAreLogged
<1>4. Buffers
  <2>1. SumOver(wire, Msgs) = 0
    <3>1. \A m \in Msgs : wire[m] = 0
      OBVIOUS
    <3> QED
      BY <3>1, ChannelsAssumption, SumZero
  <2>2. Cardinality(Unacknowledged(sending)) = 0
    <3>1. Unacknowledged(sending) = {}
      BY DEF Unacknowledged
    <3> QED
      BY <3>1, FS_EmptySet
  <2> QED
    BY <2>1, <2>2, ChannelsAssumption DEF Buffers
<1> QED
  BY <1>2, <1>3, <1>4 DEF ChannelInv

\* A slot is taken or given back when a message begins or ceases to be pending.
LEMMA PendingOfOne ==
  ASSUME NEW s \in [Msgs -> {"unsent", "pending", "retired"}], NEW m \in Msgs
  PROVE  /\ s[m] # "pending" =>
              Cardinality(Unacknowledged([s EXCEPT ![m] = "pending"]))
                = Cardinality(Unacknowledged(s)) + 1
         /\ s[m] = "pending" =>
              Cardinality(Unacknowledged([s EXCEPT ![m] = "retired"]))
                = Cardinality(Unacknowledged(s)) - 1
         /\ Cardinality(Unacknowledged(s)) \in Nat
         /\ s[m] = "pending" => Cardinality(Unacknowledged(s)) # 0
<1>1. IsFiniteSet(Unacknowledged(s)) /\ Cardinality(Unacknowledged(s)) \in Nat
  <2>1. Unacknowledged(s) \in SUBSET Msgs
    BY DEF Unacknowledged
  <2> QED
    BY <2>1, ChannelsAssumption, FS_Subset, FS_CardinalityType
<1>2. ASSUME s[m] # "pending"
      PROVE  Cardinality(Unacknowledged([s EXCEPT ![m] = "pending"]))
               = Cardinality(Unacknowledged(s)) + 1
  <2>1. /\ Unacknowledged([s EXCEPT ![m] = "pending"]) = Unacknowledged(s) \cup {m}
        /\ m \notin Unacknowledged(s)
    BY <1>2 DEF Unacknowledged
  <2> QED
    BY <1>1, <2>1, FS_AddElement
<1>3. ASSUME s[m] = "pending"
      PROVE  /\ Cardinality(Unacknowledged([s EXCEPT ![m] = "retired"]))
                  = Cardinality(Unacknowledged(s)) - 1
             /\ Cardinality(Unacknowledged(s)) # 0
  <2>1. /\ Unacknowledged([s EXCEPT ![m] = "retired"]) = Unacknowledged(s) \ {m}
        /\ m \in Unacknowledged(s)
    BY <1>3 DEF Unacknowledged
  <2>2. Unacknowledged(s) # {}
    BY <2>1
  <2> QED
    BY <1>1, <2>1, <2>2, FS_RemoveElement, FS_EmptySet
<1> QED
  BY <1>1, <1>2, <1>3

LEMMA SendInv == \A m \in Msgs : ChannelInv /\ Send(m) => ChannelInv'
<1> SUFFICES ASSUME NEW m \in Msgs, ChannelInv, Send(m) PROVE ChannelInv'
  OBVIOUS
<1> USE DEF ChannelInv, Send
<1>1. ChannelTypeOK'
  BY DEF ChannelTypeOK
<1>2. Replayable'
  BY DEF Replayable, Follows
<1>3. OneEffect' /\ AcksAreLogged'
  BY DEF OneEffect, AcksAreLogged, ChannelTypeOK
<1>4. Buffers'
  <2>1. Cardinality(Unacknowledged(sending')) = Cardinality(Unacknowledged(sending)) + 1
        /\ Cardinality(Unacknowledged(sending)) \in Nat
    BY PendingOfOne DEF ChannelTypeOK
  <2> QED
    BY <2>1 DEF Buffers, ChannelTypeOK
<1> QED
  BY <1>1, <1>2, <1>3, <1>4

LEMMA RetireInv == \A m \in Msgs : ChannelInv /\ Retire(m) => ChannelInv'
<1> SUFFICES ASSUME NEW m \in Msgs, ChannelInv, Retire(m) PROVE ChannelInv'
  OBVIOUS
<1> USE DEF ChannelInv, Retire, MayRetire
<1>1. ChannelTypeOK'
  BY DEF ChannelTypeOK
<1>2. Replayable'
  BY DEF Replayable, Follows
<1>3. OneEffect' /\ AcksAreLogged'
  BY DEF OneEffect, AcksAreLogged, ChannelTypeOK
<1>4. Buffers'
  <2>1. Cardinality(Unacknowledged(sending')) = Cardinality(Unacknowledged(sending)) - 1
        /\ Cardinality(Unacknowledged(sending)) \in Nat \ {0}
    BY PendingOfOne DEF ChannelTypeOK
  <2> QED
    BY <2>1 DEF Buffers, ChannelTypeOK
<1> QED
  BY <1>1, <1>2, <1>3, <1>4

LEMMA CreditsInv == ChannelInv /\ (Grant \/ DropCredit) => ChannelInv'
<1> SUFFICES ASSUME ChannelInv, Grant \/ DropCredit PROVE ChannelInv'
  OBVIOUS
<1> USE DEF ChannelInv, Grant, DropCredit, Room
<1>1. ChannelTypeOK'
  BY DEF ChannelTypeOK
<1>2. Replayable' /\ OneEffect' /\ AcksAreLogged'
  BY DEF Replayable, Follows, OneEffect, AcksAreLogged
<1>3. Buffers'
  <2> DEFINE flying == SumOver(wire, Msgs)
  <2>1. flying \in Nat
    BY ChannelsAssumption, SumNatural DEF ChannelTypeOK
  <2>2. /\ outstanding = credits + flying + lost /\ outstanding <= Cap /\ Cap \in Nat
        /\ outstanding \in Nat /\ credits \in Nat /\ lost \in Nat
    BY ChannelsAssumption DEF Buffers, ChannelTypeOK
  <2>3. wire' = wire /\ free' = free /\ sending' = sending /\ window' = window
    OBVIOUS
  <2> HIDE DEF flying
  <2>4. outstanding' = credits' + flying + lost' /\ outstanding' <= Cap
    <3>1. CASE Grant
      BY <2>1, <2>2, <3>1
    <3>2. CASE DropCredit
      BY <2>1, <2>2, <3>2
    <3> QED
      BY <3>1, <3>2
  <2> QED
    BY <2>3, <2>4 DEF Buffers, flying
<1> QED
  BY <1>1, <1>2, <1>3

\* A copy is put on the wire, lost there or taken off it.
LEMMA CopyInv ==
  \A m \in Msgs : ChannelInv /\ (Resend(m) \/ Lose(m) \/ Accept(m)) => ChannelInv'
<1> SUFFICES ASSUME NEW m \in Msgs, ChannelInv, Resend(m) \/ Lose(m) \/ Accept(m)
             PROVE  ChannelInv'
  OBVIOUS
<1> USE DEF ChannelInv
<1> DEFINE flying == SumOver(wire, Msgs)
           flying2 == SumOver(wire', Msgs)
<1>0. /\ wire[m] \in Nat /\ flying \in Nat /\ outstanding = credits + flying + lost
      /\ outstanding \in Nat /\ credits \in Nat /\ lost \in Nat /\ outstanding <= Cap
      /\ free + Cardinality(Unacknowledged(sending)) = window
  BY WireOfOne, 0 \in Nat DEF ChannelTypeOK, Buffers
<1>1. CASE Resend(m)
  <2>1. flying2 = flying + ((wire[m] + 1) - wire[m])
    <3>1. wire[m] + 1 \in Nat
      BY <1>0
    <3>2. wire \in [Msgs -> Nat] /\ wire' = [wire EXCEPT ![m] = wire[m] + 1]
      BY <1>1 DEF Resend, ChannelTypeOK
    <3> QED
      BY <3>1, <3>2, WireOfOne
  <2>2. /\ credits > 0 /\ credits' = credits - 1
        /\ UNCHANGED <<outstanding, lost, free, sending, window>>
    BY <1>1 DEF Resend
  <2> HIDE DEF flying, flying2
  <2>3. outstanding' = credits' + flying2 + lost'
    BY <1>0, <2>1, <2>2
  <2>4. Buffers'
    BY <1>0, <2>2, <2>3 DEF Buffers, flying2
  <2>5. ChannelTypeOK'
    BY <1>1, <2>2 DEF Resend, ChannelTypeOK
  <2> QED
    BY <1>1, <2>4, <2>5 DEF Resend, Replayable, Follows, OneEffect, AcksAreLogged
<1>2. CASE Lose(m)
  <2>1. wire[m] - 1 \in Nat
    BY <1>0, <1>2 DEF Lose
  <2>2. flying2 = flying + ((wire[m] - 1) - wire[m])
    BY <1>2, <2>1, WireOfOne DEF Lose, ChannelTypeOK
  <2>3. /\ wire' \in [Msgs -> Nat] /\ lost' = lost + 1
        /\ UNCHANGED <<outstanding, credits, free, sending, window>>
    BY <1>2, <2>1 DEF Lose, ChannelTypeOK
  <2> HIDE DEF flying, flying2
  <2>4. outstanding' = credits' + flying2 + lost'
    BY <1>0, <2>2, <2>3
  <2>5. Buffers'
    BY <1>0, <2>3, <2>4 DEF Buffers, flying2
  <2> QED
    BY <1>0, <1>2, <2>3, <2>5
       DEF Lose, ChannelTypeOK, Replayable, Follows, OneEffect, AcksAreLogged
<1>3. CASE Accept(m)
  <2>1. wire[m] - 1 \in Nat
    BY <1>0, <1>3 DEF Accept
  <2>2. flying2 = flying + ((wire[m] - 1) - wire[m])
    BY <1>3, <2>1, WireOfOne DEF Accept, ChannelTypeOK
  <2>3. /\ wire' \in [Msgs -> Nat]
        /\ outstanding' = IF outstanding = 0 THEN 0 ELSE outstanding - 1
        /\ UNCHANGED <<credits, lost, free, sending, window>>
    BY <1>3, <2>1 DEF Accept, ChannelTypeOK
  <2>4. flying2 \in Nat
    BY <2>3, ChannelsAssumption, SumNatural
  <2> HIDE DEF flying, flying2
  <2>5. outstanding' = outstanding - 1 /\ outstanding' \in Nat
    BY <1>0, <2>2, <2>3, <2>4
  <2>6. outstanding' = credits' + flying2 + lost' /\ outstanding' <= Cap
    BY <1>0, <2>2, <2>3, <2>5, ChannelsAssumption
  <2>7. Buffers'
    BY <1>0, <2>3, <2>6 DEF Buffers, flying2
  <2>8. ChannelTypeOK'
    BY <1>3, <2>3, <2>5 DEF Accept, ChannelTypeOK
  <2>9. AcksAreLogged'
    BY <1>3 DEF Accept, AcksAreLogged, Known
  <2>10. Replayable' /\ OneEffect'
    BY <1>3 DEF Accept, Replayable, Follows, OneEffect
  <2> QED
    BY <2>7, <2>8, <2>9, <2>10
<1> QED
  BY <1>1, <1>2, <1>3

LEMMA LogInv == \A m \in Msgs : ChannelInv /\ Log(m) => ChannelInv'
<1> SUFFICES ASSUME NEW m \in Msgs, ChannelInv, Log(m) PROVE ChannelInv'
  OBVIOUS
<1> USE DEF ChannelInv, Log
<1>1. /\ log' \in Seq(Msgs) /\ Len(log) \in Nat /\ Len(log') = Len(log) + 1
      /\ \A i \in 1 .. Len(log) : log'[i] = log[i]
      /\ ToSet(log') = ToSet(log) \cup {m}
  BY LogGrows DEF ChannelTypeOK
<1>2. ChannelTypeOK'
  BY <1>1 DEF ChannelTypeOK
<1>3. Replayable'
  <2>1. Len(state) \in Nat /\ Len(told) \in Nat
    BY LenProperties DEF ChannelTypeOK
  <2>2. state' = state /\ told' = told
    OBVIOUS
  <2> QED
    BY <1>1, <2>1, <2>2 DEF Replayable, Follows
<1>4. OneEffect'
  BY DEF OneEffect
<1>5. AcksAreLogged'
  BY <1>1 DEF AcksAreLogged
<1>6. Buffers'
  BY DEF Buffers
<1> QED
  BY <1>2, <1>3, <1>4, <1>5, <1>6

LEMMA DeliverInv == \A m \in Msgs : ChannelInv /\ Deliver(m) => ChannelInv'
<1> SUFFICES ASSUME NEW m \in Msgs, ChannelInv, Deliver(m) PROVE ChannelInv'
  OBVIOUS
<1> USE DEF ChannelInv, Deliver, Spent
<1>1. /\ state' \in Seq(Msgs) /\ Len(state) \in Nat /\ Len(state') = Len(state) + 1
      /\ \A i \in 1 .. Len(state) : state'[i] = state[i]
      /\ state'[Len(state) + 1] = m
  BY LogGrows DEF ChannelTypeOK
<1>2. Len(log) \in Nat /\ Len(state) < Len(log) /\ m = log[Len(state) + 1]
  BY LenProperties DEF Deliverable, ChannelTypeOK
<1>3. ChannelTypeOK'
  BY <1>1 DEF ChannelTypeOK
<1>4. Replayable'
  <2>1. ASSUME NEW i \in 1 .. Len(state') PROVE state'[i] = log[i]
    <3>1. CASE i = Len(state) + 1
      BY <1>1, <1>2, <3>1
    <3>2. CASE i \in 1 .. Len(state)
      BY <1>1, <3>2 DEF Replayable, Follows
    <3> QED
      BY <1>1, <3>1, <3>2
  <2>2. log' = log /\ told' = told
    OBVIOUS
  <2> QED
    BY <1>1, <1>2, <2>1, <2>2 DEF Replayable, Follows
<1>5. OneEffect'
  BY DEF OneEffect, ChannelTypeOK
<1>6. AcksAreLogged' /\ Buffers'
  BY DEF AcksAreLogged, Buffers
<1> QED
  BY <1>3, <1>4, <1>5, <1>6

LEMMA OtherInv ==
  ChannelInv /\ (Emit \/ CrashProcess \/ \E m \in Msgs : LoseAck(m)) => ChannelInv'
<1> SUFFICES ASSUME ChannelInv, Emit \/ CrashProcess \/ \E m \in Msgs : LoseAck(m)
             PROVE  ChannelInv'
  OBVIOUS
<1> USE DEF ChannelInv
<1>1. CASE Emit
  BY <1>1 DEF Emit, ChannelTypeOK, Replayable, Follows, OneEffect, AcksAreLogged, Buffers
<1>2. CASE CrashProcess
  <2>1. <<>> \in Seq(Msgs) /\ Len(<<>>) = 0 /\ Len(log) \in Nat
    BY LenProperties DEF ChannelTypeOK
  <2> QED
    BY <1>2, <2>1
       DEF CrashProcess, ChannelTypeOK, Replayable, Follows, OneEffect, AcksAreLogged, Buffers
<1>3. CASE \E m \in Msgs : LoseAck(m)
  BY <1>3 DEF LoseAck, ChannelTypeOK, Replayable, Follows, OneEffect, AcksAreLogged, Buffers
<1> QED
  BY <1>1, <1>2, <1>3

LEMMA ChannelNextInv == ChannelInv /\ [ChannelNext]_channelVars => ChannelInv'
<1> SUFFICES ASSUME ChannelInv, [ChannelNext]_channelVars PROVE ChannelInv'
  OBVIOUS
<1>1. CASE ChannelNext
  BY <1>1, SendInv, RetireInv, CreditsInv, CopyInv, LogInv, DeliverInv, OtherInv
     DEF ChannelNext
<1>2. CASE UNCHANGED channelVars
  BY <1>2 DEF channelVars, ChannelInv, ChannelTypeOK, Replayable, Follows, OneEffect,
              AcksAreLogged, Buffers
<1> QED
  BY <1>1, <1>2

LEMMA ChannelInvariant == ChannelSpec => []ChannelInv
  BY ChannelInitInv, ChannelNextInv, PTL DEF ChannelSpec

\* grant, spend and accept (backpressure.rs:161-188), send and complete (send_window.rs:
\* 173-211): for any messages, window and capacity, every unit of the buffer is a credit,
\* a copy or a loss, and every slot an unacknowledged message.
THEOREM EveryUnitIsAccountedFor == ChannelSpec => []BuffersAreAccountedFor
<1>1. ASSUME ChannelInv PROVE BuffersAreAccountedFor
  <2>1. DOMAIN wire = Msgs
    BY <1>1 DEF ChannelInv, ChannelTypeOK
  <2>2. InFlight = SumOver(wire, Msgs)
    BY <2>1, SumFunctionIsSum DEF InFlight
  <2> QED
    BY <1>1, <2>2 DEF ChannelInv, Buffers, BuffersAreAccountedFor, Unacknowledged
<1> QED
  BY <1>1, ChannelInvariant, PTL

\* apply (at_most_once.rs:89), retire (at_least_once.rs:115) and log (message_log.rs:183):
\* whatever is lost, repeated or replayed, no effect happens twice and no message is
\* retired that is not in the log.
THEOREM EffectsHappenOnce == ChannelSpec => []EffectsAreSafe
<1>1. ASSUME ChannelInv PROVE EffectsAreSafe
  BY <1>1 DEF ChannelInv, OneEffect, AcksAreLogged, EffectsAreSafe
<1> QED
  BY <1>1, ChannelInvariant, PTL

\* log before deliver (message_log.rs:110-128): however often the process crashes and
\* replays, the state it told others of is one it has or gets back to.
THEOREM RecoveryLeavesNoOrphan == ChannelSpec => []NoOrphans
<1>1. ASSUME ChannelInv PROVE NoOrphans
  <2>1. /\ state \in Seq(Msgs) /\ told \in Seq(Msgs) /\ log \in Seq(Msgs)
        /\ Len(state) \in Nat /\ Len(told) \in Nat /\ Len(log) \in Nat
    BY <1>1, LenProperties DEF ChannelInv, ChannelTypeOK
  <2>2. Follows(state, log) /\ Follows(told, log)
    BY <1>1 DEF ChannelInv, Replayable
  <2>3. CASE Len(state) < Len(told)
    <3>1. \A i \in 1 .. Len(state) : state[i] = told[i]
      BY <2>1, <2>2, <2>3 DEF Follows
    <3>2. IsPrefix(state, told)
      BY <2>1, <2>3, <3>1, PrefixByItems
    <3> QED
      BY <2>2, <2>3, <3>2 DEF NoOrphans, Follows
  <2>4. CASE ~ (Len(state) < Len(told))
    <3>1. Len(told) <= Len(state) /\ \A i \in 1 .. Len(told) : told[i] = state[i]
      BY <2>1, <2>2, <2>4 DEF Follows
    <3>2. IsPrefix(told, state)
      BY <2>1, <3>1, PrefixByItems
    <3> QED
      BY <2>4, <3>2 DEF NoOrphans
  <2> QED
    BY <2>3, <2>4
<1> QED
  BY <1>1, ChannelInvariant, PTL

-----------------------------------------------------------------------------
\* The transactions.
TxnTypeOK ==
  /\ mode \in {"ordered", "detected", "optimistic"} /\ needs \in Workloads
  /\ phase \in [Txns -> {"idle", "growing", "valid", "pending", "externalized",
                         "shrinking", "done"}]
  /\ plan \in [Txns -> Seq(Keys)] /\ held \in [Txns -> Seq(Keys)]
  /\ seen \in [Txns -> [Keys -> Txns \cup {Nobody}]]
  /\ store \in [Shards -> [Keys -> Txns \cup {Nobody}]]
  /\ order \in Seq(Txns)
  /\ edges \in [Txns -> Txns \cup {Nobody}] /\ victim \in Txns \cup {Nobody}
  /\ left \in [Txns -> -1 .. Epsilon]
  /\ version \in Nat /\ snapshot \in [Txns -> Nat] /\ latch \in Txns \cup {Nobody}

Past(t) == t \in ToSet(order)

Before(t, u) == \E m, n \in DOMAIN order : m < n /\ order[m] = t /\ order[n] = u

Revealed == {"externalized", "shrinking", "done"}

Reached(t) ==
  \/ phase[t] \in {"valid", "pending"} \cup Revealed
  \/ Locking /\ phase[t] = "growing" /\ plan[t] = <<>>

\* In the order are exactly the transactions that reached their lock point or validation.
Ordered ==
  /\ \A m, n \in DOMAIN order : order[m] = order[n] => m = n
  /\ \A t \in Txns : Past(t) <=> Reached(t)

\* What a transaction has and has yet to take is what it needs, until it gives back.
Progress(t) ==
  /\ phase[t] = "idle" => plan[t] = <<>> /\ held[t] = <<>>
  /\ phase[t] \in {"growing", "valid", "pending"} =>
       ToSet(plan[t]) \cup ToSet(held[t]) = needs[t]
  /\ phase[t] # "growing" => plan[t] = <<>>
  /\ phase[t] \in Revealed => ToSet(held[t]) \subseteq needs[t] /\ left[t] = -1
  /\ phase[t] = "done" => held[t] = <<>>

\* The lock table.
Exclusive ==
  Locking => \A t, u \in Txns : \A k \in ToSet(held[t]) : k \in ToSet(held[u]) => t = u

\* The latch of optimistic transactions.
Latched ==
  ~ Locking => \A t \in Txns :
    /\ phase[t] \in {"valid", "pending", "externalized", "shrinking"} => latch = t
    /\ snapshot[t] <= version

\* A victim is one of some transactions that wait for each other.
Doomed ==
  victim # Nobody =>
    /\ mode = "detected" /\ \A t \in Txns : edges[t] = Nobody
    /\ \E C \in SUBSET Txns :
         /\ victim \in C
         /\ \A t \in C : Blocked(t) /\ \E u \in C : u \in Holders(Head(plan[t]))

\* A claim is about a wait that goes on, or about one who is past its lock point, and
\* then comes before the one that waited for it.
Edged ==
  \A t \in Txns : edges[t] # Nobody =>
    /\ mode = "detected"
    /\ \/ Blocked(t) /\ edges[t] \in Holders(Head(plan[t]))
       \/ Past(edges[t]) /\ (Past(t) => Before(edges[t], t))

Standing == Ordered /\ (\A t \in Txns : Progress(t)) /\ Exclusive /\ Latched

\* Who has a key and is in the order is the last in it that needs the key.
HoldersAreLast ==
  \A t \in Txns : Past(t) => \A k \in ToSet(held[t]) : LastWriter(k, Len(order)) = t

\* A key nobody in the order has any more has the value of the last that needs it.
FreeIsCurrent ==
  \A k \in Keys : (\A t \in Txns : Past(t) => k \notin ToSet(held[t]))
                    => Get(k) = LastWriter(k, Len(order))

\* Until its lock point, or while its validation would succeed, what t has read is such
\* a value.
GrowingIsCurrent ==
  \A t \in Txns :
    /\ phase[t] = "growing" /\ ~ Past(t)
    /\ Locking \/ (latch = Nobody /\ snapshot[t] = version)
    => \A k \in ToSet(held[t]) : seen[t][k] = LastWriter(k, Len(order))

TxnInv == TxnTypeOK /\ Standing /\ Doomed /\ Edged
          /\ HoldersAreLast /\ FreeIsCurrent /\ GrowingIsCurrent /\ Serializable

-----------------------------------------------------------------------------
LEMMA GreatestMember ==
  ASSUME NEW n \in Nat, NEW T \in SUBSET (1 .. n), T # {}
  PROVE  \E x \in T : \A y \in T : y <= x
<1> DEFINE gaps == {n - x : x \in T}
<1>0. \A x \in T : x \in 1 .. n /\ n - x \in Nat
  OBVIOUS
<1>1. gaps \in SUBSET Nat /\ gaps # {}
  BY <1>0
<1>2. PICK gap \in gaps : \A other \in gaps : gap <= other
  BY <1>1, LeastMember
<1>3. PICK x \in T : gap = n - x
  BY <1>2
<1>4. ASSUME NEW y \in T PROVE y <= x
  BY <1>2, <1>3, n - y \in gaps
<1> QED
  BY <1>4

\* The maximum is the member that none exceeds.
LEMMA MaxIs ==
  ASSUME NEW T \in SUBSET Nat, NEW x \in T, \A y \in T : y <= x
  PROVE  Max(T) = x
<1>1. x \in T /\ \A y \in T : x >= y
  OBVIOUS
<1>2. Max(T) \in T /\ \A y \in T : Max(T) >= y
  BY <1>1 DEF Max
<1>3. Max(T) \in Nat /\ x \in Nat
  BY <1>2
<1> QED
  BY <1>1, <1>2, <1>3

\* The keys of a sequence, whatever is appended to or taken from it.
LEMMA TailKeys ==
  ASSUME NEW S, NEW s \in Seq(S), s # <<>>
  PROVE  /\ Head(s) \in S /\ Tail(s) \in Seq(S)
         /\ ToSet(s) = {Head(s)} \cup ToSet(Tail(s))
         /\ Len(s) = 1 <=> Tail(s) = <<>>
<1>1. Len(s) \in Nat \ {0} /\ Head(s) = s[1] /\ \A i \in 1 .. Len(s) : s[i] \in S
  OBVIOUS
<1>2. /\ Tail(s) \in Seq(S) /\ Len(Tail(s)) = Len(s) - 1
      /\ \A i \in 1 .. Len(s) - 1 : Tail(s)[i] = s[i + 1]
  BY <1>1
<1>3. DOMAIN s = 1 .. Len(s) /\ DOMAIN Tail(s) = 1 .. Len(s) - 1
  BY <1>2
<1>4. ASSUME NEW k \in ToSet(s) PROVE k \in {Head(s)} \cup ToSet(Tail(s))
  <2>1. PICK i \in 1 .. Len(s) : k = s[i]
    BY <1>3 DEF ToSet
  <2>2. CASE i = 1
    BY <1>1, <2>1, <2>2
  <2>3. CASE i # 1
    <3>1. i - 1 \in DOMAIN Tail(s) /\ Tail(s)[i - 1] = k
      BY <1>1, <1>2, <1>3, <2>1, <2>3
    <3> QED
      BY <3>1 DEF ToSet
  <2> QED
    BY <2>2, <2>3
<1>5. ASSUME NEW k \in {Head(s)} \cup ToSet(Tail(s)) PROVE k \in ToSet(s)
  <2>1. CASE k = Head(s)
    BY <1>1, <1>3, <2>1 DEF ToSet
  <2>2. CASE k \in ToSet(Tail(s))
    <3>1. PICK i \in 1 .. Len(s) - 1 : k = Tail(s)[i]
      BY <1>3, <2>2 DEF ToSet
    <3>2. i + 1 \in DOMAIN s /\ s[i + 1] = k
      BY <1>1, <1>2, <1>3, <3>1
    <3> QED
      BY <3>2 DEF ToSet
  <2> QED
    BY <1>5, <2>1, <2>2
<1>6. Len(s) = 1 <=> Len(Tail(s)) = 0
  BY <1>1, <1>2
<1>7. Len(Tail(s)) = 0 <=> Tail(s) = <<>>
  BY <1>2, EmptySeq
<1> QED
  BY <1>1, <1>2, <1>4, <1>5, <1>6, <1>7

\* What is appended joins the members.
LEMMA AppendedKeys ==
  ASSUME NEW S, NEW s \in Seq(S), NEW k \in S
  PROVE  Append(s, k) \in Seq(S) /\ ToSet(Append(s, k)) = ToSet(s) \cup {k}
<1>1. /\ Append(s, k) \in Seq(S) /\ DOMAIN s = 1 .. Len(s) /\ Len(s) \in Nat
      /\ DOMAIN Append(s, k) = 1 .. Len(s) + 1
      /\ \A i \in 1 .. Len(s) : Append(s, k)[i] = s[i]
      /\ Append(s, k)[Len(s) + 1] = k
  OBVIOUS
<1>2. ASSUME NEW x \in ToSet(Append(s, k)) PROVE x \in ToSet(s) \cup {k}
  <2>1. PICK i \in 1 .. Len(s) + 1 : x = Append(s, k)[i]
    BY <1>1 DEF ToSet
  <2>2. CASE i = Len(s) + 1
    BY <1>1, <2>1, <2>2
  <2>3. CASE i # Len(s) + 1
    <3>1. i \in DOMAIN s /\ x = s[i]
      BY <1>1, <2>1, <2>3
    <3> QED
      BY <3>1 DEF ToSet
  <2> QED
    BY <2>2, <2>3
<1>3. ASSUME NEW x \in ToSet(s) \cup {k} PROVE x \in ToSet(Append(s, k))
  <2>1. CASE x = k
    BY <1>1, <2>1 DEF ToSet
  <2>2. CASE x \in ToSet(s)
    <3>1. PICK i \in DOMAIN s : x = s[i]
      BY <2>2 DEF ToSet
    <3>2. i \in DOMAIN Append(s, k) /\ Append(s, k)[i] = x
      BY <1>1, <3>1
    <3> QED
      BY <3>2 DEF ToSet
  <2> QED
    BY <1>3, <2>1, <2>2
<1> QED
  BY <1>1, <1>2, <1>3

\* Removing at a position loses that key at most.
LEMMA RemovedKeys ==
  ASSUME NEW S, NEW s \in Seq(S), NEW i \in DOMAIN s
  PROVE  /\ RemoveAt(s, i) \in Seq(S)
         /\ ToSet(RemoveAt(s, i)) \subseteq ToSet(s)
         /\ ToSet(s) \ {s[i]} \subseteq ToSet(RemoveAt(s, i))
<1> DEFINE r == RemoveAt(s, i)
<1>1. /\ r \in Seq(S) /\ Len(r) = Len(s) - 1 /\ Len(s) \in Nat
      /\ DOMAIN s = 1 .. Len(s) /\ DOMAIN r = 1 .. Len(s) - 1
      /\ i \in 1 .. Len(s)
      /\ \A j \in 1 .. Len(s) - 1 : r[j] = IF j < i THEN s[j] ELSE s[j + 1]
  <2> DEFINE a == SubSeq(s, 1, i - 1)
             b == SubSeq(s, i + 1, Len(s))
  <2>1. Len(s) \in Nat /\ DOMAIN s = 1 .. Len(s) /\ i \in 1 .. Len(s)
    OBVIOUS
  <2>2. /\ a \in Seq(S) /\ Len(a) = i - 1 /\ b \in Seq(S) /\ Len(b) = Len(s) - i
        /\ \A j \in 1 .. i - 1 : a[j] = s[j]
        /\ \A j \in 1 .. Len(s) - i : b[j] = s[i + j]
    BY <2>1
  <2> HIDE DEF a, b
  <2>3. /\ a \o b \in Seq(S) /\ Len(a \o b) = Len(a) + Len(b)
        /\ \A j \in 1 .. Len(a) + Len(b) :
             (a \o b)[j] = IF j <= Len(a) THEN a[j] ELSE b[j - Len(a)]
    BY <2>2, ConcatProperties
  <2>4. r = a \o b
    BY DEF RemoveAt, a, b
  <2> HIDE DEF r
  <2>lens. Len(a) = i - 1 /\ Len(a) + Len(b) = Len(s) - 1
    BY <2>1, <2>2
  <2>5. r \in Seq(S) /\ Len(r) = Len(s) - 1
    BY <2>3, <2>4, <2>lens
  <2>6. ASSUME NEW j \in 1 .. Len(s) - 1 PROVE r[j] = IF j < i THEN s[j] ELSE s[j + 1]
    <3>1. r[j] = IF j <= i - 1 THEN a[j] ELSE b[j - (i - 1)]
      BY <2>3, <2>4, <2>lens
    <3>2. CASE j < i
      BY <2>1, <2>2, <3>1, <3>2
    <3>3. CASE ~ (j < i)
      <4>1. r[j] = b[j - (i - 1)] /\ j - (i - 1) \in 1 .. Len(s) - i
        BY <2>1, <3>1, <3>3
      <4>2. r[j] = s[i + (j - (i - 1))] /\ i + (j - (i - 1)) = j + 1
        BY <2>1, <2>2, <4>1
      <4> QED
        BY <4>2, <3>3
    <3> QED
      BY <3>2, <3>3
  <2>7. DOMAIN r = 1 .. Len(s) - 1
    BY <2>5
  <2> QED
    BY <2>1, <2>5, <2>6, <2>7
<1> HIDE DEF r
<1>2. ASSUME NEW x \in ToSet(r) PROVE x \in ToSet(s)
  <2>1. PICK j \in 1 .. Len(s) - 1 : x = r[j]
    BY <1>1 DEF ToSet
  <2>2. /\ j \in DOMAIN s /\ j + 1 \in DOMAIN s
        /\ x = s[j] \/ x = s[j + 1]
    BY <1>1, <2>1
  <2> QED
    BY <2>2 DEF ToSet
<1>3. ASSUME NEW x \in ToSet(s), x # s[i] PROVE x \in ToSet(r)
  <2>1. PICK j \in 1 .. Len(s) : x = s[j]
    BY <1>1 DEF ToSet
  <2>2. CASE j < i
    <3>1. j \in DOMAIN r /\ r[j] = x
      BY <1>1, <2>1, <2>2
    <3> QED
      BY <3>1 DEF ToSet
  <2>3. CASE j > i
    <3>1. j - 1 \in DOMAIN r /\ r[j - 1] = x
      BY <1>1, <2>1, <2>3
    <3> QED
      BY <3>1 DEF ToSet
  <2> QED
    BY <1>1, <1>3, <2>1, <2>2, <2>3
<1> QED
  BY <1>1, <1>2, <1>3 DEF r

\* Nothing is in the empty sequence.
LEMMA NoKeys == ToSet(<<>>) = {}
BY DEF ToSet

\* A sequence of all members of a set, each once, is one of SetToSeqs.
LEMMA AllInSequence ==
  ASSUME NEW S, IsFiniteSet(S), S # {}, NEW p \in SetToSeqs(S)
  PROVE  p \in Seq(S) /\ ToSet(p) = S /\ p # <<>>
<1> DEFINE n == Cardinality(S)
<1>1. /\ p \in [1 .. n -> S] /\ \A i, j \in 1 .. n : i # j => p[i] # p[j]
      /\ n \in Nat \ {0}
  BY FS_CardinalityType, FS_EmptySet DEF SetToSeqs
<1>2. p \in Injection(1 .. n, S)
  BY <1>1 DEF Injection, IsInjective
<1>3. IsFiniteSet(1 .. n) /\ Cardinality(1 .. n) = n
  BY <1>1, FS_Interval, 1 \in Int /\ n \in Int
<1>4. p \in Surjection(1 .. n, S)
  BY <1>2, <1>3, FS_Injection
<1>5. p \in Seq(S) /\ Len(p) = n /\ DOMAIN p = 1 .. n
  BY <1>1
<1>6. ToSet(p) = S
  BY <1>4, <1>5 DEF ToSet, Surjection
<1> QED
  BY <1>1, <1>5, <1>6

-----------------------------------------------------------------------------
LEMMA Routed ==
  ASSUME NEW k \in Keys
  PROVE  /\ k % ShardCount \in Shards /\ Get(k) = store[k % ShardCount][k]
         /\ \A s \in Shards : Admits(s, k) <=> s = k % ShardCount
<1>1. k \in Nat /\ ShardCount \in Nat \ {0}
  BY TransactionsAssumption
<1>2. k % ShardCount \in Shards
  BY <1>1 DEF Shards
<1>3. \A s \in Shards : Admits(s, k) <=> s = k % ShardCount
  BY DEF Admits
<1>4. (CHOOSE s \in Shards : Admits(s, k)) = k % ShardCount
  BY <1>2, <1>3
<1> QED
  BY <1>2, <1>3, <1>4 DEF Get

\* A value that is applied is found at its key, and nothing else moves.
LEMMA Written ==
  ASSUME TxnTypeOK, NEW t \in Txns, NEW k \in Keys, Applied(t, k)
  PROVE  /\ store' \in [Shards -> [Keys -> Txns \cup {Nobody}]]
         /\ Get(k)' = t
         /\ \A j \in Keys \ {k} : Get(j)' = Get(j)
<1> DEFINE s == k % ShardCount
<1>1. s \in Shards /\ store' = [store EXCEPT ![s][k] = t]
  BY Routed DEF Applied
<1>2. store \in [Shards -> [Keys -> Txns \cup {Nobody}]]
  BY DEF TxnTypeOK
<1> HIDE DEF s
<1>3. store' \in [Shards -> [Keys -> Txns \cup {Nobody}]]
  BY <1>1, <1>2
<1>4. store'[s][k] = t
  BY <1>1, <1>2
<1>5. ASSUME NEW j \in Keys \ {k}, NEW r \in Shards PROVE store'[r][j] = store[r][j]
  BY <1>1, <1>2
<1>6. \A j \in Keys : j % ShardCount \in Shards /\ Get(j) = store[j % ShardCount][j]
                      /\ Get(j)' = store'[j % ShardCount][j]
  <2>1. ASSUME NEW j \in Keys
        PROVE  (CHOOSE r \in Shards : Admits(r, j)) = j % ShardCount /\ j % ShardCount \in Shards
    BY Routed
  <2> QED
    BY <2>1 DEF Get
<1> QED
  BY <1>3, <1>4, <1>5, <1>6 DEF s

\* A plan names the keys that are needed.
LEMMA Planned ==
  ASSUME TxnTypeOK, NEW t \in Txns
  PROVE  /\ needs[t] \in SUBSET Keys
         /\ \A p \in Plans(t) : p \in Seq(Keys) /\ p # <<>> /\ ToSet(p) = needs[t]
<1>1. needs[t] \in SUBSET Keys /\ needs[t] # {}
  BY TransactionsAssumption DEF TxnTypeOK
<1>2. IsFiniteSet(needs[t])
  BY <1>1, FS_Subset, TransactionsAssumption
<1>3. ASSUME NEW p \in Plans(t) PROVE p \in Seq(Keys) /\ p # <<>> /\ ToSet(p) = needs[t]
  <2>1. p \in SetToSeqs(needs[t])
    BY DEF Plans
  <2>2. p \in Seq(needs[t]) /\ ToSet(p) = needs[t] /\ p # <<>>
    BY <1>1, <1>2, <2>1, AllInSequence
  <2>3. p \in Seq(Keys)
    BY <1>1, <2>2
  <2> QED
    BY <2>2, <2>3
<1> QED
  BY <1>1, <1>3

-----------------------------------------------------------------------------
\* Where a transaction can be.
Phases == {"idle", "growing", "valid", "pending", "externalized", "shrinking", "done"}

\* What a step does to the keys that t has to come and has.
LEMMA BeginKeys ==
  ASSUME TxnTypeOK, NEW t \in Txns, Begin(t)
  PROVE  /\ plan' \in [Txns -> Seq(Keys)] /\ plan'[t] # <<>> /\ ToSet(plan'[t]) = needs[t]
         /\ \A u \in Txns \ {t} : plan'[u] = plan[u]
<1>1. PICK p \in Plans(t) : plan' = [plan EXCEPT ![t] = p]
  BY DEF Begin
<1>2. p \in Seq(Keys) /\ p # <<>> /\ ToSet(p) = needs[t]
  BY Planned
<1>3. plan \in [Txns -> Seq(Keys)]
  BY DEF TxnTypeOK
<1> QED
  BY <1>1, <1>2, <1>3

\* Acquire and Read.
Takes(t) ==
  /\ plan[t] # <<>>
  /\ held' = [held EXCEPT ![t] = Append(@, Head(plan[t]))]
  /\ seen' = [seen EXCEPT ![t][Head(plan[t])] = Get(Head(plan[t]))]
  /\ plan' = [plan EXCEPT ![t] = Tail(@)]

\* The key that comes next moves from the plan to the held ones, with its value.
LEMMA TakenKeys ==
  ASSUME TxnTypeOK, NEW t \in Txns, Takes(t)
  PROVE  /\ plan' \in [Txns -> Seq(Keys)] /\ held' \in [Txns -> Seq(Keys)]
         /\ seen' \in [Txns -> [Keys -> Txns \cup {Nobody}]]
         /\ Head(plan[t]) \in Keys
         /\ ToSet(plan[t]) = {Head(plan[t])} \cup ToSet(plan'[t])
         /\ ToSet(held'[t]) = ToSet(held[t]) \cup {Head(plan[t])}
         /\ Len(plan[t]) = 1 <=> plan'[t] = <<>>
         /\ seen'[t][Head(plan[t])] = Get(Head(plan[t]))
         /\ \A k \in Keys \ {Head(plan[t])} : seen'[t][k] = seen[t][k]
         /\ \A u \in Txns \ {t} :
              plan'[u] = plan[u] /\ held'[u] = held[u] /\ seen'[u] = seen[u]
<1> DEFINE k == Head(plan[t])
<1>1. /\ plan \in [Txns -> Seq(Keys)] /\ held \in [Txns -> Seq(Keys)]
      /\ seen \in [Txns -> [Keys -> Txns \cup {Nobody}]]
      /\ store \in [Shards -> [Keys -> Txns \cup {Nobody}]]
  BY DEF TxnTypeOK
<1>2. plan[t] \in Seq(Keys) /\ held[t] \in Seq(Keys) /\ plan[t] # <<>>
  BY <1>1 DEF Takes
<1>3. /\ k \in Keys /\ Tail(plan[t]) \in Seq(Keys)
      /\ ToSet(plan[t]) = {k} \cup ToSet(Tail(plan[t]))
      /\ Len(plan[t]) = 1 <=> Tail(plan[t]) = <<>>
  BY <1>2, TailKeys
<1>4. Append(held[t], k) \in Seq(Keys) /\ ToSet(Append(held[t], k)) = ToSet(held[t]) \cup {k}
  BY <1>2, <1>3, AppendedKeys
<1>5. Get(k) \in Txns \cup {Nobody}
  BY <1>1, <1>3, Routed
<1>6. /\ held' = [held EXCEPT ![t] = Append(held[t], k)]
      /\ seen' = [seen EXCEPT ![t] = [seen[t] EXCEPT ![k] = Get(k)]]
      /\ plan' = [plan EXCEPT ![t] = Tail(plan[t])]
  BY DEF Takes
<1> HIDE DEF k
<1>7. plan' \in [Txns -> Seq(Keys)] /\ plan'[t] = Tail(plan[t])
  BY <1>1, <1>3, <1>6
<1>8. held' \in [Txns -> Seq(Keys)] /\ held'[t] = Append(held[t], k)
  BY <1>1, <1>4, <1>6
<1>9. /\ seen' \in [Txns -> [Keys -> Txns \cup {Nobody}]]
      /\ seen'[t][k] = Get(k) /\ \A j \in Keys \ {k} : seen'[t][j] = seen[t][j]
  BY <1>1, <1>3, <1>5, <1>6
<1>10. \A u \in Txns \ {t} : plan'[u] = plan[u] /\ held'[u] = held[u] /\ seen'[u] = seen[u]
  BY <1>1, <1>6
<1> QED
  BY <1>3, <1>4, <1>7, <1>8, <1>9, <1>10 DEF k

\* Who drops everything holds nothing and is idle.
LEMMA DroppedKeys ==
  ASSUME TxnTypeOK, NEW t \in Txns, Dropped(t)
  PROVE  /\ plan' \in [Txns -> Seq(Keys)] /\ held' \in [Txns -> Seq(Keys)]
         /\ seen' \in [Txns -> [Keys -> Txns \cup {Nobody}]]
         /\ phase' \in [Txns -> Phases]
         /\ phase'[t] = "idle" /\ plan'[t] = <<>> /\ held'[t] = <<>>
         /\ \A u \in Txns \ {t} :
              /\ phase'[u] = phase[u]
              /\ plan'[u] = plan[u] /\ held'[u] = held[u] /\ seen'[u] = seen[u]
<1>1. /\ plan \in [Txns -> Seq(Keys)] /\ held \in [Txns -> Seq(Keys)]
      /\ seen \in [Txns -> [Keys -> Txns \cup {Nobody}]] /\ phase \in [Txns -> Phases]
  BY DEF TxnTypeOK, Phases
<1>2. <<>> \in Seq(Keys) /\ [k \in Keys |-> Nobody] \in [Keys -> Txns \cup {Nobody}]
      /\ "idle" \in Phases
  BY EmptySeq DEF Phases
<1>3. /\ phase' = [phase EXCEPT ![t] = "idle"]
      /\ plan' = [plan EXCEPT ![t] = <<>>] /\ held' = [held EXCEPT ![t] = <<>>]
      /\ seen' = [seen EXCEPT ![t] = [k \in Keys |-> Nobody]]
  BY DEF Dropped
<1>4. plan' \in [Txns -> Seq(Keys)] /\ held' \in [Txns -> Seq(Keys)]
  BY <1>1, <1>2, <1>3
<1>5. seen' \in [Txns -> [Keys -> Txns \cup {Nobody}]] /\ phase' \in [Txns -> Phases]
  BY <1>1, <1>2, <1>3
<1> QED
  BY <1>1, <1>3, <1>4, <1>5

\* Release and WriteBack: the value at one key that t holds is replaced.
Gives(t, k) ==
  /\ Applied(t, k) /\ k \in ToSet(held[t])
  /\ held' \in [Txns -> Seq(Keys)]
  /\ \A u \in Txns \ {t} : held'[u] = held[u]
  /\ ToSet(held'[t]) \subseteq ToSet(held[t])
  /\ ToSet(held[t]) \ {k} \subseteq ToSet(held'[t])

\* Plans and holdings are about keys.
LEMMA HeldAreKeys ==
  ASSUME TxnTypeOK, NEW t \in Txns
  PROVE  ToSet(held[t]) \subseteq Keys /\ ToSet(plan[t]) \subseteq Keys
<1>1. held[t] \in Seq(Keys) /\ plan[t] \in Seq(Keys)
  BY DEF TxnTypeOK
<1>2. ASSUME NEW s \in Seq(Keys) PROVE ToSet(s) \subseteq Keys
  BY DEF ToSet
<1> QED
  BY <1>1, <1>2

\* A release gives one key back.
LEMMA ReleasedKeys ==
  ASSUME TxnTypeOK, NEW t \in Txns, Release(t)
  PROVE  \E k \in Keys : Gives(t, k)
<1>1. PICK i \in DOMAIN held[t] :
        Applied(t, held[t][i]) /\ held' = [held EXCEPT ![t] = RemoveAt(held[t], i)]
  BY DEF Release
<1> DEFINE k == held[t][i]
<1>2. held \in [Txns -> Seq(Keys)] /\ held[t] \in Seq(Keys)
  BY DEF TxnTypeOK
<1>3. /\ RemoveAt(held[t], i) \in Seq(Keys)
      /\ ToSet(RemoveAt(held[t], i)) \subseteq ToSet(held[t])
      /\ ToSet(held[t]) \ {k} \subseteq ToSet(RemoveAt(held[t], i))
  BY <1>2, RemovedKeys
<1>4. k \in ToSet(held[t]) /\ k \in Keys
  BY <1>2 DEF ToSet
<1>5. /\ held' \in [Txns -> Seq(Keys)] /\ held'[t] = RemoveAt(held[t], i)
      /\ \A u \in Txns \ {t} : held'[u] = held[u]
  BY <1>1, <1>2, <1>3
<1> QED
  BY <1>1, <1>3, <1>4, <1>5 DEF Gives

\* A write-back gives one key back.
LEMMA WrittenKeys ==
  ASSUME TxnTypeOK, NEW t \in Txns, WriteBack(t)
  PROVE  \E k \in Keys : Gives(t, k)
<1>1. /\ held[t] # <<>> /\ Applied(t, Head(held[t]))
      /\ held' = [held EXCEPT ![t] = Tail(held[t])]
  BY DEF WriteBack
<1> DEFINE k == Head(held[t])
<1>2. held \in [Txns -> Seq(Keys)] /\ held[t] \in Seq(Keys)
  BY DEF TxnTypeOK
<1>3. /\ k \in Keys /\ Tail(held[t]) \in Seq(Keys)
      /\ ToSet(held[t]) = {k} \cup ToSet(Tail(held[t]))
  BY <1>1, <1>2, TailKeys
<1>4. /\ held' \in [Txns -> Seq(Keys)] /\ held'[t] = Tail(held[t])
      /\ \A u \in Txns \ {t} : held'[u] = held[u]
  BY <1>1, <1>2, <1>3
<1> QED
  BY <1>1, <1>3, <1>4 DEF Gives

-----------------------------------------------------------------------------
\* The walk along the edges.
After(u) == IF u = Nobody THEN Nobody ELSE edges[u]

IsWalk(walk, t, n) == walk = [m \in 0 .. n |-> IF m = 0 THEN t ELSE After(walk[m - 1])]

\* The walk of detect is the function its recursion describes.
LEMMA WalkExists ==
  ASSUME NEW t, NEW n \in Nat
  PROVE  \E walk : IsWalk(walk, t, n)
<1> DEFINE T == {m \in Nat : \E walk : IsWalk(walk, t, m)}
<1>1. 0 \in T
  <2> DEFINE walk == [m \in 0 .. 0 |-> t]
  <2>1. walk = [m \in 0 .. 0 |-> IF m = 0 THEN t ELSE After(walk[m - 1])]
    OBVIOUS
  <2> QED
    BY <2>1 DEF IsWalk
<1>2. ASSUME NEW m \in T PROVE m + 1 \in T
  <2>1. PICK walk : IsWalk(walk, t, m)
    OBVIOUS
  <2> DEFINE longer == [i \in 0 .. (m + 1) |-> IF i <= m THEN walk[i] ELSE After(walk[m])]
  <2>2. ASSUME NEW i \in 0 .. (m + 1)
        PROVE  longer[i] = IF i = 0 THEN t ELSE After(longer[i - 1])
    <3>1. CASE i = 0
      BY <2>1, <3>1 DEF IsWalk
    <3>2. CASE i \in 1 .. m
      <4>1. walk[i] = After(walk[i - 1])
        BY <2>1, <3>2 DEF IsWalk
      <4>2. longer[i] = walk[i] /\ longer[i - 1] = walk[i - 1]
        BY <3>2
      <4> QED
        BY <3>2, <4>1, <4>2
    <3>3. CASE i = m + 1
      <4>1. /\ longer[m + 1] = After(walk[m]) /\ longer[m] = walk[m]
            /\ (m + 1) - 1 = m /\ m + 1 # 0
        OBVIOUS
      <4> QED
        BY <3>3, <4>1
    <3> QED
      BY <3>1, <3>2, <3>3
  <2>3. longer = [i \in 0 .. (m + 1) |-> longer[i]]
    OBVIOUS
  <2> HIDE DEF longer
  <2>4. longer = [i \in 0 .. (m + 1) |-> IF i = 0 THEN t ELSE After(longer[i - 1])]
    BY <2>2, <2>3
  <2> QED
    BY <2>4 DEF IsWalk
<1>3. T = Nat
  BY <1>1, <1>2, Descent
<1> QED
  BY <1>3

\* The walk goes on along the edges.
LEMMA WalkSteps ==
  ASSUME TxnTypeOK, NEW t \in Txns
  PROVE  LET n == Cardinality(Txns)
         IN  /\ n \in Nat /\ DOMAIN Walk(t) = 0 .. n /\ Walk(t)[0] = t
             /\ \A m \in 1 .. n : Walk(t)[m] = After(Walk(t)[m - 1])
             /\ \A m \in 0 .. n : Walk(t)[m] \in Txns \cup {Nobody}
<1> DEFINE n == Cardinality(Txns)
           w == Walk(t)
<1>0. n \in Nat
  BY TransactionsAssumption, FS_CardinalityType
<1>1. w = CHOOSE walk : IsWalk(walk, t, n)
  BY DEF Walk, IsWalk, After
<1>2. IsWalk(w, t, n)
  BY <1>0, <1>1, WalkExists
<1> HIDE DEF w
<1>3. /\ DOMAIN w = 0 .. n /\ w[0] = t
      /\ \A m \in 1 .. n : w[m] = After(w[m - 1])
  BY <1>0, <1>2 DEF IsWalk
<1> DEFINE T == {m \in Nat : m <= n => w[m] \in Txns \cup {Nobody}}
<1>4. 0 \in T
  BY <1>3
<1>5. ASSUME NEW m \in T PROVE m + 1 \in T
  <2>1. CASE m + 1 <= n
    <3>1. w[m] \in Txns \cup {Nobody}
      BY <1>0, <2>1
    <3>2. w[m + 1] = After(w[m])
      BY <1>0, <1>3, <2>1, m + 1 \in 1 .. n, (m + 1) - 1 = m
    <3> QED
      BY <3>1, <3>2 DEF After, TxnTypeOK
  <2> QED
    BY <2>1
<1>6. T = Nat
  BY <1>4, <1>5, Descent
<1>7. \A m \in 0 .. n : w[m] \in Txns \cup {Nobody}
  BY <1>0, <1>6
<1> QED
  BY <1>0, <1>3, <1>7 DEF w

\* What detect collects is on a cycle.
LEMMA CycleMembers ==
  ASSUME TxnTypeOK, NEW t \in Txns
  PROVE  /\ CycleFrom(t) \subseteq Txns
         /\ \A u \in CycleFrom(t) : OnCycle(u)
<1>1. Range(Walk(t)) \subseteq Txns \cup {Nobody}
  BY WalkSteps DEF Range
<1> QED
  BY <1>1 DEF CycleFrom

\* A finite set of numbers has a bound.
LEMMA FiniteIsBounded ==
  ASSUME NEW S \in SUBSET Nat, IsFiniteSet(S)
  PROVE  \E n \in Nat : \A x \in S : x <= n
<1> DEFINE T == {c \in Nat : \A s \in SUBSET S : Cardinality(s) <= c =>
                   \E n \in Nat : \A x \in s : x <= n}
<1>0. \A s \in SUBSET S : IsFiniteSet(s) /\ Cardinality(s) \in Nat
  BY FS_Subset, FS_CardinalityType
<1>1. 0 \in T
  <2>1. ASSUME NEW s \in SUBSET S, Cardinality(s) <= 0 PROVE s = {}
    BY <1>0, <2>1, FS_EmptySet
  <2>2. ASSUME NEW s \in SUBSET S, Cardinality(s) <= 0
        PROVE  \E n \in Nat : \A x \in s : x <= n
    BY <2>1, <2>2, 0 \in Nat
  <2> QED
    BY <2>2
<1>2. ASSUME NEW c \in T PROVE c + 1 \in T
  <2>1. ASSUME NEW s \in SUBSET S, Cardinality(s) <= c + 1, NEW y \in s
        PROVE  \E n \in Nat : \A x \in s : x <= n
    <3>1. Cardinality(s \ {y}) = Cardinality(s) - 1 /\ s \ {y} \in SUBSET S
      BY <1>0, FS_RemoveElement
    <3>2. PICK n \in Nat : \A x \in s \ {y} : x <= n
      BY <1>0, <2>1, <3>1
    <3>3. y \in Nat /\ \A x \in s : x \in Nat
      OBVIOUS
    <3>4. CASE y <= n
      BY <3>2, <3>4
    <3>5. CASE ~ (y <= n)
      <4>1. \A x \in s : x <= y
        BY <3>2, <3>3, <3>5
      <4> QED
        BY <3>3, <4>1
    <3> QED
      BY <3>4, <3>5
  <2>2. ASSUME NEW s \in SUBSET S, Cardinality(s) <= c + 1
        PROVE  \E n \in Nat : \A x \in s : x <= n
    BY <2>1, <2>2, 0 \in Nat
  <2>3. c + 1 \in Nat
    OBVIOUS
  <2> QED
    BY <2>2, <2>3
<1>3. T = Nat
  BY <1>1, <1>2, Descent
<1> QED
  BY <1>0, <1>3

\* The victim that detect names is on a cycle.
LEMMA NamedVictim ==
  ASSUME TxnTypeOK, ~ Acyclic
  PROVE  LET v == Max(CycleFrom(Min({t \in Txns : CycleFrom(t) # {}})))
         IN  v \in Txns /\ OnCycle(v)
<1> DEFINE S == {t \in Txns : CycleFrom(t) # {}}
           C == CycleFrom(Min(S))
<1>1. S \in SUBSET Nat /\ S # {} /\ Txns \subseteq Nat \ {0}
  BY TransactionsAssumption DEF Acyclic
<1>2. Min(S) \in S
  <2>1. \E x \in S : \A y \in S : x <= y
    BY <1>1, LeastMember
  <2> QED
    BY <2>1 DEF Min
<1>3. C \in SUBSET Txns /\ C # {} /\ \A u \in C : OnCycle(u)
  BY <1>2, CycleMembers
<1> HIDE DEF C
<1>4. IsFiniteSet(C) /\ C \in SUBSET Nat
  BY <1>1, <1>3, FS_Subset, TransactionsAssumption
<1>5. PICK n \in Nat : \A x \in C : x <= n
  BY <1>4, FiniteIsBounded
<1>6. C \in SUBSET (1 .. n)
  BY <1>1, <1>3, <1>5
<1>7. PICK x \in C : \A y \in C : y <= x
  BY <1>3, <1>6, GreatestMember
<1>8. Max(C) = x
  BY <1>4, <1>7, MaxIs
<1> QED
  BY <1>3, <1>7, <1>8 DEF C

-----------------------------------------------------------------------------
\* Not by itself: whom a victim names is one of them, because it is on a cycle.
LEMMA TxnTypeNext == TxnTypeOK /\ [TxnNext]_txnVars => TxnTypeOK'
<1> SUFFICES ASSUME TxnTypeOK, [TxnNext]_txnVars PROVE TxnTypeOK'
  OBVIOUS
<1>0. /\ mode \in {"ordered", "detected", "optimistic"} /\ needs \in Workloads
      /\ phase \in [Txns -> Phases]
      /\ plan \in [Txns -> Seq(Keys)] /\ held \in [Txns -> Seq(Keys)]
      /\ seen \in [Txns -> [Keys -> Txns \cup {Nobody}]]
      /\ store \in [Shards -> [Keys -> Txns \cup {Nobody}]]
      /\ order \in Seq(Txns)
      /\ edges \in [Txns -> Txns \cup {Nobody}] /\ victim \in Txns \cup {Nobody}
      /\ left \in [Txns -> -1 .. Epsilon]
      /\ version \in Nat /\ snapshot \in [Txns -> Nat] /\ latch \in Txns \cup {Nobody}
      /\ Epsilon \in Nat
  BY TransactionsAssumption DEF TxnTypeOK, Phases
<1>1. ASSUME NEW t \in Txns, Begin(t) PROVE TxnTypeOK'
  <2>1. plan' \in [Txns -> Seq(Keys)]
    BY <1>1, BeginKeys
  <2>2. phase' \in [Txns -> Phases] /\ snapshot' \in [Txns -> Nat]
    BY <1>0, <1>1 DEF Begin, Snapshot, Phases
  <2> QED
    BY <1>0, <1>1, <2>1, <2>2 DEF Begin, TxnTypeOK, Phases
<1>2. ASSUME NEW t \in Txns, Acquire(t) PROVE TxnTypeOK'
  <2>1. Takes(t)
    BY <1>2 DEF Acquire, Takes
  <2>2. /\ plan' \in [Txns -> Seq(Keys)] /\ held' \in [Txns -> Seq(Keys)]
        /\ seen' \in [Txns -> [Keys -> Txns \cup {Nobody}]]
    BY <2>1, TakenKeys
  <2>3. order' \in Seq(Txns)
    BY <1>0, <1>2 DEF Acquire
  <2> QED
    BY <1>0, <1>2, <2>2, <2>3 DEF Acquire, TxnTypeOK, Phases
<1>3. ASSUME NEW t \in Txns, Read(t) PROVE TxnTypeOK'
  <2>1. Takes(t)
    BY <1>3 DEF Read, Takes
  <2>2. /\ plan' \in [Txns -> Seq(Keys)] /\ held' \in [Txns -> Seq(Keys)]
        /\ seen' \in [Txns -> [Keys -> Txns \cup {Nobody}]]
    BY <2>1, TakenKeys
  <2> QED
    BY <1>0, <1>3, <2>2 DEF Read, TxnTypeOK, Phases
<1>4. ASSUME NEW t \in Txns, Validate(t) PROVE TxnTypeOK'
  <2>1. phase' \in [Txns -> Phases] /\ order' \in Seq(Txns)
    BY <1>0, <1>4 DEF Validate, Phases
  <2> QED
    BY <1>0, <1>4, <2>1 DEF Validate, TxnTypeOK, Phases
<1>5. ASSUME NEW t \in Txns, Conflict(t) PROVE TxnTypeOK'
  <2>1. /\ plan' \in [Txns -> Seq(Keys)] /\ held' \in [Txns -> Seq(Keys)]
        /\ seen' \in [Txns -> [Keys -> Txns \cup {Nobody}]] /\ phase' \in [Txns -> Phases]
    BY <1>5, DroppedKeys DEF Conflict
  <2> QED
    BY <1>0, <1>5, <2>1 DEF Conflict, TxnTypeOK, Phases
<1>6. ASSUME NEW t \in Txns, Abort(t) PROVE TxnTypeOK'
  <2>1. /\ plan' \in [Txns -> Seq(Keys)] /\ held' \in [Txns -> Seq(Keys)]
        /\ seen' \in [Txns -> [Keys -> Txns \cup {Nobody}]] /\ phase' \in [Txns -> Phases]
    BY <1>6, DroppedKeys DEF Abort
  <2> QED
    BY <1>0, <1>6, <2>1 DEF Abort, TxnTypeOK, Phases
<1>7. ASSUME NEW t \in Txns, Stamp(t) PROVE TxnTypeOK'
  <2>1. phase' \in [Txns -> Phases] /\ left' \in [Txns -> -1 .. Epsilon]
    BY <1>0, <1>7 DEF Stamp, Phases, Latest
  <2> QED
    BY <1>0, <1>7, <2>1 DEF Stamp, TxnTypeOK, Phases
<1>8. ASSUME NEW t \in Txns, Externalize(t) PROVE TxnTypeOK'
  <2>1. phase' \in [Txns -> Phases]
    BY <1>0, <1>8 DEF Externalize, Phases
  <2> QED
    BY <1>0, <1>8, <2>1 DEF Externalize, TxnTypeOK, Phases
<1>9. ASSUME NEW t \in Txns, Release(t) PROVE TxnTypeOK'
  <2>1. PICK k \in Keys : Gives(t, k)
    BY <1>9, ReleasedKeys
  <2>2. /\ held' \in [Txns -> Seq(Keys)]
        /\ store' \in [Shards -> [Keys -> Txns \cup {Nobody}]]
    BY <2>1, Written DEF Gives
  <2>3. phase' \in [Txns -> Phases]
    BY <1>0, <1>9 DEF Release, Phases
  <2> QED
    BY <1>0, <1>9, <2>2, <2>3 DEF Release, TxnTypeOK, Phases
<1>10. ASSUME NEW t \in Txns, WriteBack(t) PROVE TxnTypeOK'
  <2>1. PICK k \in Keys : Gives(t, k)
    BY <1>10, WrittenKeys
  <2>2. /\ held' \in [Txns -> Seq(Keys)]
        /\ store' \in [Shards -> [Keys -> Txns \cup {Nobody}]]
    BY <2>1, Written DEF Gives
  <2> QED
    BY <1>0, <1>10, <2>2 DEF WriteBack, TxnTypeOK, Phases
<1>11. ASSUME NEW t \in Txns, Commit(t) PROVE TxnTypeOK'
  <2>1. /\ phase' \in [Txns -> Phases] /\ version' \in Nat
        /\ latch' \in Txns \cup {Nobody}
    BY <1>0, <1>11 DEF Commit, Phases, NextVersion
  <2> QED
    BY <1>0, <1>11, <2>1 DEF Commit, TxnTypeOK, Phases
<1>12. ASSUME NEW t \in Txns, Claim(t) PROVE TxnTypeOK'
  <2>1. HolderOf(t) \in Txns
    BY <1>12 DEF Claim, Blocked, HolderOf, Holders
  <2>2. edges' \in [Txns -> Txns \cup {Nobody}]
    BY <1>0, <1>12, <2>1 DEF Claim
  <2> QED
    BY <1>0, <1>12, <2>2 DEF Claim, TxnTypeOK, Phases
<1>13. CASE Detect
  <2>1. edges' \in [Txns -> Txns \cup {Nobody}]
    BY <1>13 DEF Detect
  <2>2. victim' \in Txns \cup {Nobody}
    BY <1>13, NamedVictim DEF Detect
  <2> QED
    BY <1>0, <1>13, <2>1, <2>2 DEF Detect, TxnTypeOK, Phases
<1>14. CASE Pass
  <2>1. left' \in [Txns -> -1 .. Epsilon]
    <3>1. left' = [t \in Txns |-> IF left[t] > -1 THEN left[t] - 1 ELSE -1]
      BY <1>14 DEF Pass
    <3>2. ASSUME NEW t \in Txns
          PROVE  (IF left[t] > -1 THEN left[t] - 1 ELSE -1) \in -1 .. Epsilon
      <4>1. left[t] \in -1 .. Epsilon
        BY <1>0
      <4> QED
        BY <1>0, <4>1
    <3> QED
      BY <3>1, <3>2
  <2> QED
    BY <1>0, <1>14, <2>1 DEF Pass, TxnTypeOK, Phases
<1>15. CASE UNCHANGED txnVars
  BY <1>0, <1>15 DEF txnVars, TxnTypeOK, Phases
<1> QED
  BY <1>1, <1>2, <1>3, <1>4, <1>5, <1>6, <1>7, <1>8, <1>9, <1>10, <1>11, <1>12, <1>13,
     <1>14, <1>15 DEF TxnNext, Steps

-----------------------------------------------------------------------------
LEMMA Waits ==
  ASSUME Ordered, NEW t \in Txns, Blocked(t)
  PROVE  ~ Past(t)
BY DEF Ordered, Reached, Blocked, Revealed

\* Nobody on a cycle is past its lock point: the first of them would wait for one
\* before it.  So each waits for the next.
LEMMA CyclesWait ==
  ASSUME TxnTypeOK, Ordered, Edged, NEW t \in Txns, OnCycle(t)
  PROVE  \E C \in SUBSET Txns :
           /\ t \in C
           /\ \A u \in C : Blocked(u) /\ edges[u] \in C /\ edges[u] \in Holders(Head(plan[u]))
<1> DEFINE w == Walk(t)
<1>1. PICK n \in 1 .. Cardinality(Txns) : w[n] = t
  BY DEF OnCycle
<1>2. /\ n \in Nat /\ n >= 1 /\ w[0] = t
      /\ \A m \in 1 .. n : w[m] = After(w[m - 1])
      /\ \A m \in 0 .. n : w[m] \in Txns \cup {Nobody}
  BY <1>1, WalkSteps
<1>3. Nobody \notin Txns
  BY TransactionsAssumption DEF Nobody
<1> HIDE DEF w
<1>4. \A m \in 0 .. n : w[m] # Nobody
  <2> DEFINE D == {m \in 0 .. n : w[m] = Nobody}
  <2>1. SUFFICES ASSUME D # {} PROVE FALSE
    OBVIOUS
  <2>2. D \in SUBSET (1 .. n)
    BY <1>2, <1>3
  <2>3. PICK m \in D : \A x \in D : x <= m
    BY <1>2, <2>1, <2>2, GreatestMember
  <2>4. m \in 1 .. n /\ m # n
    BY <1>1, <1>3, <2>2, <2>3
  <2>5. w[m + 1] = After(w[m])
    BY <1>2, <2>4, m + 1 \in 1 .. n, (m + 1) - 1 = m
  <2>6. m + 1 \in D
    BY <1>2, <2>3, <2>4, <2>5 DEF After
  <2> QED
    BY <2>3, <2>4, <2>6
<1> DEFINE C == {w[m] : m \in 0 .. n}
<1>5. C \in SUBSET Txns /\ t \in C
  BY <1>1, <1>2, <1>4
<1>6. ASSUME NEW u \in C PROVE edges[u] \in C /\ edges[u] # Nobody
  <2>1. PICK m \in 0 .. n : u = w[m]
    OBVIOUS
  <2>2. CASE m < n
    <3>1. m + 1 \in 0 .. n /\ w[m + 1] = After(w[m])
      BY <1>2, <2>1, <2>2, m + 1 \in 1 .. n, (m + 1) - 1 = m
    <3> QED
      BY <1>4, <2>1, <3>1 DEF After
  <2>3. CASE m = n
    <3>1. u = w[0] /\ 1 \in 0 .. n /\ w[1] = After(w[0])
      BY <1>1, <1>2, <2>1, <2>3, 1 \in 1 .. n, 1 - 1 = 0
    <3> QED
      BY <1>2, <1>4, <3>1, 0 \in 0 .. n DEF After
  <2> QED
    BY <1>2, <2>1, <2>2, <2>3
<1> HIDE DEF C
<1>7. \A u \in C : ~ Past(u)
  <2> DEFINE P == {i \in DOMAIN order : order[i] \in C}
  <2>1. SUFFICES ASSUME P # {} PROVE FALSE
    BY DEF Past, ToSet
  <2>2. order \in Seq(Txns) /\ DOMAIN order \subseteq Nat
    <3>1. order \in Seq(Txns)
      BY DEF TxnTypeOK
    <3>2. DOMAIN order = 1 .. Len(order) /\ Len(order) \in Nat
      BY <3>1
    <3> QED
      BY <3>1, <3>2
  <2>3. PICK i \in P : \A j \in P : i <= j
    BY <2>1, <2>2, LeastMember
  <2> DEFINE u == order[i]
  <2>4. u \in C /\ u \in Txns /\ Past(u)
    BY <1>5, <2>3 DEF Past, ToSet
  <2>5. ~ Blocked(u)
    BY <2>4, Waits
  <2>6. Before(edges[u], u)
    BY <1>6, <2>4, <2>5 DEF Edged
  <2>7. PICK m, k \in DOMAIN order : m < k /\ order[m] = edges[u] /\ order[k] = u
    BY <2>6 DEF Before
  <2>8. k = i
    BY <2>3, <2>7 DEF Ordered
  <2>9. m \in P /\ m < i
    BY <1>6, <2>4, <2>7, <2>8
  <2> QED
    BY <2>2, <2>3, <2>9
<1>8. ASSUME NEW u \in C PROVE Blocked(u) /\ edges[u] \in Holders(Head(plan[u]))
  BY <1>5, <1>6, <1>7 DEF Edged
<1> QED
  BY <1>5, <1>6, <1>8

\* The claims on a cycle are true.
LEMMA CyclesAreDeadlocks ==
  TxnTypeOK /\ Ordered /\ Edged => CycleIsDeadlock
BY CyclesWait DEF CycleIsDeadlock

-----------------------------------------------------------------------------
\* Nobody but the one that takes a step gets another phase or other keys.
LEMMA OthersStay ==
  ASSUME TxnTypeOK, NEW t \in Txns, Steps(t)
  PROVE  /\ mode' = mode /\ needs' = needs
         /\ \A u \in Txns \ {t} :
              /\ phase'[u] = phase[u] /\ plan'[u] = plan[u]
              /\ held'[u] = held[u] /\ seen'[u] = seen[u]
<1>0. /\ phase \in [Txns -> Phases] /\ held \in [Txns -> Seq(Keys)]
      /\ plan \in [Txns -> Seq(Keys)] /\ seen \in [Txns -> [Keys -> Txns \cup {Nobody}]]
  BY DEF TxnTypeOK, Phases
<1>1. CASE Begin(t)
  BY <1>0, <1>1, BeginKeys DEF Begin
<1>2. CASE Acquire(t)
  <2>1. Takes(t)
    BY <1>2 DEF Acquire, Takes
  <2> QED
    BY <1>2, <2>1, TakenKeys DEF Acquire
<1>3. CASE Read(t)
  <2>1. Takes(t)
    BY <1>3 DEF Read, Takes
  <2> QED
    BY <1>3, <2>1, TakenKeys DEF Read
<1>4. CASE Validate(t)
  BY <1>0, <1>4 DEF Validate
<1>5. CASE Conflict(t)
  BY <1>5, DroppedKeys DEF Conflict
<1>6. CASE Abort(t)
  BY <1>6, DroppedKeys DEF Abort
<1>7. CASE Stamp(t)
  BY <1>0, <1>7 DEF Stamp
<1>8. CASE Externalize(t)
  BY <1>0, <1>8 DEF Externalize
<1>9. CASE Release(t)
  BY <1>0, <1>9 DEF Release
<1>10. CASE WriteBack(t)
  BY <1>0, <1>10 DEF WriteBack
<1>11. CASE Commit(t)
  BY <1>0, <1>11 DEF Commit
<1> QED
  BY <1>1, <1>2, <1>3, <1>4, <1>5, <1>6, <1>7, <1>8, <1>9, <1>10, <1>11 DEF Steps

\* Nobody else reaches or leaves its lock point.
LEMMA ReachedStays ==
  ASSUME NEW u \in Txns, mode' = mode, phase'[u] = phase[u], plan'[u] = plan[u]
  PROVE  Reached(u)' <=> Reached(u)
BY DEF Reached, Locking

\* The order is kept, or t comes last.
LEMMA OrderKept ==
  ASSUME Ordered, order' = order, \A u \in Txns : Reached(u)' <=> Reached(u)
  PROVE  Ordered'
BY DEF Ordered, Past

Joins(t) == order' = Append(order, t) /\ ~ Past(t)

\* Who joins comes last.
LEMMA JoinedOrder ==
  ASSUME TxnTypeOK, NEW t \in Txns, Joins(t)
  PROVE  /\ order' \in Seq(Txns) /\ Len(order') = Len(order) + 1 /\ order'[Len(order')] = t
         /\ Len(order) \in Nat
         /\ DOMAIN order = 1 .. Len(order) /\ DOMAIN order' = 1 .. Len(order')
         /\ \A i \in DOMAIN order : order'[i] = order[i] /\ order[i] # t
         /\ \A u : Past(u)' <=> (Past(u) \/ u = t)
<1>1. order \in Seq(Txns) /\ order' = Append(order, t)
  BY DEF TxnTypeOK, Joins
<1>2. /\ order' \in Seq(Txns) /\ Len(order') = Len(order) + 1 /\ order'[Len(order')] = t
      /\ Len(order) \in Nat
      /\ DOMAIN order = 1 .. Len(order) /\ DOMAIN order' = 1 .. Len(order')
      /\ \A i \in DOMAIN order : order'[i] = order[i]
  BY <1>1
<1>3. ToSet(order') = ToSet(order) \cup {t}
  BY <1>1, AppendedKeys
<1>4. \A i \in DOMAIN order : order[i] # t
  BY DEF Joins, Past, ToSet
<1> QED
  BY <1>2, <1>3, <1>4 DEF Past

\* The order stays without repetitions when somebody joins it.
LEMMA OrderJoined ==
  ASSUME TxnTypeOK, Ordered, NEW t \in Txns, Joins(t), Reached(t)',
         \A u \in Txns \ {t} : Reached(u)' <=> Reached(u)
  PROVE  Ordered'
<1>1. /\ Len(order') = Len(order) + 1 /\ order'[Len(order')] = t
      /\ Len(order) \in Nat
      /\ DOMAIN order = 1 .. Len(order) /\ DOMAIN order' = 1 .. Len(order')
      /\ \A i \in DOMAIN order : order'[i] = order[i] /\ order[i] # t
      /\ \A u : Past(u)' <=> (Past(u) \/ u = t)
  BY JoinedOrder
<1>2. ASSUME NEW m \in DOMAIN order', NEW n \in DOMAIN order', order'[m] = order'[n]
      PROVE  m = n
  BY <1>1, <1>2 DEF Ordered
<1>3. \A u \in Txns : Past(u)' <=> Reached(u)'
  BY <1>1 DEF Ordered
<1> QED
  BY <1>2, <1>3 DEF Ordered

\* A victim is blocked.
LEMMA VictimWaits ==
  ASSUME Doomed, victim # Nobody
  PROVE  Blocked(victim) /\ mode = "detected"
BY DEF Doomed

\* Ordered is inductive.
LEMMA OrderedStep ==
  ASSUME TxnTypeOK, Ordered, Doomed, NEW t \in Txns, Steps(t)
  PROVE  Ordered'
<1>0. /\ mode' = mode
      /\ \A u \in Txns \ {t} : Reached(u)' <=> Reached(u)
  BY OthersStay, ReachedStays
<1>t. phase \in [Txns -> Phases] /\ plan \in [Txns -> Seq(Keys)]
  BY DEF TxnTypeOK, Phases
<1>1. CASE Begin(t)
  BY <1>t, <1>0, <1>1, BeginKeys, OrderKept DEF Begin, Reached, Revealed
<1>2. CASE Acquire(t)
  <2>1. Takes(t)
    BY <1>2 DEF Acquire, Takes
  <2>2. /\ Locking /\ phase[t] = "growing" /\ plan[t] # <<>>
        /\ phase' = phase /\ order' = IF Len(plan[t]) = 1 THEN Append(order, t) ELSE order
    BY <1>2 DEF Acquire
  <2>3. Len(plan[t]) = 1 <=> plan'[t] = <<>>
    BY <2>1, TakenKeys
  <2>4. ~ Reached(t) /\ ~ Past(t)
    BY <2>2 DEF Reached, Ordered, Revealed
  <2>5. CASE plan'[t] = <<>>
    <3>1. Joins(t) /\ Reached(t)'
      BY <1>0, <2>2, <2>3, <2>4, <2>5 DEF Joins, Reached, Locking
    <3> QED
      BY <1>0, <3>1, OrderJoined
  <2>6. CASE plan'[t] # <<>>
    <3>1. order' = order /\ ~ Reached(t)'
      BY <1>0, <2>2, <2>3, <2>6 DEF Reached, Revealed
    <3> QED
      BY <1>0, <2>4, <3>1, OrderKept
  <2> QED
    BY <2>5, <2>6
<1>3. CASE Read(t)
  BY <1>0, <1>3, OrderKept DEF Read, Reached, Revealed, Locking
<1>4. CASE Validate(t)
  <2>1. /\ ~ Locking /\ phase[t] = "growing" /\ phase'[t] = "valid"
        /\ order' = Append(order, t)
    BY <1>t, <1>4 DEF Validate
  <2>2. ~ Past(t)
    BY <2>1 DEF Ordered, Reached, Revealed
  <2>3. Joins(t) /\ Reached(t)'
    BY <2>1, <2>2 DEF Joins, Reached
  <2> QED
    BY <1>0, <2>3, OrderJoined
<1>5. CASE Conflict(t)
  <2>1. ~ Reached(t) /\ order' = order
    BY <1>5 DEF Conflict, Reached, Revealed
  <2>2. phase'[t] = "idle"
    BY <1>5, DroppedKeys DEF Conflict
  <2>3. ~ Reached(t)'
    BY <2>2 DEF Reached, Revealed
  <2> QED
    BY <1>0, <2>1, <2>3, OrderKept
<1>6. CASE Abort(t)
  <2>1. victim = t /\ order' = order /\ victim # Nobody
    BY <1>6, TransactionsAssumption DEF Abort, Nobody
  <2>2. ~ Reached(t)
    BY <2>1, VictimWaits DEF Blocked, Reached, Revealed
  <2>3. phase'[t] = "idle"
    BY <1>6, DroppedKeys DEF Abort
  <2>4. ~ Reached(t)'
    BY <2>3 DEF Reached, Revealed
  <2> QED
    BY <1>0, <2>1, <2>2, <2>4, OrderKept
<1>7. CASE Stamp(t)
  <2>1. Reached(t) /\ order' = order
    BY <1>7 DEF Stamp, Ready, Reached
  <2>2. Reached(t)'
    BY <1>t, <1>7 DEF Stamp, Reached
  <2> QED
    BY <1>0, <2>1, <2>2, OrderKept
<1>8. CASE Externalize(t)
  <2>1. Reached(t) /\ order' = order
    BY <1>8 DEF Externalize, Reached
  <2>2. Reached(t)'
    BY <1>t, <1>8 DEF Externalize, Reached, Revealed
  <2> QED
    BY <1>0, <2>1, <2>2, OrderKept
<1>9. CASE Release(t)
  <2>1. Reached(t) /\ order' = order
    BY <1>9 DEF Release, Reveals, Reached, Revealed
  <2>2. Reached(t)'
    BY <1>t, <1>9 DEF Release, Reached, Revealed
  <2> QED
    BY <1>0, <2>1, <2>2, OrderKept
<1>10. CASE WriteBack(t)
  BY <1>0, <1>10, OrderKept DEF WriteBack, Reached, Locking
<1>11. CASE Commit(t)
  <2>1. Reached(t) /\ order' = order
    BY <1>11 DEF Commit, Reveals, Reached, Revealed
  <2>2. Reached(t)'
    BY <1>t, <1>11 DEF Commit, Reached, Revealed
  <2> QED
    BY <1>0, <2>1, <2>2, OrderKept
<1> QED
  BY <1>1, <1>2, <1>3, <1>4, <1>5, <1>6, <1>7, <1>8, <1>9, <1>10, <1>11 DEF Steps

\* Progress is inductive.
LEMMA ProgressStep ==
  ASSUME TxnTypeOK, Ordered, Doomed, \A u \in Txns : Progress(u),
         NEW t \in Txns, Steps(t), NEW u \in Txns
  PROVE  Progress(u)'
<1>t. /\ phase \in [Txns -> Phases] /\ plan \in [Txns -> Seq(Keys)]
      /\ held \in [Txns -> Seq(Keys)] /\ left \in [Txns -> -1 .. Epsilon] /\ Epsilon \in Nat
  BY TransactionsAssumption DEF TxnTypeOK, Phases
<1>0. needs' = needs /\ ToSet(<<>>) = {}
  BY OthersStay, NoKeys
<1>p. Progress(t) /\ Progress(u)
  OBVIOUS
<1>left. u # t => left'[u] = left[u]
  <2>1. CASE Stamp(t)
    BY <1>t, <2>1 DEF Stamp
  <2>2. CASE ~ Stamp(t)
    BY <2>2 DEF Steps, Begin, Acquire, Read, Validate, Conflict, Abort, Externalize, Release,
            WriteBack, Commit
  <2> QED
    BY <2>1, <2>2
<1>other. CASE u # t
  <2>1. /\ phase'[u] = phase[u] /\ plan'[u] = plan[u] /\ held'[u] = held[u]
    BY <1>other, OthersStay
  <2> QED
    BY <1>0, <1>p, <1>left, <1>other, <2>1 DEF Progress
<1>own. CASE u = t
  <2>1. CASE Begin(t)
    <3>1. ToSet(plan'[t]) = needs[t] /\ phase'[t] = "growing" /\ held' = held
          /\ phase[t] = "idle"
      BY <1>t, <2>1, BeginKeys DEF Begin
    <3> QED
      BY <1>0, <1>p, <1>own, <3>1 DEF Progress, Revealed
  <2>2. CASE Acquire(t) \/ Read(t)
    <3>1. Takes(t) /\ phase[t] = "growing" /\ phase' = phase
      BY <2>2 DEF Acquire, Read, Takes
    <3>2. ToSet(plan'[t]) \cup ToSet(held'[t]) = ToSet(plan[t]) \cup ToSet(held[t])
      BY <3>1, TakenKeys
    <3> QED
      BY <1>0, <1>p, <1>own, <3>1, <3>2 DEF Progress, Revealed
  <2>3. CASE Validate(t)
    <3>1. /\ phase[t] = "growing" /\ phase'[t] = "valid" /\ plan[t] = <<>>
          /\ plan' = plan /\ held' = held
      BY <1>t, <2>3 DEF Validate
    <3> QED
      BY <1>0, <1>p, <1>own, <3>1 DEF Progress, Revealed
  <2>4. CASE Conflict(t) \/ Abort(t)
    <3>1. phase'[t] = "idle" /\ plan'[t] = <<>> /\ held'[t] = <<>>
      BY <2>4, DroppedKeys DEF Conflict, Abort
    <3> QED
      BY <1>own, <3>1 DEF Progress, Revealed
  <2>5. CASE Stamp(t)
    <3>1. /\ phase[t] \in {"valid", "growing"} /\ phase'[t] = "pending"
          /\ plan[t] = <<>> /\ plan' = plan /\ held' = held
      BY <1>t, <1>p, <2>5 DEF Stamp, Ready, Progress
    <3> QED
      BY <1>0, <1>p, <1>own, <3>1 DEF Progress, Revealed
  <2>6. CASE Externalize(t)
    <3>1. /\ phase[t] = "pending" /\ phase'[t] = "externalized"
          /\ plan' = plan /\ held' = held /\ left' = left
      BY <1>t, <2>6 DEF Externalize
    <3>2. PICK error \in 0 .. Epsilon : left[t] + error < 0
      BY <2>6 DEF Externalize, Closed
    <3>3. left[t] \in -1 .. Epsilon
      BY <1>t
    <3>4. left[t] = -1
      BY <1>t, <3>2, <3>3
    <3> QED
      BY <1>0, <1>p, <1>own, <3>1, <3>4 DEF Progress, Revealed
  <2>7. CASE Release(t) \/ WriteBack(t)
    <3>1. PICK k \in Keys : Gives(t, k)
      BY <2>7, ReleasedKeys, WrittenKeys
    <3>2. ToSet(held'[t]) \subseteq ToSet(held[t]) /\ k \in ToSet(held[t])
      BY <3>1 DEF Gives
    <3>3. /\ phase[t] \in {"externalized", "shrinking"}
          /\ phase'[t] \in {"externalized", "shrinking"}
          /\ plan' = plan /\ left' = left
      BY <1>t, <2>7 DEF Release, WriteBack, Reveals
    <3> QED
      BY <1>0, <1>p, <1>own, <3>2, <3>3 DEF Progress, Revealed
  <2>8. CASE Commit(t)
    <3>1. /\ phase[t] \in {"externalized", "shrinking"} /\ phase'[t] = "done"
          /\ held[t] = <<>> /\ plan' = plan /\ held' = held /\ left' = left
      BY <1>t, <2>8 DEF Commit, Reveals
    <3> QED
      BY <1>0, <1>p, <1>own, <3>1 DEF Progress, Revealed
  <2> QED
    BY <2>1, <2>2, <2>3, <2>4, <2>5, <2>6, <2>7, <2>8 DEF Steps
<1> QED
  BY <1>other, <1>own

\* Giving back keeps exclusion.
LEMMA FewerKeysExclude ==
  ASSUME Exclusive, mode' = mode, \A u \in Txns : ToSet(held'[u]) \subseteq ToSet(held[u])
  PROVE  Exclusive'
BY DEF Exclusive, Locking

\* Exclusive is inductive.
LEMMA ExclusiveStep ==
  ASSUME TxnTypeOK, Exclusive, NEW t \in Txns, Steps(t)
  PROVE  Exclusive'
<1>0. /\ mode' = mode /\ ToSet(<<>>) = {}
      /\ \A u \in Txns \ {t} : held'[u] = held[u]
  BY OthersStay, NoKeys
<1>1. CASE Acquire(t)
  <2>1. Takes(t) /\ Holders(Head(plan[t])) = {}
    BY <1>1 DEF Acquire, Takes, Blocked
  <2>2. ToSet(held'[t]) = ToSet(held[t]) \cup {Head(plan[t])}
    BY <2>1, TakenKeys
  <2> QED
    BY <1>0, <2>1, <2>2 DEF Exclusive, Locking, Holders
<1>2. CASE Read(t)
  BY <1>0, <1>2 DEF Read, Exclusive, Locking
<1>3. CASE Conflict(t) \/ Abort(t)
  <2>1. held'[t] = <<>>
    BY <1>3, DroppedKeys DEF Conflict, Abort
  <2> QED
    BY <1>0, <2>1, FewerKeysExclude
<1>4. CASE Release(t) \/ WriteBack(t)
  <2>1. PICK k \in Keys : Gives(t, k)
    BY <1>4, ReleasedKeys, WrittenKeys
  <2>2. ToSet(held'[t]) \subseteq ToSet(held[t])
    BY <2>1 DEF Gives
  <2> QED
    BY <1>0, <2>2, FewerKeysExclude
<1>5. CASE Begin(t) \/ Validate(t) \/ Stamp(t) \/ Externalize(t) \/ Commit(t)
  <2>1. held' = held
    BY <1>5 DEF Begin, Validate, Stamp, Externalize, Commit
  <2> QED
    BY <1>0, <2>1, FewerKeysExclude
<1> QED
  BY <1>1, <1>2, <1>3, <1>4, <1>5 DEF Steps

\* Latched is inductive.
LEMMA LatchedStep ==
  ASSUME TxnTypeOK, Ordered, Doomed, \A u \in Txns : Progress(u), Latched,
         NEW t \in Txns, Steps(t), NEW u \in Txns, ~ Locking
  PROVE  /\ phase'[u] \in {"valid", "pending", "externalized", "shrinking"} => latch' = u
         /\ snapshot'[u] <= version'
<1> DEFINE Writing == {"valid", "pending", "externalized", "shrinking"}
<1>t. /\ phase \in [Txns -> Phases] /\ snapshot \in [Txns -> Nat] /\ version \in Nat
      /\ Nobody \notin Txns
  BY TransactionsAssumption DEF TxnTypeOK, Phases, Nobody
<1>l. \A r \in Txns : phase[r] \in Writing => latch = r
  BY DEF Latched
<1>v. \A r \in Txns : snapshot[r] <= version
  BY DEF Latched
<1>0. u # t => phase'[u] = phase[u]
  BY OthersStay
<1>1. CASE Begin(t)
  <2>1. /\ phase'[t] = "growing" /\ latch' = latch /\ version' = version
        /\ snapshot' = [snapshot EXCEPT ![t] = version]
    BY <1>t, <1>1 DEF Begin, Snapshot
  <2>2. snapshot'[u] <= version'
    BY <1>t, <1>v, <2>1
  <2> QED
    BY <1>0, <1>l, <2>1, <2>2
<1>2. CASE Read(t)
  BY <1>l, <1>v, <1>2 DEF Read
<1>3. CASE Validate(t)
  <2>1. /\ latch = Nobody /\ latch' = t /\ phase'[t] = "valid"
        /\ snapshot' = snapshot /\ version' = version
    BY <1>t, <1>3 DEF Validate, Unlatched
  <2>2. phase[u] \notin Writing
    BY <1>t, <1>l, <2>1
  <2> QED
    BY <1>0, <1>v, <2>1, <2>2
<1>4. CASE Conflict(t) \/ Abort(t)
  <2>1. phase'[t] = "idle"
    BY <1>4, DroppedKeys DEF Conflict, Abort
  <2>2. latch' = latch /\ snapshot' = snapshot /\ version' = version
    BY <1>4 DEF Conflict, Abort
  <2> QED
    BY <1>0, <1>l, <1>v, <2>1, <2>2
<1>5. CASE Stamp(t) \/ Externalize(t) \/ Release(t)
  <2>1. phase[t] \in Writing /\ latch' = latch /\ snapshot' = snapshot /\ version' = version
    BY <1>5 DEF Stamp, Ready, Externalize, Release, Reveals
  <2> QED
    BY <1>0, <1>l, <1>v, <2>1
<1>6. CASE WriteBack(t)
  BY <1>l, <1>v, <1>6 DEF WriteBack
<1>7. CASE Commit(t)
  <2>1. /\ phase[t] \in Writing /\ phase'[t] = "done"
        /\ snapshot' = snapshot /\ version' = version + 1
    BY <1>t, <1>7 DEF Commit, Reveals, NextVersion
  <2>2. u # t => phase[u] \notin Writing
    BY <1>l, <2>1
  <2>3. snapshot'[u] <= version'
    BY <1>t, <1>v, <2>1
  <2> QED
    BY <1>0, <2>1, <2>2, <2>3
<1>8. ~ Acquire(t)
  BY DEF Acquire
<1> QED
  BY <1>1, <1>2, <1>3, <1>4, <1>5, <1>6, <1>7, <1>8 DEF Steps

-----------------------------------------------------------------------------
\* Whoever waits does nothing until it is aborted.
LEMMA WaitersStay ==
  ASSUME NEW t \in Txns, Blocked(t), Steps(t)
  PROVE  Abort(t)
BY DEF Blocked, Steps, Begin, Acquire, Read, Validate, Conflict, Stamp, Ready, Externalize,
       Release, Reveals, WriteBack, Commit

\* A wait for somebody who does not move goes on.
LEMMA WaitGoesOn ==
  ASSUME NEW u \in Txns, NEW v \in Txns, Blocked(u), v \in Holders(Head(plan[u])),
         mode' = mode, phase'[u] = phase[u], plan'[u] = plan[u], held'[v] = held[v]
  PROVE  Blocked(u)' /\ v \in Holders(Head(plan[u]))'
<1>1. v \in Holders(Head(plan[u]))'
  BY DEF Holders
<1> QED
  BY <1>1 DEF Blocked, Locking

\* Only an abort touches the victim and nobody's step touches the claims.
LEMMA AbortResolves ==
  ASSUME NEW t \in Txns, Steps(t)
  PROVE  /\ edges' = edges
         /\ IF Abort(t) THEN victim = t /\ victim' = Nobody ELSE victim' = victim
BY DEF Steps, Begin, Acquire, Read, Validate, Conflict, Abort, Stamp, Externalize, Release,
       WriteBack, Commit

\* Doomed is inductive: those that wait for each other take no step but the abort.
LEMMA DoomedStep ==
  ASSUME TxnTypeOK, Doomed, NEW t \in Txns, Steps(t)
  PROVE  Doomed'
<1>1. CASE Abort(t)
  BY <1>1, AbortResolves DEF Doomed
<1>2. CASE ~ Abort(t)
  <2>1. SUFFICES ASSUME victim # Nobody PROVE Doomed'
    BY <1>2, AbortResolves DEF Doomed
  <2>2. victim' = victim /\ edges' = edges /\ mode' = mode
    BY <1>2, AbortResolves, OthersStay
  <2>3. mode = "detected" /\ \A u \in Txns : edges[u] = Nobody
    BY <2>1 DEF Doomed
  <2>4. PICK C \in SUBSET Txns :
          /\ victim \in C
          /\ \A u \in C : Blocked(u) /\ \E v \in C : v \in Holders(Head(plan[u]))
    BY <2>1 DEF Doomed
  <2>5. t \notin C
    BY <1>2, <2>4, WaitersStay
  <2>6. ASSUME NEW u \in C
        PROVE  Blocked(u)' /\ \E v \in C : v \in Holders(Head(plan[u]))'
    <3>1. PICK v \in C : Blocked(u) /\ v \in Holders(Head(plan[u]))
      BY <2>4
    <3>2. /\ phase'[u] = phase[u] /\ plan'[u] = plan[u] /\ held'[v] = held[v]
      BY <2>4, <2>5, <3>1, OthersStay
    <3>3. u \in Txns /\ v \in Txns
      BY <2>4
    <3> QED
      BY <2>2, <3>1, <3>2, <3>3, WaitGoesOn
  <2> QED
    BY <2>2, <2>3, <2>4, <2>6 DEF Doomed
<1> QED
  BY <1>1, <1>2

\* A victim is named out of transactions that wait for each other.
LEMMA DoomedDetect ==
  ASSUME TxnTypeOK, Ordered, Edged, Detect
  PROVE  Doomed'
<1>1. /\ mode = "detected" /\ mode' = mode /\ phase' = phase /\ plan' = plan /\ held' = held
      /\ \A t \in Txns : edges'[t] = Nobody
      /\ victim' = IF Acyclic THEN Nobody
                   ELSE Max(CycleFrom(Min({t \in Txns : CycleFrom(t) # {}})))
  BY DEF Detect
<1>2. SUFFICES ASSUME ~ Acyclic PROVE Doomed'
  BY <1>1 DEF Doomed
<1>3. victim' \in Txns /\ OnCycle(victim')
  BY <1>1, <1>2, NamedVictim
<1>4. PICK C \in SUBSET Txns :
        /\ victim' \in C
        /\ \A u \in C : Blocked(u) /\ edges[u] \in C /\ edges[u] \in Holders(Head(plan[u]))
  BY <1>3, CyclesWait
<1>5. ASSUME NEW u \in C
      PROVE  Blocked(u)' /\ \E v \in C : v \in Holders(Head(plan[u]))'
  <2>1. u \in Txns /\ edges[u] \in Txns
    BY <1>4
  <2>2. Blocked(u)' /\ edges[u] \in Holders(Head(plan[u]))'
    BY <1>1, <1>4, <2>1 DEF Blocked, Locking, Holders
  <2>3. PICK v \in C : v = edges[u]
    BY <1>4
  <2> QED
    BY <2>2, <2>3
<1> QED
  BY <1>1, <1>4, <1>5 DEF Doomed

\* A wait that was claimed goes on, or who was waited for is past its lock point,
\* and before whoever waited.
EdgeHolds(u, v) ==
  /\ mode = "detected"
  /\ \/ Blocked(u) /\ v \in Holders(Head(plan[u]))
     \/ Past(v) /\ (Past(u) => Before(v, u))

\* Under locks keys are given back by a release or an abort only.
LEMMA KeysAreKept ==
  ASSUME TxnTypeOK, NEW t \in Txns, Steps(t), Locking, ~ Abort(t), ~ Release(t)
  PROVE  ToSet(held[t]) \subseteq ToSet(held'[t])
<1>1. CASE Acquire(t)
  <2>1. Takes(t)
    BY <1>1 DEF Acquire, Takes
  <2> QED
    BY <2>1, TakenKeys
<1>2. CASE ~ Acquire(t)
  BY <1>2 DEF Steps, Begin, Read, Validate, Conflict, Stamp, Externalize, WriteBack, Commit
<1> QED
  BY <1>1, <1>2

\* A step keeps the order or appends who takes it.
LEMMA OrderGoesOn ==
  ASSUME TxnTypeOK, Ordered, NEW t \in Txns, Steps(t)
  PROVE  order' = order \/ Joins(t)
<1>1. CASE Acquire(t) \/ Validate(t)
  <2>1. ~ Past(t)
    BY <1>1 DEF Acquire, Validate, Ordered, Reached, Revealed
  <2> QED
    BY <1>1, <2>1 DEF Acquire, Validate, Joins
<1>2. CASE ~ (Acquire(t) \/ Validate(t))
  BY <1>2 DEF Steps, Begin, Read, Conflict, Abort, Stamp, Externalize, Release, WriteBack,
       Commit
<1> QED
  BY <1>1, <1>2

\* A claim stays true of a wait, or becomes true of an order.
LEMMA EdgeStep ==
  ASSUME TxnTypeOK, Ordered, NEW t \in Txns, Steps(t), ~ Abort(t),
         NEW u \in Txns, NEW v \in Txns, EdgeHolds(u, v)
  PROVE  EdgeHolds(u, v)'
<1>0. /\ mode' = mode /\ mode = "detected" /\ Locking
      /\ \A w \in Txns \ {t} : phase'[w] = phase[w] /\ plan'[w] = plan[w] /\ held'[w] = held[w]
  BY OthersStay DEF EdgeHolds, Locking
<1>1. CASE Past(v) /\ (Past(u) => Before(v, u))
  <2>1. CASE order' = order
    BY <1>0, <1>1, <2>1 DEF EdgeHolds, Past, Before
  <2>2. CASE Joins(t)
    <3>1. /\ Len(order') = Len(order) + 1 /\ order'[Len(order')] = t /\ Len(order) \in Nat
          /\ DOMAIN order = 1 .. Len(order) /\ DOMAIN order' = 1 .. Len(order')
          /\ \A i \in DOMAIN order : order'[i] = order[i]
          /\ \A w : Past(w)' <=> (Past(w) \/ w = t)
      BY <2>2, JoinedOrder
    <3>2. ASSUME Past(u) PROVE Before(v, u)'
      <4>1. PICK m, n \in DOMAIN order : m < n /\ order[m] = v /\ order[n] = u
        BY <1>1, <3>2 DEF Before
      <4>2. m \in DOMAIN order' /\ n \in DOMAIN order' /\ order'[m] = v /\ order'[n] = u
        BY <3>1, <4>1
      <4> QED
        BY <4>1, <4>2 DEF Before
    <3>3. ASSUME u = t PROVE Before(v, u)'
      <4>1. PICK m \in DOMAIN order : order[m] = v
        BY <1>1 DEF Past, ToSet
      <4>2. /\ m \in DOMAIN order' /\ Len(order') \in DOMAIN order' /\ m < Len(order')
            /\ order'[m] = v /\ order'[Len(order')] = u
        BY <3>1, <3>3, <4>1
      <4> QED
        BY <4>2 DEF Before
    <3> QED
      BY <1>0, <1>1, <3>1, <3>2, <3>3 DEF EdgeHolds
  <2> QED
    BY <2>1, <2>2, OrderGoesOn
<1>2. CASE Blocked(u) /\ v \in Holders(Head(plan[u]))
  <2>1. u # t
    BY <1>2, WaitersStay
  <2>2. CASE v # t
    BY <1>0, <1>2, <2>1, <2>2, WaitGoesOn DEF EdgeHolds
  <2>3. CASE v = t /\ ~ Release(t)
    <3>1. ToSet(held[t]) \subseteq ToSet(held'[t])
      BY <1>0, <2>3, KeysAreKept
    <3>2. v \in Holders(Head(plan[u]))'
      BY <1>0, <1>2, <2>1, <2>3, <3>1 DEF Holders
    <3>3. Blocked(u)'
      BY <1>0, <1>2, <2>1, <3>2 DEF Blocked, Locking
    <3> QED
      BY <1>0, <3>2, <3>3 DEF EdgeHolds
  <2>4. CASE v = t /\ Release(t)
    <3>1. order' = order /\ phase[t] \in Revealed
      BY <2>4 DEF Release, Reveals, Revealed
    <3>2. Past(t) /\ ~ Past(u)
      BY <1>2, <3>1, Waits DEF Ordered, Reached
    <3> QED
      BY <1>0, <2>4, <3>1, <3>2 DEF EdgeHolds, Past
  <2> QED
    BY <2>2, <2>3, <2>4
<1> QED
  BY <1>1, <1>2 DEF EdgeHolds

\* Edged, claim by claim.
LEMMA EdgedIsHeld == Edged <=> \A t \in Txns : edges[t] # Nobody => EdgeHolds(t, edges[t])
BY DEF Edged, EdgeHolds

\* Edged is inductive.
LEMMA EdgedStep ==
  ASSUME TxnTypeOK, Ordered, Doomed, Edged, NEW t \in Txns, Steps(t)
  PROVE  Edged'
<1>1. edges' = edges /\ edges \in [Txns -> Txns \cup {Nobody}]
  BY AbortResolves DEF TxnTypeOK
<1>2. CASE Abort(t)
  <2>1. victim # Nobody
    BY <1>2, TransactionsAssumption DEF Abort, Nobody
  <2> QED
    BY <1>1, <2>1 DEF Doomed, Edged
<1>3. CASE ~ Abort(t)
  <2>1. ASSUME NEW u \in Txns, edges[u] # Nobody PROVE EdgeHolds(u, edges[u])'
    <3>1. PICK v \in Txns : v = edges[u]
      BY <1>1, <2>1
    <3>2. EdgeHolds(u, v)
      BY <2>1, <3>1, EdgedIsHeld
    <3>3. EdgeHolds(u, v)'
      BY <1>3, <3>2, EdgeStep
    <3> QED
      BY <1>1, <3>1, <3>3
  <2> QED
    BY <1>1, <2>1 DEF Edged, EdgeHolds
<1> QED
  BY <1>2, <1>3

\* The four parts of Standing are inductive together.
LEMMA StandingStep ==
  ASSUME TxnTypeOK, Standing, Doomed, NEW t \in Txns, Steps(t)
  PROVE  Standing'
<1>0. Ordered /\ (\A u \in Txns : Progress(u)) /\ Exclusive /\ Latched
  BY DEF Standing
<1>1. Ordered'
  BY <1>0, OrderedStep
<1>2. \A u \in Txns : Progress(u)'
  BY <1>0, ProgressStep
<1>3. Exclusive'
  BY <1>0, ExclusiveStep
<1>4. Latched'
  <2>1. mode' = mode
    BY OthersStay
  <2> QED
    BY <1>0, <2>1, LatchedStep DEF Latched, Locking
<1> QED
  BY <1>1, <1>2, <1>3, <1>4 DEF Standing

-----------------------------------------------------------------------------
\* The last in the order that needs k.
Current(k) == LastWriter(k, Len(order))

\* The last writers stay with the order.
LEMMA CurrentStays ==
  ASSUME order' = order, needs' = needs, NEW k
  PROVE  Current(k)' = Current(k) /\ \A n : LastWriter(k, n)' = LastWriter(k, n)
BY DEF Current, LastWriter

\* Whoever joins is the last about what it needs, and nothing else changes.
LEMMA CurrentJoined ==
  ASSUME TxnTypeOK, NEW t \in Txns, Joins(t), needs' = needs, NEW k
  PROVE  /\ k \in needs[t] => Current(k)' = t
         /\ k \notin needs[t] => Current(k)' = Current(k)
         /\ \A n \in 0 .. Len(order) : LastWriter(k, n)' = LastWriter(k, n)
<1> DEFINE Of(n) == {i \in 1 .. n : k \in needs[order[i]]}
           NewOf(n) == {i \in 1 .. n : k \in needs[order'[i]]}
<1>1. /\ Len(order) \in Nat /\ Len(order') = Len(order) + 1
      /\ \A i \in 1 .. Len(order) : order'[i] = order[i]
      /\ order'[Len(order) + 1] = t
  BY JoinedOrder
<1>d. ASSUME NEW n
      PROVE  /\ LastWriter(k, n) = IF Of(n) = {} THEN Nobody ELSE order[Max(Of(n))]
             /\ LastWriter(k, n)' = IF NewOf(n) = {} THEN Nobody ELSE order'[Max(NewOf(n))]
  BY DEF LastWriter
<1>2. ASSUME NEW n \in 0 .. Len(order) PROVE LastWriter(k, n)' = LastWriter(k, n)
  <2>1. NewOf(n) = Of(n)
    BY <1>1
  <2>2. CASE Of(n) = {}
    BY <1>d, <2>1, <2>2
  <2>3. CASE Of(n) # {}
    <3>1. Of(n) \in SUBSET (1 .. n) /\ n \in Nat
      BY <1>1
    <3>2. PICK x \in Of(n) : \A y \in Of(n) : y <= x
      BY <2>3, <3>1, GreatestMember
    <3>3. Max(Of(n)) = x /\ x \in 1 .. Len(order)
      BY <1>1, <3>1, <3>2, MaxIs
    <3>4. order'[x] = order[x]
      BY <1>1, <3>3
    <3> QED
      BY <1>d, <2>1, <2>3, <3>3, <3>4
  <2> QED
    BY <2>2, <2>3
<1>l. PICK l \in Nat : l = Len(order)
  BY <1>1
<1>3. Current(k) = LastWriter(k, l) /\ Current(k)' = LastWriter(k, l + 1)'
  BY <1>1, <1>l DEF Current, LastWriter
<1>4. ASSUME k \in needs[t] PROVE Current(k)' = t
  <2>1. l + 1 \in NewOf(l + 1) /\ NewOf(l + 1) \in SUBSET Nat
    BY <1>1, <1>l, <1>4
  <2>2. \A y \in NewOf(l + 1) : y <= l + 1
    BY <1>1, <1>l
  <2>3. Max(NewOf(l + 1)) = l + 1
    BY <2>1, <2>2, MaxIs
  <2> QED
    BY <1>1, <1>l, <1>3, <1>d, <2>1, <2>3
<1>5. ASSUME k \notin needs[t] PROVE Current(k)' = Current(k)
  <2>1. NewOf(l + 1) = NewOf(l)
    BY <1>1, <1>l, <1>5
  <2>2. LastWriter(k, l + 1)' = LastWriter(k, l)'
    BY <1>d, <2>1
  <2> QED
    BY <1>1, <1>l, <1>2, <1>3, <2>2
<1> QED
  BY <1>2, <1>4, <1>5

\* Without locks only the one with the latch still holds what it writes.
LEMMA OnlyLatchWrites ==
  ASSUME Standing, ~ Locking, NEW u \in Txns, Past(u), latch # u
  PROVE  ToSet(held[u]) = {}
<1>1. phase[u] = "done"
  BY DEF Standing, Ordered, Reached, Revealed, Latched
<1> QED
  BY <1>1, NoKeys DEF Standing, Progress

\* Who joins the order has all that it needs, and nobody before it has any of it.
LEMMA JoinedKeys ==
  ASSUME TxnTypeOK, Standing, Doomed, NEW t \in Txns, Steps(t), Joins(t)
  PROVE  /\ Acquire(t) \/ Validate(t)
         /\ ToSet(held'[t]) = needs[t]
         /\ Locking => \A u \in Txns \ {t} : ToSet(held[u]) \cap needs[t] = {}
         /\ \A u \in Txns \ {t} : Past(u) => ToSet(held[u]) \cap needs[t] = {}
         /\ ~ Locking => Validate(t) /\ latch = Nobody /\ latch' = t
<1>1. order' # order
  BY JoinedOrder
<1>2. Acquire(t) \/ Validate(t)
  BY <1>1 DEF Steps, Begin, Read, Conflict, Abort, Stamp, Externalize, Release, WriteBack,
       Commit
<1>3. needs' = needs /\ mode' = mode /\ ToSet(<<>>) = {} /\ \A u \in Txns \ {t} : held'[u] = held[u]
  BY OthersStay, NoKeys
<1>4. ~ Locking => Validate(t) /\ latch = Nobody /\ latch' = t
  BY <1>2 DEF Acquire, Validate, Unlatched
<1>5. Standing'
  BY StandingStep
<1>6. ToSet(held'[t]) = needs[t]
  <2>1. Progress(t)'
    BY <1>5 DEF Standing
  <2>2. phase'[t] \in {"growing", "valid", "pending"} /\ plan'[t] = <<>>
    <3>1. CASE Acquire(t)
      <4>1. Takes(t) /\ phase' = phase /\ phase[t] = "growing" /\ Len(plan[t]) = 1
        BY <1>1, <3>1 DEF Acquire, Takes
      <4> QED
        BY <4>1, TakenKeys
    <3>2. CASE Validate(t)
      BY <3>2 DEF Validate, TxnTypeOK
    <3> QED
      BY <1>2, <3>1, <3>2
  <2> QED
    BY <1>3, <2>1, <2>2 DEF Progress
<1>7. ASSUME Locking, NEW u \in Txns \ {t} PROVE ToSet(held[u]) \cap needs[t] = {}
  <2>1. Exclusive' /\ Locking'
    BY <1>3, <1>5, <1>7 DEF Standing, Locking
  <2> QED
    BY <1>3, <1>6, <2>1 DEF Exclusive
<1>8. ASSUME NEW u \in Txns \ {t}, Past(u) PROVE ToSet(held[u]) \cap needs[t] = {}
  <2>1. CASE Locking
    BY <1>7, <2>1
  <2>2. CASE ~ Locking
    <3>1. latch # u
      BY <1>4, <2>2, TransactionsAssumption DEF Nobody
    <3> QED
      BY <1>8, <2>2, <3>1, OnlyLatchWrites
  <2> QED
    BY <2>1, <2>2
<1> QED
  BY <1>2, <1>4, <1>6, <1>7, <1>8

\* Who is in the order takes no more keys.
LEMMA PastKeys ==
  ASSUME TxnTypeOK, Standing, Doomed, NEW t \in Txns, Steps(t), Past(t)
  PROVE  /\ ToSet(held'[t]) \subseteq ToSet(held[t])
         /\ seen'[t] = seen[t] /\ order' = order
         /\ Stamp(t) \/ Externalize(t) \/ Release(t) \/ WriteBack(t) \/ Commit(t)
<1>1. Reached(t)
  BY DEF Standing, Ordered
<1>2. ~ Begin(t) /\ ~ Acquire(t) /\ ~ Read(t) /\ ~ Validate(t) /\ ~ Conflict(t)
  BY <1>1 DEF Reached, Revealed, Begin, Acquire, Read, Validate, Conflict
<1>3. ~ Abort(t)
  <2>1. SUFFICES ASSUME Abort(t) PROVE FALSE
    OBVIOUS
  <2>2. victim = t /\ victim # Nobody
    BY <2>1, TransactionsAssumption DEF Abort, Nobody
  <2> QED
    BY <1>1, <2>2, VictimWaits DEF Blocked, Reached, Revealed
<1>4. CASE Release(t) \/ WriteBack(t)
  <2>1. PICK k \in Keys : Gives(t, k)
    BY <1>4, ReleasedKeys, WrittenKeys
  <2> QED
    BY <1>4, <2>1 DEF Gives, Release, WriteBack
<1>5. CASE Stamp(t) \/ Externalize(t) \/ Commit(t)
  BY <1>5 DEF Stamp, Externalize, Commit
<1> QED
  BY <1>2, <1>3, <1>4, <1>5 DEF Steps

\* HoldersAreLast is inductive.
LEMMA HoldersAreLastStep ==
  ASSUME TxnTypeOK, Standing, Doomed, HoldersAreLast, NEW t \in Txns, Steps(t)
  PROVE  HoldersAreLast'
<1>0. needs' = needs /\ \A u \in Txns \ {t} : held'[u] = held[u]
  BY OthersStay
<1>1. CASE order' = order
  <2>1. ASSUME NEW u \in Txns, Past(u)', NEW k \in ToSet(held'[u]) PROVE Current(k)' = u
    <3>1. Past(u)
      BY <1>1, <2>1 DEF Past
    <3>2. k \in ToSet(held[u])
      BY <1>0, <2>1, <3>1, PastKeys
    <3> QED
      BY <1>0, <1>1, <3>1, <3>2, CurrentStays DEF HoldersAreLast, Current
  <2> QED
    BY <2>1 DEF HoldersAreLast, Current
<1>2. CASE Joins(t)
  <2>1. /\ ToSet(held'[t]) = needs[t]
        /\ \A u \in Txns \ {t} : Past(u) => ToSet(held[u]) \cap needs[t] = {}
    BY <1>2, JoinedKeys
  <2>2. ASSUME NEW u \in Txns, Past(u)', NEW k \in ToSet(held'[u]) PROVE Current(k)' = u
    <3>1. CASE u = t
      BY <1>0, <1>2, <2>1, <2>2, <3>1, CurrentJoined
    <3>2. CASE u # t
      <4>1. Past(u) /\ k \in ToSet(held[u])
        BY <1>0, <1>2, <2>2, <3>2, JoinedOrder
      <4>2. k \notin needs[t]
        BY <2>1, <3>2, <4>1
      <4> QED
        BY <1>0, <1>2, <4>1, <4>2, CurrentJoined DEF HoldersAreLast, Current
    <3> QED
      BY <3>1, <3>2
  <2> QED
    BY <2>2 DEF HoldersAreLast, Current
<1> QED
  BY <1>1, <1>2, OrderGoesOn DEF Standing

\* Values stay with the store.
LEMMA GetStays ==
  ASSUME store' = store
  PROVE  \A k : Get(k)' = Get(k)
BY DEF Get

\* Nobody in the order has k.
Free(k) == \A u \in Txns : Past(u) => k \notin ToSet(held[u])

\* FreeIsCurrent is inductive: who gives a key back writes its own value there.
LEMMA FreeIsCurrentStep ==
  ASSUME TxnTypeOK, Standing, Doomed, HoldersAreLast, FreeIsCurrent,
         NEW t \in Txns, Steps(t)
  PROVE  FreeIsCurrent'
<1>0. needs' = needs /\ \A u \in Txns \ {t} : held'[u] = held[u]
  BY OthersStay
<1>1. FreeIsCurrent <=> \A k \in Keys : Free(k) => Get(k) = Current(k)
  BY DEF FreeIsCurrent, Free, Current
<1>2. FreeIsCurrent' <=> \A k \in Keys : Free(k)' => Get(k)' = Current(k)'
  BY DEF FreeIsCurrent, Free, Current
<1>3. ASSUME order' = order, ~ Release(t), ~ WriteBack(t), NEW k \in Keys, Free(k)'
      PROVE  Get(k)' = Current(k)'
  <2>1. store' = store
    BY <1>3 DEF Steps, Begin, Acquire, Read, Validate, Conflict, Abort, Stamp, Externalize,
         Commit
  <2>2. \A u : Past(u)' <=> Past(u)
    BY <1>3 DEF Past
  <2>3. ASSUME Past(t) PROVE held'[t] = held[t]
    <3>1. Stamp(t) \/ Externalize(t) \/ Commit(t)
      BY <1>3, <2>3, PastKeys
    <3> QED
      BY <3>1 DEF Stamp, Externalize, Commit
  <2>4. Free(k)
    BY <1>0, <1>3, <2>2, <2>3 DEF Free
  <2> QED
    BY <1>0, <1>1, <1>3, <2>1, <2>4, GetStays, CurrentStays
<1>4. ASSUME Release(t) \/ WriteBack(t), NEW k \in Keys, Free(k)'
      PROVE  Get(k)' = Current(k)'
  <2>1. order' = order /\ phase[t] \in Revealed
    BY <1>4 DEF Release, WriteBack, Reveals, Revealed
  <2>2. (\A u : Past(u)' <=> Past(u)) /\ Past(t)
    BY <2>1 DEF Past, Standing, Ordered, Reached
  <2>3. PICK g \in Keys : Gives(t, g)
    BY <1>4, ReleasedKeys, WrittenKeys
  <2>4. Get(g)' = t /\ \A j \in Keys \ {g} : Get(j)' = Get(j)
    BY <2>3, Written DEF Gives
  <2>5. Current(k)' = Current(k)
    BY <1>0, <2>1, CurrentStays
  <2>6. CASE k = g
    <3>1. Current(k) = t
      BY <2>2, <2>3, <2>6 DEF Gives, HoldersAreLast, Current
    <3> QED
      BY <2>4, <2>5, <2>6, <3>1
  <2>7. CASE k # g
    <3>1. k \notin ToSet(held'[t])
      BY <1>4, <2>2 DEF Free
    <3>2. k \notin ToSet(held[t])
      BY <2>3, <2>7, <3>1 DEF Gives
    <3>3. Free(k)
      BY <1>0, <1>4, <2>2, <3>2 DEF Free
    <3>4. Get(k) = Current(k)
      BY <1>1, <3>3
    <3> QED
      BY <2>4, <2>5, <2>7, <3>4
  <2> QED
    BY <2>6, <2>7
<1>5. ASSUME Joins(t), NEW k \in Keys, Free(k)' PROVE Get(k)' = Current(k)'
  <2>1. (Acquire(t) \/ Validate(t)) /\ ToSet(held'[t]) = needs[t]
    BY <1>5, JoinedKeys
  <2>2. store' = store
    BY <2>1 DEF Acquire, Validate
  <2>3. \A u : Past(u)' <=> (Past(u) \/ u = t)
    BY <1>5, JoinedOrder
  <2>4. k \notin needs[t]
    BY <1>5, <2>1, <2>3 DEF Free
  <2>5. Free(k)
    BY <1>0, <1>5, <2>3 DEF Free, Joins
  <2>6. Get(k) = Current(k)
    BY <1>1, <2>5
  <2>7. Current(k)' = Current(k)
    BY <1>0, <1>5, <2>4, CurrentJoined
  <2> QED
    BY <2>2, <2>6, <2>7, GetStays
<1>6. order' = order \/ Joins(t)
  BY OrderGoesOn DEF Standing
<1> QED
  BY <1>2, <1>3, <1>4, <1>5, <1>6

\* A transaction that GrowingIsCurrent is about.
Growing(u) ==
  /\ phase[u] = "growing" /\ ~ Past(u)
  /\ Locking \/ (latch = Nobody /\ snapshot[u] = version)

\* What it has after its next step is what the last in the order wrote.
LEMMA TakenIsCurrent ==
  ASSUME TxnTypeOK, Standing, FreeIsCurrent, GrowingIsCurrent,
         NEW t \in Txns, Growing(t), Acquire(t) \/ Read(t) \/ Validate(t)
  PROVE  \A k \in ToSet(held'[t]) : seen'[t][k] = Current(k)
<1>1. \A k \in ToSet(held[t]) : seen[t][k] = Current(k)
  BY DEF Growing, GrowingIsCurrent, Current
<1>2. CASE Validate(t)
  BY <1>1, <1>2 DEF Validate
<1>3. CASE Acquire(t) \/ Read(t)
  <2> DEFINE h == Head(plan[t])
  <2>1. Takes(t)
    BY <1>3 DEF Acquire, Read, Takes
  <2>2. /\ h \in Keys /\ ToSet(held'[t]) = ToSet(held[t]) \cup {h}
        /\ seen'[t][h] = Get(h)
        /\ \A k \in Keys \ {h} : seen'[t][k] = seen[t][k]
    BY <2>1, TakenKeys
  <2> HIDE DEF h
  <2>3. Free(h)
    <3>1. CASE Locking
      <4>1. Holders(h) = {}
        BY <1>3, <3>1 DEF Acquire, Read, Blocked, h
      <4> QED
        BY <4>1 DEF Holders, Free
    <3>2. CASE ~ Locking
      <4>1. \A u \in Txns : latch # u
        BY <3>2, TransactionsAssumption DEF Growing, Nobody
      <4> QED
        BY <3>2, <4>1, OnlyLatchWrites DEF Free
    <3> QED
      BY <3>1, <3>2
  <2>4. Get(h) = Current(h)
    BY <2>2, <2>3 DEF FreeIsCurrent, Free, Current
  <2>5. ToSet(held[t]) \subseteq Keys
    BY HeldAreKeys
  <2> QED
    BY <1>1, <2>2, <2>4, <2>5
<1> QED
  BY <1>2, <1>3

\* GrowingIsCurrent is inductive: who joins the order needs no key another has read
\* under a lock, and without locks the version moves past every other snapshot.
LEMMA GrowingIsCurrentStep ==
  ASSUME TxnTypeOK, Standing, Doomed, FreeIsCurrent, GrowingIsCurrent,
         NEW t \in Txns, Steps(t)
  PROVE  GrowingIsCurrent'
<1>0. /\ mode' = mode /\ needs' = needs
      /\ \A u \in Txns \ {t} :
           phase'[u] = phase[u] /\ held'[u] = held[u] /\ seen'[u] = seen[u]
  BY OthersStay
<1>1. order' = order \/ Joins(t)
  BY OrderGoesOn DEF Standing
<1>2. \A u \in Txns : Growing(u) => \A k \in ToSet(held[u]) : seen[u][k] = Current(k)
  BY DEF Growing, GrowingIsCurrent, Current
<1>3. ASSUME NEW u \in Txns \ {t}, Growing(u)', NEW k \in ToSet(held'[u])
      PROVE  seen'[u][k] = Current(k)'
  <2>1. phase[u] = "growing" /\ ~ Past(u)
    <3>1. Past(u) => Past(u)'
      BY <1>1, JoinedOrder DEF Past
    <3> QED
      BY <1>0, <1>3, <3>1 DEF Growing
  <2>2. CASE Locking
    <3>1. seen[u][k] = Current(k)
      BY <1>0, <1>2, <1>3, <2>1, <2>2 DEF Growing
    <3>2. CASE order' = order
      BY <1>0, <1>3, <3>1, <3>2, CurrentStays
    <3>3. CASE Joins(t)
      <4>1. k \notin needs[t]
        BY <1>0, <1>3, <2>2, <3>3, JoinedKeys
      <4> QED
        BY <1>0, <1>3, <3>1, <3>3, <4>1, CurrentJoined
    <3> QED
      BY <1>1, <3>2, <3>3
  <2>3. CASE ~ Locking
    <3>1. latch' = Nobody /\ snapshot'[u] = version' /\ ~ Locking'
      BY <1>0, <1>3, <2>3 DEF Growing, Locking
    <3>2. snapshot'[u] = snapshot[u]
      <4>1. snapshot \in [Txns -> Nat]
        BY DEF TxnTypeOK
      <4>2. CASE Begin(t)
        BY <4>1, <4>2 DEF Begin, Snapshot
      <4>3. CASE ~ Begin(t)
        BY <4>3 DEF Steps, Acquire, Read, Validate, Conflict, Abort, Stamp, Externalize,
             Release, WriteBack, Commit
      <4> QED
        BY <4>2, <4>3
    <3>3. ~ Commit(t)
      <4>1. snapshot[u] \in Nat /\ version \in Nat /\ snapshot[u] <= version
        BY <2>3 DEF TxnTypeOK, Standing, Latched
      <4>2. Commit(t) => version' = version + 1
        BY <2>3 DEF Commit, NextVersion
      <4> QED
        BY <3>1, <3>2, <4>1, <4>2
    <3>4. ~ Joins(t)
      BY <2>3, <3>1, JoinedKeys, TransactionsAssumption DEF Nobody
    <3>5. ~ Validate(t)
      BY <3>1, TransactionsAssumption DEF Validate, Nobody
    <3>6. latch' = latch /\ version' = version
      BY <3>3, <3>5 DEF Steps, Begin, Acquire, Read, Conflict, Abort, Stamp, Externalize,
           Release, WriteBack
    <3>7. Growing(u)
      BY <2>1, <3>1, <3>2, <3>6 DEF Growing
    <3>8. Current(k)' = Current(k)
      BY <1>0, <1>1, <3>4, CurrentStays
    <3> QED
      BY <1>0, <1>2, <1>3, <3>7, <3>8
  <2> QED
    BY <2>2, <2>3
<1>4. ASSUME Growing(t)', NEW k \in ToSet(held'[t]) PROVE seen'[t][k] = Current(k)'
  <2>0. phase \in [Txns -> Phases]
    BY DEF TxnTypeOK, Phases
  <2>1. Begin(t) \/ Acquire(t) \/ Read(t)
    <3>1. phase'[t] = "growing"
      BY <1>4 DEF Growing
    <3>2. ~ Validate(t) /\ ~ Conflict(t) /\ ~ Abort(t) /\ ~ Stamp(t)
      BY <2>0, <3>1 DEF Validate, Conflict, Abort, Dropped, Stamp
    <3>3. ~ Externalize(t) /\ ~ Release(t) /\ ~ WriteBack(t) /\ ~ Commit(t)
      BY <2>0, <3>1 DEF Externalize, Release, WriteBack, Reveals, Commit
    <3> QED
      BY <3>2, <3>3 DEF Steps
  <2>2. ~ Begin(t)
    <3>1. Begin(t) => held'[t] = <<>>
      BY DEF Begin, Standing, Progress
    <3> QED
      BY <1>4, <3>1, NoKeys
  <2>3. order' = order
    <3>1. ~ Past(t)'
      BY <1>4 DEF Growing
    <3> QED
      BY <1>1, <3>1, JoinedOrder
  <2>4. /\ phase' = phase /\ latch' = latch /\ version' = version /\ snapshot' = snapshot
    BY <2>1, <2>2 DEF Acquire, Read
  <2>5. Growing(t)
    BY <1>0, <1>4, <2>3, <2>4 DEF Growing, Past, Locking
  <2>6. seen'[t][k] = Current(k)
    BY <1>4, <2>1, <2>2, <2>5, TakenIsCurrent
  <2> QED
    BY <1>0, <2>3, <2>6, CurrentStays
<1> QED
  BY <1>3, <1>4 DEF Growing, GrowingIsCurrent, Current

\* Serializable is inductive: who joins the order has read the last values of all it needs.
LEMMA SerializableStep ==
  ASSUME TxnTypeOK, Standing, Doomed, FreeIsCurrent, GrowingIsCurrent, Serializable,
         NEW t \in Txns, Steps(t)
  PROVE  Serializable'
<1>0. /\ needs' = needs
      /\ \A u \in Txns \ {t} : seen'[u] = seen[u]
  BY OthersStay
<1>o. order \in Seq(Txns) /\ Len(order) \in Nat /\ DOMAIN order = 1 .. Len(order)
  BY DEF TxnTypeOK
<1>1. \A n \in DOMAIN order : order[n] \in Txns /\ Past(order[n]) /\ seen'[order[n]] = seen[order[n]]
  <2>1. ASSUME NEW n \in DOMAIN order
        PROVE  order[n] \in Txns /\ Past(order[n]) /\ seen'[order[n]] = seen[order[n]]
    <3>1. order[n] \in Txns /\ Past(order[n])
      BY <1>o DEF Past, ToSet
    <3>2. seen'[order[n]] = seen[order[n]]
      BY <1>0, <3>1, PastKeys
    <3> QED
      BY <3>1, <3>2
  <2> QED
    BY <2>1
<1>2. CASE order' = order
  <2>1. \A k, n : LastWriter(k, n)' = LastWriter(k, n)
    BY <1>0, <1>2, CurrentStays
  <2>2. ASSUME NEW n \in DOMAIN order', NEW k \in needs'[order'[n]]
        PROVE  seen'[order'[n]][k] = LastWriter(k, n - 1)'
    BY <1>0, <1>1, <1>2, <2>1, <2>2 DEF Serializable
  <2> QED
    BY <2>2 DEF Serializable
<1>3. CASE Joins(t)
  <2>1. /\ Len(order') = Len(order) + 1 /\ order'[Len(order')] = t
        /\ DOMAIN order' = 1 .. Len(order')
        /\ \A i \in DOMAIN order : order'[i] = order[i] /\ order[i] # t
    BY <1>3, JoinedOrder
  <2>2. \A k : \A n \in 0 .. Len(order) : LastWriter(k, n)' = LastWriter(k, n)
    BY <1>0, <1>3, CurrentJoined
  <2>3. ASSUME NEW n \in DOMAIN order', NEW k \in needs'[order'[n]]
        PROVE  seen'[order'[n]][k] = LastWriter(k, n - 1)'
    <3>1. CASE n \in DOMAIN order
      <4>1. n - 1 \in 0 .. Len(order)
        BY <1>o, <3>1
      <4>2. LastWriter(k, n - 1)' = LastWriter(k, n - 1)
        BY <2>2, <4>1
      <4> QED
        BY <1>0, <1>1, <2>1, <2>3, <3>1, <4>2 DEF Serializable
    <3>2. CASE n \notin DOMAIN order
      <4>1. n = Len(order) + 1 /\ order'[n] = t /\ n - 1 = Len(order)
        BY <1>o, <2>1, <2>3, <3>2
      <4>2. Acquire(t) \/ Validate(t)
        BY <1>3, JoinedKeys
      <4>3. k \in ToSet(held'[t])
        BY <1>0, <1>3, <2>3, <4>1, JoinedKeys
      <4>4. Growing(t)
        BY <1>3, <4>2 DEF Growing, Joins, Acquire, Validate, Unlatched, UnchangedSince
      <4>5. seen'[t][k] = Current(k)
        BY <4>2, <4>3, <4>4, TakenIsCurrent
      <4>6. LastWriter(k, n - 1)' = Current(k)
        <5>1. n - 1 \in 0 .. Len(order)
          BY <1>o, <4>1
        <5>2. LastWriter(k, n - 1)' = LastWriter(k, n - 1)
          BY <2>2, <5>1
        <5> QED
          BY <4>1, <5>2 DEF Current
      <4> QED
        BY <4>1, <4>5, <4>6
    <3> QED
      BY <3>1, <3>2
  <2> QED
    BY <2>3 DEF Serializable
<1> QED
  BY <1>2, <1>3, OrderGoesOn DEF Standing

-----------------------------------------------------------------------------
\* Claims, detections and time leave keys, values and phases alone.
LEMMA StandingStays ==
  ASSUME Standing, UNCHANGED <<mode, needs, phase, plan, held, order, version, snapshot, latch>>,
         \A u \in Txns : left[u] = -1 => left'[u] = -1
  PROVE  Standing'
<1>1. Ordered' /\ Exclusive' /\ Latched'
  BY DEF Standing, Ordered, Past, Reached, Locking, Exclusive, Latched
<1>2. ASSUME NEW u \in Txns PROVE Progress(u)'
  BY DEF Standing, Progress
<1> QED
  BY <1>1, <1>2 DEF Standing

\* Nor do they touch what was read.
LEMMA ValuesStay ==
  ASSUME HoldersAreLast, FreeIsCurrent, GrowingIsCurrent, Serializable,
         UNCHANGED <<mode, needs, phase, held, seen, store, order, version, snapshot, latch>>
  PROVE  HoldersAreLast' /\ FreeIsCurrent' /\ GrowingIsCurrent' /\ Serializable'
<1>0. /\ \A k, n : LastWriter(k, n)' = LastWriter(k, n)
      /\ \A k : Get(k)' = Get(k)
      /\ \A u : Past(u)' <=> Past(u)
      /\ Locking' <=> Locking
  BY GetStays DEF LastWriter, Past, Locking
<1>1. HoldersAreLast'
  BY <1>0 DEF HoldersAreLast
<1>2. FreeIsCurrent'
  BY <1>0 DEF FreeIsCurrent
<1>3. GrowingIsCurrent'
  BY <1>0 DEF GrowingIsCurrent
<1>4. Serializable'
  BY <1>0 DEF Serializable
<1> QED
  BY <1>1, <1>2, <1>3, <1>4

\* A new claim is about a wait that goes on.
LEMMA ClaimStep ==
  ASSUME Doomed, Edged, TxnTypeOK, NEW t \in Txns, Claim(t)
  PROVE  Doomed' /\ Edged'
<1>1. /\ mode = "detected" /\ victim = Nobody /\ Blocked(t)
      /\ edges' = [edges EXCEPT ![t] = HolderOf(t)]
      /\ UNCHANGED <<mode, phase, plan, held, order, victim>>
  BY DEF Claim, GraphOpen
<1>2. HolderOf(t) \in Holders(Head(plan[t]))
  BY <1>1 DEF Blocked, HolderOf
<1>3. edges \in [Txns -> Txns \cup {Nobody}]
  BY DEF TxnTypeOK
<1>4. ASSUME NEW u \in Txns, edges'[u] # Nobody PROVE \E v : v = edges'[u] /\ EdgeHolds(u, v)'
  <2>0. PICK v : v = edges'[u]
    OBVIOUS
  <2>1. EdgeHolds(u, v)
    <3>1. CASE u = t
      BY <1>1, <1>2, <1>3, <2>0, <3>1 DEF EdgeHolds
    <3>2. CASE u # t
      BY <1>1, <1>3, <1>4, <2>0, <3>2 DEF Edged, EdgeHolds
    <3> QED
      BY <3>1, <3>2
  <2>2. EdgeHolds(u, v)'
    BY <1>1, <2>1 DEF EdgeHolds, Blocked, Locking, Holders, Past, Before
  <2> QED
    BY <2>0, <2>2
<1>5. Edged'
  BY <1>4 DEF Edged, EdgeHolds
<1>6. Doomed'
  BY <1>1 DEF Doomed
<1> QED
  BY <1>5, <1>6

\* Claims stay true while nobody moves.
LEMMA LinksStay ==
  ASSUME Doomed, Edged, UNCHANGED <<mode, phase, plan, held, order, edges, victim>>
  PROVE  Doomed' /\ Edged'
<1>1. /\ \A u : (Blocked(u)' <=> Blocked(u)) /\ (Past(u)' <=> Past(u))
      /\ \A u : Holders(Head(plan[u]))' = Holders(Head(plan[u]))
      /\ \A u, v : Before(u, v)' <=> Before(u, v)
  BY DEF Blocked, Locking, Holders, Past, Before
<1>2. Doomed'
  BY <1>1 DEF Doomed
<1>3. Edged'
  BY <1>1 DEF Edged
<1> QED
  BY <1>2, <1>3

\* TxnInv holds at first.
LEMMA TxnInvInit == TxnInit => TxnInv
<1> SUFFICES ASSUME TxnInit PROVE TxnInv
  OBVIOUS
<1>0. order = <<>> /\ (\A t \in Txns : phase[t] = "idle" /\ plan[t] = <<>> /\ held[t] = <<>>)
      /\ victim = Nobody /\ (\A t \in Txns : edges[t] = Nobody) /\ version = 0
      /\ (\A t \in Txns : snapshot[t] = 0)
  BY DEF TxnInit
<1>1. ToSet(<<>>) = {} /\ DOMAIN order = {} /\ Len(order) = 0
  BY <1>0, NoKeys
<1>2. TxnTypeOK
  <2>1. <<>> \in Seq(Keys) /\ <<>> \in Seq(Txns) /\ Epsilon \in Nat
    BY TransactionsAssumption
  <2> QED
    BY <2>1 DEF TxnInit, TxnTypeOK
<1>3. Ordered
  BY <1>0, <1>1 DEF Ordered, Past, Reached, Revealed
<1>4. \A t \in Txns : Progress(t)
  BY <1>0 DEF Progress, Revealed
<1>5. Exclusive /\ Latched
  BY <1>0, <1>1 DEF Exclusive, Latched
<1>6. Doomed /\ Edged
  BY <1>0 DEF Doomed, Edged
<1>7. HoldersAreLast
  BY <1>0, <1>1 DEF HoldersAreLast
<1>8. FreeIsCurrent
  <2>1. ASSUME NEW k \in Keys PROVE Get(k) = Nobody /\ LastWriter(k, Len(order)) = Nobody
    <3>1. Get(k) = Nobody
      BY Routed DEF TxnInit
    <3>2. {i \in 1 .. 0 : k \in needs[order[i]]} = {}
      OBVIOUS
    <3> QED
      BY <1>1, <3>1, <3>2 DEF LastWriter
  <2> QED
    BY <2>1 DEF FreeIsCurrent
<1>9. GrowingIsCurrent
  BY <1>0 DEF GrowingIsCurrent
<1>10. Serializable
  BY <1>1 DEF Serializable
<1> QED
  BY <1>2, <1>3, <1>4, <1>5, <1>6, <1>7, <1>8, <1>9, <1>10 DEF TxnInv, Standing

\* TxnInv is kept by every step.
LEMMA TxnInvNext == TxnInv /\ [TxnNext]_txnVars => TxnInv'
<1> SUFFICES ASSUME TxnInv, [TxnNext]_txnVars PROVE TxnInv'
  OBVIOUS
<1>0. /\ TxnTypeOK /\ Standing /\ Doomed /\ Edged
      /\ HoldersAreLast /\ FreeIsCurrent /\ GrowingIsCurrent /\ Serializable
      /\ Ordered
  BY DEF TxnInv, Standing
<1>t. TxnTypeOK'
  BY <1>0, TxnTypeNext
<1>1. ASSUME NEW t \in Txns, Steps(t) PROVE TxnInv'
  <2>1. Standing'
    BY <1>0, <1>1, StandingStep
  <2>2. Doomed'
    BY <1>0, <1>1, DoomedStep
  <2>3. Edged'
    BY <1>0, <1>1, EdgedStep
  <2>4. HoldersAreLast'
    BY <1>0, <1>1, HoldersAreLastStep
  <2>5. FreeIsCurrent'
    BY <1>0, <1>1, FreeIsCurrentStep
  <2>6. GrowingIsCurrent'
    BY <1>0, <1>1, GrowingIsCurrentStep
  <2>7. Serializable'
    BY <1>0, <1>1, SerializableStep
  <2> QED
    BY <1>t, <2>1, <2>2, <2>3, <2>4, <2>5, <2>6, <2>7 DEF TxnInv
<1>2. ASSUME NEW t \in Txns, Claim(t) PROVE TxnInv'
  <2>1. Doomed' /\ Edged'
    BY <1>0, <1>2, ClaimStep
  <2>2. Standing'
    BY <1>0, <1>2, StandingStays DEF Claim
  <2>3. HoldersAreLast' /\ FreeIsCurrent' /\ GrowingIsCurrent' /\ Serializable'
    BY <1>0, <1>2, ValuesStay DEF Claim
  <2> QED
    BY <1>t, <2>1, <2>2, <2>3 DEF TxnInv
<1>3. CASE Detect
  <2>1. Doomed'
    BY <1>0, <1>3, DoomedDetect
  <2>2. Edged'
    BY <1>3 DEF Detect, Edged
  <2>3. Standing'
    BY <1>0, <1>3, StandingStays DEF Detect
  <2>4. HoldersAreLast' /\ FreeIsCurrent' /\ GrowingIsCurrent' /\ Serializable'
    BY <1>0, <1>3, ValuesStay DEF Detect
  <2> QED
    BY <1>t, <2>1, <2>2, <2>3, <2>4 DEF TxnInv
<1>4. CASE Pass
  <2>1. Doomed' /\ Edged'
    BY <1>0, <1>4, LinksStay DEF Pass
  <2>2. Standing'
    BY <1>0, <1>4, StandingStays DEF Pass
  <2>3. HoldersAreLast' /\ FreeIsCurrent' /\ GrowingIsCurrent' /\ Serializable'
    BY <1>0, <1>4, ValuesStay DEF Pass
  <2> QED
    BY <1>t, <2>1, <2>2, <2>3 DEF TxnInv
<1>5. CASE UNCHANGED txnVars
  <2>1. Doomed' /\ Edged'
    BY <1>0, <1>5, LinksStay DEF txnVars
  <2>2. Standing'
    BY <1>0, <1>5, StandingStays DEF txnVars
  <2>3. HoldersAreLast' /\ FreeIsCurrent' /\ GrowingIsCurrent' /\ Serializable'
    BY <1>0, <1>5, ValuesStay DEF txnVars
  <2> QED
    BY <1>t, <2>1, <2>2, <2>3 DEF TxnInv
<1> QED
  BY <1>1, <1>2, <1>3, <1>4, <1>5 DEF TxnNext

\* TxnInv always holds.
LEMMA TxnInvAlways == TransactionsSpec => []TxnInv
<1> QED
  BY TxnInvInit, TxnInvNext, PTL DEF TransactionsSpec

\* Serializable always holds: under locks in rank order or in any order, with victims
\* aborted, or optimistically under a latch, each transaction read what those before it
\* in the order wrote.
THEOREM SchedulesAreSerializable == TransactionsSpec => []Serializable
<1>1. TxnInv => Serializable
  BY DEF TxnInv
<1> QED
  BY <1>1, TxnInvAlways, PTL

\* CycleIsDeadlock always holds: claims may be stale, but the members of a cycle of
\* claims are blocked by each other.
THEOREM NoPhantomDeadlocks == TransactionsSpec => []CycleIsDeadlock
<1>1. TxnInv => CycleIsDeadlock
  BY CyclesAreDeadlocks DEF TxnInv, Standing
<1> QED
  BY <1>1, TxnInvAlways, PTL

\* Who is stamped comes after all that are revealed, and after all before it in the
\* order that share a key with it: they gave that key back, so they are revealed.
LEMMA StampedAfter ==
  ASSUME TxnInv, [TxnNext]_txnVars, NEW t \in Txns, NEW u \in Txns,
         phase[t] # "pending", phase'[t] = "pending",
         \/ phase[u] \in Revealed
         \/ needs[u] \cap needs[t] # {} /\ Before(u, t)
  PROVE  left[u] < left'[t]
<1>0. TxnTypeOK /\ Standing /\ Ordered /\ HoldersAreLast /\ Epsilon \in Nat
  BY TransactionsAssumption DEF TxnInv, Standing
<1>1. phase \in [Txns -> Phases] /\ left \in [Txns -> -1 .. Epsilon]
  BY <1>0 DEF TxnTypeOK, Phases
<1>2. Stamp(t)
  <2>1. PICK s \in Txns : Steps(s)
    BY DEF TxnNext, Claim, Detect, Pass, txnVars
  <2>2. s = t
    BY <1>0, <2>1, OthersStay
  <2>3. Begin(t) => phase'[t] = "growing"
    BY <1>1 DEF Begin
  <2>4. Validate(t) => phase'[t] = "valid"
    BY <1>1 DEF Validate
  <2>5. ~ Acquire(t) /\ ~ Read(t) /\ ~ WriteBack(t)
    BY DEF Acquire, Read, WriteBack
  <2>6. ~ Conflict(t) /\ ~ Abort(t)
    BY <1>1 DEF Conflict, Abort, Dropped
  <2>7. ~ Externalize(t) /\ ~ Release(t) /\ ~ Commit(t)
    BY <1>1 DEF Externalize, Release, Commit
  <2> QED
    BY <2>1, <2>2, <2>3, <2>4, <2>5, <2>6, <2>7 DEF Steps
<1>3. left'[t] \in 0 .. Epsilon
  <2>1. PICK error \in 0 .. Epsilon : left' = [left EXCEPT ![t] = Latest(error)]
    BY <1>2 DEF Stamp
  <2>2. left'[t] = Epsilon - error
    BY <1>1, <2>1 DEF Latest
  <2> QED
    BY <1>0, <2>2
<1>4. phase[u] \in Revealed
  <2>1. SUFFICES ASSUME needs[u] \cap needs[t] # {}, Before(u, t), phase[u] \notin Revealed
                 PROVE  FALSE
    OBVIOUS
  <2>2. u # t /\ Past(u) /\ Past(t)
    <3>1. PICK m, n \in DOMAIN order : m < n /\ order[m] = u /\ order[n] = t
      BY <2>1 DEF Before
    <3>2. m # n
      <4>1. order \in Seq(Txns)
        BY <1>0 DEF TxnTypeOK
      <4>2. m \in 1 .. Len(order) /\ n \in 1 .. Len(order) /\ Len(order) \in Nat
        BY <4>1
      <4> QED
        BY <3>1, <4>2
    <3> QED
      BY <1>0, <3>1, <3>2 DEF Past, ToSet, Ordered
  <2>3. PICK k \in needs[u] : k \in needs[t]
    BY <2>1
  <2>4. ASSUME NEW v \in Txns, phase[v] \in {"growing", "valid", "pending"}, Past(v)
        PROVE  ToSet(held[v]) = needs[v]
    <3>1. plan[v] = <<>>
      BY <1>0, <2>4 DEF Ordered, Reached, Revealed, Standing, Progress
    <3> QED
      BY <1>0, <2>4, <3>1, NoKeys DEF Standing, Progress
  <2>5. k \in ToSet(held[t])
    BY <1>2, <2>2, <2>3, <2>4 DEF Stamp, Ready
  <2>6. k \in ToSet(held[u])
    BY <1>0, <2>1, <2>2, <2>3, <2>4 DEF Ordered, Reached
  <2> QED
    BY <1>0, <2>2, <2>5, <2>6 DEF HoldersAreLast
<1>5. left[u] = -1
  BY <1>0, <1>4 DEF Standing, Progress
<1> QED
  BY <1>3, <1>5

\* Every step satisfies TimestampsFollowTheOrder: a commit timestamp is later than those
\* of all that were revealed before it and of all conflicting ones before it.
THEOREM TimestampsAreOrdered == TransactionsSpec => TimestampsFollowTheOrder
<1>1. TxnInv /\ [TxnNext]_txnVars =>
        [\A t, u \in Txns :
           /\ phase[t] # "pending" /\ phase'[t] = "pending"
           /\ \/ phase[u] \in {"externalized", "shrinking", "done"}
              \/ /\ u \in ToSet(order) /\ needs[u] \cap needs[t] # {}
                 /\ \E m, n \in DOMAIN order : m < n /\ order[m] = u /\ order[n] = t
           => left[u] < left'[t]]_txnVars
  BY StampedAfter DEF Revealed, Before
<1> QED
  BY <1>1, TxnInvAlways, PTL DEF TransactionsSpec, TimestampsFollowTheOrder

=============================================================================
