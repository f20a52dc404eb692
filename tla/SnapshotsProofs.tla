--------------------------- MODULE SnapshotsProofs ---------------------------
(* Proofs about Snapshots: for every set of processes and channels, every     *)
(* choice of initiators and every bound, what the markers record is a         *)
(* consistent cut, each slice counts exactly what was in flight across it,    *)
(* and rolling back ends at the greatest consistent line.                     *)
EXTENDS Snapshots, FiniteSetTheorems, TLAPS

\* Event numbers grow: what is known of an event is at or before the present.
NumbersOfThePast ==
  /\ \A c \in Channels : \A i \in 1 .. Len(chan[c]) : chan[c][i] <= event[c[1]]
  /\ \A m \in log : m.sent <= event[m.from] /\ m.received <= event[m.to]
  /\ \A p \in Procs : own_state[p] <= event[p]

\* The marker of a process that has begun is on its way, or has made the other begin.
MarkerIsOut ==
  recovery = "none" => \A c \in Channels :
    Begun(c[1]) => Begun(c[2]) \/ \E j \in 1 .. Len(chan[c]) : chan[c][j] = Marker

\* A message sent after the recording is behind the marker.
MarkerIsFirst ==
  recovery = "none" => \A c \in Channels : \A i \in 1 .. Len(chan[c]) :
    Begun(c[1]) /\ chan[c][i] > own_state[c[1]]
      => Begun(c[2]) \/ \E j \in 1 .. (i - 1) : chan[c][j] = Marker

\* What was sent after the sender's recording is received after the receiver's.
NothingComesFromTheFuture ==
  \A m \in log :
    Begun(m.from) /\ m.sent > own_state[m.from] => Begun(m.to) /\ m.received > own_state[m.to]

\* The line lies between the checkpoints and every consistent cut of them.
LineIsBetween ==
  /\ recovery # "none" =>
       /\ Below(line, initial)
       /\ \A cut \in [Procs -> Nat] :
            Below(cut, initial) /\ Verifies(cut, log) => Below(cut, line)
  /\ recovery = "resolved" => Verifies(line, log)

IInv ==
  /\ TypeOK
  /\ NumbersOfThePast
  /\ MarkerIsOut
  /\ MarkerIsFirst
  /\ NothingComesFromTheFuture
  /\ LineIsBetween

-----------------------------------------------------------------------------
\* What Begin of p does to channels that are those of before, less what p has read.
LEMMA BeginKeeps ==
  ASSUME IInv, NEW p \in Procs, NEW channels \in [Channels -> Seq(Nat)],
         recovery = "none", phase[p] = "idle",
         \A c \in Channels : c[2] # p => channels[c] = chan[c],
         \A c \in Channels : \A i \in 1 .. Len(channels[c]) : channels[c][i] <= event[c[1]],
         Begin(p, channels), UNCHANGED <<event, log, recovery>>
  PROVE  /\ phase' \in [Procs -> {"idle", "recording", "recorded", "incomplete"}]
         /\ own_state' \in [Procs -> Nat]
         /\ chan' \in [Channels -> Seq(Nat)]
         /\ NumbersOfThePast' /\ MarkerIsOut' /\ MarkerIsFirst'
         /\ NothingComesFromTheFuture'
<1> USE SnapshotAssumption
<1> TypeOK
  BY DEF IInv
<1>1. /\ event \in [Procs -> Nat] /\ chan \in [Channels -> Seq(Nat)]
      /\ log \in SUBSET Messages /\ own_state \in [Procs -> Nat]
      /\ phase \in [Procs -> {"idle", "recording", "recorded", "incomplete"}]
  BY DEF TypeOK
<1>2. /\ phase' = [phase EXCEPT ![p] = "recording"]
      /\ own_state' = [own_state EXCEPT ![p] = event[p]]
      /\ chan' = [c \in Channels |->
                    IF c[1] = p THEN Append(channels[c], Marker) ELSE channels[c]]
  BY DEF Begin
<1>3. /\ phase' \in [Procs -> {"idle", "recording", "recorded", "incomplete"}]
      /\ own_state' \in [Procs -> Nat]
  BY <1>1, <1>2
<1>4. \A q \in Procs : /\ q = p => Begun(q)' /\ own_state'[q] = event[q]
                       /\ q # p => Begun(q)' = Begun(q) /\ own_state'[q] = own_state[q]
  BY <1>1, <1>2 DEF Begun
<1>5. \A c \in Channels : c[1] \in Procs /\ c[2] \in Procs /\ c[1] # c[2]
  OBVIOUS
<1>6. \A c \in Channels : channels[c] \in Seq(Nat) /\ Append(channels[c], Marker) \in Seq(Nat)
  BY DEF Marker
<1>7. chan' \in [Channels -> Seq(Nat)]
  BY <1>2, <1>6
<1>8. \A c \in Channels :
        /\ c[1] # p => chan'[c] = channels[c]
        /\ c[1] = p => /\ Len(chan'[c]) = Len(channels[c]) + 1
                       /\ chan'[c][Len(channels[c]) + 1] = Marker
                       /\ \A i \in 1 .. Len(channels[c]) : chan'[c][i] = channels[c][i]
  BY <1>2, <1>6
<1>9. NumbersOfThePast'
  <2>1. \A c \in Channels : \A i \in 1 .. Len(chan'[c]) : chan'[c][i] <= event[c[1]]
    <3> SUFFICES ASSUME NEW c \in Channels, NEW i \in 1 .. Len(chan'[c])
                 PROVE  chan'[c][i] <= event[c[1]]
      OBVIOUS
    <3>1. CASE c[1] # p
      BY <3>1, <1>8
    <3>2. CASE c[1] = p /\ i # Len(channels[c]) + 1
      <4>1. i \in 1 .. Len(channels[c])
        BY <3>2, <1>6, <1>8
      <4> QED BY <4>1, <3>2, <1>8
    <3>3. CASE c[1] = p /\ i = Len(channels[c]) + 1
      BY <3>3, <1>1, <1>5, <1>8 DEF Marker
    <3> QED BY <3>1, <3>2, <3>3
  <2>2. \A q \in Procs : own_state'[q] <= event[q]
    <3> SUFFICES ASSUME NEW q \in Procs PROVE own_state'[q] <= event[q]
      OBVIOUS
    <3>1. own_state[q] <= event[q] /\ event[q] \in Nat
      BY <1>1 DEF IInv, NumbersOfThePast
    <3> QED BY <3>1, <1>4
  <2> QED BY <2>1, <2>2 DEF IInv, NumbersOfThePast
<1>10. MarkerIsOut'
  <2> SUFFICES ASSUME NEW c \in Channels, Begun(c[1])'
               PROVE  Begun(c[2])' \/ \E j \in 1 .. Len(chan'[c]) : chan'[c][j] = Marker
    BY DEF MarkerIsOut, Marker
  <2>1. CASE c[2] = p
    BY <2>1, <1>4, <1>5
  <2>2. CASE c[1] = p
    <3>1. Len(channels[c]) + 1 \in 1 .. Len(chan'[c])
      BY <2>2, <1>6, <1>8
    <3> QED BY <3>1, <2>2, <1>8
  <2>3. CASE c[1] # p /\ c[2] # p
    <3>1. chan'[c] = chan[c]
      BY <2>3, <1>8
    <3> QED BY <3>1, <2>3, <1>4, <1>5 DEF IInv, MarkerIsOut
  <2> QED BY <2>1, <2>2, <2>3
<1>11. MarkerIsFirst'
  <2> SUFFICES ASSUME NEW c \in Channels, NEW i \in 1 .. Len(chan'[c]),
                      Begun(c[1])', chan'[c][i] > own_state'[c[1]]
               PROVE  Begun(c[2])' \/ \E j \in 1 .. (i - 1) : chan'[c][j] = Marker
    BY DEF MarkerIsFirst, Marker
  <2>1. CASE c[2] = p
    BY <2>1, <1>4, <1>5
  <2>2. CASE c[1] = p
    <3>1. chan'[c][i] \in Nat /\ event[c[1]] \in Nat
      BY <1>1, <1>5, <1>7
    <3>2. chan'[c][i] <= event[c[1]] /\ own_state'[c[1]] = event[c[1]]
      BY <2>2, <1>4, <1>9 DEF NumbersOfThePast
    <3> QED BY <3>1, <3>2
  <2>3. CASE c[1] # p /\ c[2] # p
    <3>1. chan'[c] = chan[c]
      BY <2>3, <1>8
    <3> QED BY <3>1, <2>3, <1>4, <1>5 DEF IInv, MarkerIsFirst
  <2> QED BY <2>1, <2>2, <2>3
<1>12. NothingComesFromTheFuture'
  <2> SUFFICES ASSUME NEW m \in log, Begun(m.from)', m.sent > own_state'[m.from]
               PROVE  Begun(m.to)' /\ m.received > own_state'[m.to]
    BY DEF NothingComesFromTheFuture
  <2>1. m.from \in Procs /\ m.to \in Procs /\ m.sent \in Nat /\ m.received \in Nat
    BY <1>1 DEF Messages
  <2>2. m.from # p
    <3>1. m.sent <= event[m.from] /\ event[m.from] \in Nat
      BY <1>1, <2>1 DEF IInv, NumbersOfThePast
    <3> QED BY <3>1, <2>1, <1>4
  <2>3. Begun(m.to) /\ m.received > own_state[m.to]
    BY <2>1, <2>2, <1>4 DEF IInv, NothingComesFromTheFuture
  <2>4. m.to # p
    BY <2>3 DEF Begun
  <2> QED BY <2>1, <2>3, <2>4, <1>4
<1> QED BY <1>3, <1>7, <1>9, <1>10, <1>11, <1>12

-----------------------------------------------------------------------------
(* One step of each action.                                                *)

LEMMA InitInvariant ==
  Init => IInv
<1> SUFFICES ASSUME Init PROVE IInv
  OBVIOUS
<1> USE SnapshotAssumption
<1>1. TypeOK
  BY DEF Init, TypeOK
<1>2. NumbersOfThePast
  BY DEF Init, NumbersOfThePast
<1>3. MarkerIsOut /\ MarkerIsFirst /\ NothingComesFromTheFuture /\ LineIsBetween
  BY DEF Init, MarkerIsOut, MarkerIsFirst, NothingComesFromTheFuture, LineIsBetween, Begun
<1> QED BY <1>1, <1>2, <1>3 DEF IInv

\* A message is an event of its sender and goes to the end of its channel.
LEMMA SendKeeps ==
  ASSUME IInv, NEW c \in Channels, Send(c)
  PROVE  IInv'
<1> USE SnapshotAssumption
<1> TypeOK
  BY DEF IInv
<1>1. /\ event \in [Procs -> Nat] /\ chan \in [Channels -> Seq(Nat)]
      /\ log \in SUBSET Messages /\ own_state \in [Procs -> Nat] /\ sent \in 0 .. MaxMessages
  BY DEF TypeOK
<1>2. c[1] \in Procs /\ event[c[1]] \in Nat /\ event[c[1]] + 1 \in Nat
  BY <1>1
<1>3. event' = [event EXCEPT ![c[1]] = event[c[1]] + 1]
  BY DEF Send
<1>4. chan' = [chan EXCEPT ![c] = Append(chan[c], event[c[1]] + 1)]
  BY DEF Send
<1>5. event' \in [Procs -> Nat] /\ \A p \in Procs : event[p] <= event'[p] /\ event[p] \in Nat
  BY <1>1, <1>2, <1>3
<1>6. chan[c] \in Seq(Nat) /\ Append(chan[c], event[c[1]] + 1) \in Seq(Nat)
  BY <1>1, <1>2
<1>7. chan' \in [Channels -> Seq(Nat)]
  BY <1>1, <1>4, <1>6
<1>8. /\ \A d \in Channels : d # c => chan'[d] = chan[d]
      /\ Len(chan'[c]) = Len(chan[c]) + 1
      /\ \A i \in 1 .. Len(chan[c]) : chan'[c][i] = chan[c][i]
      /\ chan'[c][Len(chan[c]) + 1] = event[c[1]] + 1
  BY <1>1, <1>2, <1>4, <1>6
<1>9. /\ UNCHANGED <<log, phase, own_state, captured, recorded, channel_state>>
      /\ UNCHANGED <<recovery, initial, line>> /\ recovery = "none"
      /\ sent' = sent + 1 /\ sent < MaxMessages
  BY DEF Send, snapVars, lineVars
<1>10. TypeOK'
  <2>1. sent' \in 0 .. MaxMessages
    BY <1>1, <1>9
  <2> QED BY <2>1, <1>5, <1>7, <1>9 DEF TypeOK
<1>11. NumbersOfThePast'
  <2>1. \A d \in Channels : \A i \in 1 .. Len(chan'[d]) : chan'[d][i] <= event'[d[1]]
    <3> SUFFICES ASSUME NEW d \in Channels, NEW i \in 1 .. Len(chan'[d])
                 PROVE  chan'[d][i] <= event'[d[1]]
      OBVIOUS
    <3>1. CASE d = c /\ i = Len(chan[c]) + 1
      BY <3>1, <1>1, <1>2, <1>3, <1>8
    <3>2. CASE d # c \/ i # Len(chan[c]) + 1
      <4>1. i \in 1 .. Len(chan[d]) /\ chan'[d][i] = chan[d][i]
        <5>1. CASE d = c
          BY <5>1, <3>2, <1>6, <1>8
        <5>2. CASE d # c
          BY <5>2, <1>8
        <5> QED BY <5>1, <5>2
      <4>2. chan[d][i] <= event[d[1]] /\ chan[d][i] \in Nat /\ d[1] \in Procs
        <5>1. chan[d][i] <= event[d[1]]
          BY <4>1 DEF IInv, NumbersOfThePast
        <5>2. chan[d] \in Seq(Nat) /\ d[1] \in Procs
          BY <1>1
        <5> QED BY <4>1, <5>1, <5>2
      <4>3. event[d[1]] <= event'[d[1]] /\ event[d[1]] \in Nat /\ event'[d[1]] \in Nat
        BY <4>2, <1>5
      <4> QED BY <4>1, <4>2, <4>3
    <3> QED BY <3>1, <3>2
  <2>2. \A m \in log : m.sent <= event'[m.from] /\ m.received <= event'[m.to]
    <3> SUFFICES ASSUME NEW m \in log
                 PROVE  m.sent <= event'[m.from] /\ m.received <= event'[m.to]
      OBVIOUS
    <3>1. m.from \in Procs /\ m.to \in Procs /\ m.sent \in Nat /\ m.received \in Nat
      BY <1>1 DEF Messages
    <3>2. m.sent <= event[m.from] /\ m.received <= event[m.to]
      BY DEF IInv, NumbersOfThePast
    <3>3. /\ event[m.from] <= event'[m.from] /\ event[m.from] \in Nat /\ event'[m.from] \in Nat
          /\ event[m.to] <= event'[m.to] /\ event[m.to] \in Nat /\ event'[m.to] \in Nat
      BY <3>1, <1>5
    <3> QED BY <3>1, <3>2, <3>3
  <2>3. \A p \in Procs : own_state[p] <= event'[p]
    <3> SUFFICES ASSUME NEW p \in Procs PROVE own_state[p] <= event'[p]
      OBVIOUS
    <3>1. own_state[p] <= event[p] /\ own_state[p] \in Nat
      BY <1>1 DEF IInv, NumbersOfThePast
    <3>2. event[p] <= event'[p] /\ event[p] \in Nat /\ event'[p] \in Nat
      BY <1>5
    <3> QED BY <3>1, <3>2
  <2> QED BY <2>1, <2>2, <2>3, <1>9 DEF NumbersOfThePast
<1>12. \A p \in Procs : Begun(p)' = Begun(p)
  BY <1>9 DEF Begun
<1>13. MarkerIsOut'
  <2> SUFFICES ASSUME NEW d \in Channels, Begun(d[1])
               PROVE  Begun(d[2]) \/ \E j \in 1 .. Len(chan'[d]) : chan'[d][j] = Marker
    BY <1>12 DEF MarkerIsOut, Marker
  <2>1. Begun(d[2]) \/ \E j \in 1 .. Len(chan[d]) : chan[d][j] = Marker
    BY <1>9 DEF IInv, MarkerIsOut
  <2>2. ASSUME NEW j \in 1 .. Len(chan[d]), chan[d][j] = Marker
        PROVE  j \in 1 .. Len(chan'[d]) /\ chan'[d][j] = Marker
    BY <2>2, <1>6, <1>8
  <2> QED BY <2>1, <2>2
<1>14. MarkerIsFirst'
  <2> SUFFICES ASSUME NEW d \in Channels, NEW i \in 1 .. Len(chan'[d]),
                      Begun(d[1]), chan'[d][i] > own_state[d[1]]
               PROVE  Begun(d[2]) \/ \E j \in 1 .. (i - 1) : chan'[d][j] = Marker
    BY <1>9, <1>12 DEF MarkerIsFirst, Marker
  <2>1. CASE d = c /\ i = Len(chan[c]) + 1
    <3>1. Begun(c[2]) \/ \E j \in 1 .. Len(chan[c]) : chan[c][j] = Marker
      BY <2>1, <1>9 DEF IInv, MarkerIsOut
    <3>2. ASSUME NEW j \in 1 .. Len(chan[c]), chan[c][j] = Marker
          PROVE  j \in 1 .. (i - 1) /\ chan'[c][j] = Marker
      BY <2>1, <3>2, <1>6, <1>8
    <3> QED BY <2>1, <3>1, <3>2
  <2>2. CASE d # c \/ i # Len(chan[c]) + 1
    <3>1. i \in 1 .. Len(chan[d]) /\ chan'[d][i] = chan[d][i]
      <4>1. CASE d = c
        BY <4>1, <2>2, <1>6, <1>8
      <4>2. CASE d # c
        BY <4>2, <1>8
      <4> QED BY <4>1, <4>2
    <3>2. Begun(d[2]) \/ \E j \in 1 .. (i - 1) : chan[d][j] = Marker
      BY <3>1, <1>9 DEF IInv, MarkerIsFirst
    <3>3. ASSUME NEW j \in 1 .. (i - 1), chan[d][j] = Marker
          PROVE  chan'[d][j] = Marker
      <4>1. j \in 1 .. Len(chan[d])
        BY <3>1, <1>1
      <4> QED BY <4>1, <3>3, <1>8
    <3> QED BY <3>2, <3>3
  <2> QED BY <2>1, <2>2
<1>15. NothingComesFromTheFuture'
  BY <1>9 DEF IInv, NothingComesFromTheFuture, Begun
<1>16. LineIsBetween'
  BY <1>9 DEF LineIsBetween
<1> QED BY <1>10, <1>11, <1>13, <1>14, <1>15, <1>16 DEF IInv

\* A message delivered from the front is behind no marker, so it was sent before the
\* recording or is received after one.
LEMMA ReceiveKeeps ==
  ASSUME IInv, NEW c \in Channels, Receive(c)
  PROVE  IInv'
<1> USE SnapshotAssumption
<1> TypeOK
  BY DEF IInv
<1> DEFINE new == [from |-> c[1], sent |-> Head(chan[c]), to |-> c[2], received |-> event[c[2]] + 1]
<1>1. /\ event \in [Procs -> Nat] /\ chan \in [Channels -> Seq(Nat)]
      /\ log \in SUBSET Messages /\ own_state \in [Procs -> Nat] /\ captured \in [Channels -> Nat]
  BY DEF TypeOK
<1>2. /\ c[1] \in Procs /\ c[2] \in Procs
      /\ event[c[2]] \in Nat /\ event[c[2]] + 1 \in Nat \ {0}
  BY <1>1
<1>3. event' = [event EXCEPT ![c[2]] = event[c[2]] + 1]
  BY DEF Receive
<1>4. chan' = [chan EXCEPT ![c] = Tail(chan[c])] /\ chan[c] # <<>> /\ Head(chan[c]) # Marker
  BY DEF Receive
<1>5. event' \in [Procs -> Nat] /\ \A p \in Procs : event[p] <= event'[p] /\ event[p] \in Nat
  BY <1>1, <1>2, <1>3
<1>6. chan[c] \in Seq(Nat) /\ Tail(chan[c]) \in Seq(Nat)
  BY <1>1, <1>4
<1>7. chan' \in [Channels -> Seq(Nat)]
  BY <1>1, <1>4, <1>6
<1>8. /\ \A d \in Channels : d # c => chan'[d] = chan[d]
      /\ Len(chan[c]) = Len(chan'[c]) + 1
      /\ \A i \in 1 .. Len(chan'[c]) : chan'[c][i] = chan[c][i + 1]
      /\ Head(chan[c]) = chan[c][1] /\ 1 \in 1 .. Len(chan[c])
  BY <1>1, <1>4, <1>6
<1>9. /\ UNCHANGED <<sent, phase, own_state, recorded, channel_state>>
      /\ UNCHANGED <<recovery, initial, line>> /\ recovery = "none"
      /\ log' = log \cup {new}
  BY DEF Receive, lineVars
<1>10. new \in Messages /\ new.sent = chan[c][1] /\ new.received = event'[c[2]]
  BY <1>1, <1>2, <1>3, <1>6, <1>8 DEF Messages
<1>11. TypeOK'
  <2>1. captured' \in [Channels -> Nat]
    BY <1>1 DEF Receive
  <2>2. log' \in SUBSET Messages
    BY <1>1, <1>9, <1>10
  <2> QED BY <2>1, <2>2, <1>5, <1>7, <1>9 DEF TypeOK
<1>12. ASSUME NEW d \in Channels, NEW i \in 1 .. Len(chan'[d])
       PROVE  \E k \in 1 .. Len(chan[d]) :
                /\ chan'[d][i] = chan[d][k]
                /\ d # c => k = i
                /\ d = c => k = i + 1
  <2>1. CASE d = c
    BY <2>1, <1>6, <1>7, <1>8
  <2>2. CASE d # c
    BY <2>2, <1>8
  <2> QED BY <2>1, <2>2
<1>13. NumbersOfThePast'
  <2>1. \A d \in Channels : \A i \in 1 .. Len(chan'[d]) : chan'[d][i] <= event'[d[1]]
    <3> SUFFICES ASSUME NEW d \in Channels, NEW i \in 1 .. Len(chan'[d])
                 PROVE  chan'[d][i] <= event'[d[1]]
      OBVIOUS
    <3>1. PICK k \in 1 .. Len(chan[d]) : chan'[d][i] = chan[d][k]
      BY <1>12
    <3>2. chan[d][k] <= event[d[1]] /\ chan[d][k] \in Nat /\ d[1] \in Procs
      <4>1. chan[d][k] <= event[d[1]]
        BY DEF IInv, NumbersOfThePast
      <4>2. chan[d] \in Seq(Nat) /\ d[1] \in Procs
        BY <1>1
      <4> QED BY <4>1, <4>2
    <3>3. event[d[1]] <= event'[d[1]] /\ event[d[1]] \in Nat /\ event'[d[1]] \in Nat
      BY <3>2, <1>5
    <3> QED BY <3>1, <3>2, <3>3
  <2>2. \A m \in log' : m.sent <= event'[m.from] /\ m.received <= event'[m.to]
    <3> SUFFICES ASSUME NEW m \in log'
                 PROVE  m.sent <= event'[m.from] /\ m.received <= event'[m.to]
      OBVIOUS
    <3>1. CASE m \in log
      <4>1. m.from \in Procs /\ m.to \in Procs /\ m.sent \in Nat /\ m.received \in Nat
        BY <3>1, <1>1 DEF Messages
      <4>2. m.sent <= event[m.from] /\ m.received <= event[m.to]
        BY <3>1 DEF IInv, NumbersOfThePast
      <4>3. /\ event[m.from] <= event'[m.from] /\ event[m.from] \in Nat /\ event'[m.from] \in Nat
            /\ event[m.to] <= event'[m.to] /\ event[m.to] \in Nat /\ event'[m.to] \in Nat
        BY <4>1, <1>5
      <4> QED BY <4>1, <4>2, <4>3
    <3>2. CASE m = new
      <4>1. chan[c][1] <= event[c[1]] /\ chan[c][1] \in Nat
        BY <1>6, <1>8 DEF IInv, NumbersOfThePast
      <4>2. event[c[1]] <= event'[c[1]] /\ event[c[1]] \in Nat /\ event'[c[1]] \in Nat
        BY <1>2, <1>5
      <4>3. m.sent <= event'[m.from]
        BY <4>1, <4>2, <3>2, <1>10
      <4>4. m.received = event'[m.to] /\ event'[m.to] \in Nat
        BY <3>2, <1>2, <1>5, <1>10
      <4> QED BY <4>3, <4>4
    <3> QED BY <3>1, <3>2, <1>9
  <2>3. \A p \in Procs : own_state[p] <= event'[p]
    <3> SUFFICES ASSUME NEW p \in Procs PROVE own_state[p] <= event'[p]
      OBVIOUS
    <3>1. own_state[p] <= event[p] /\ own_state[p] \in Nat
      BY <1>1 DEF IInv, NumbersOfThePast
    <3>2. event[p] <= event'[p] /\ event[p] \in Nat /\ event'[p] \in Nat
      BY <1>5
    <3> QED BY <3>1, <3>2
  <2> QED BY <2>1, <2>2, <2>3, <1>9 DEF NumbersOfThePast
<1>14. \A p \in Procs : Begun(p)' = Begun(p)
  BY <1>9 DEF Begun
<1>15. MarkerIsOut'
  <2> SUFFICES ASSUME NEW d \in Channels, Begun(d[1]), ~ Begun(d[2])
               PROVE  \E j \in 1 .. Len(chan'[d]) : chan'[d][j] = Marker
    BY <1>14 DEF MarkerIsOut, Marker
  <2>1. PICK j \in 1 .. Len(chan[d]) : chan[d][j] = Marker
    BY <1>9 DEF IInv, MarkerIsOut
  <2>2. CASE d # c
    BY <2>1, <2>2, <1>8
  <2>3. CASE d = c
    <3>1. j # 1
      BY <2>1, <2>3, <1>4, <1>8
    <3>2. j - 1 \in 1 .. Len(chan'[c])
      <4>1. Len(chan'[c]) \in Nat /\ j \in 1 .. (Len(chan'[c]) + 1)
        BY <2>3, <1>7, <1>8
      <4> QED BY <4>1, <3>1
    <3>5. chan'[c][j - 1] = chan[c][(j - 1) + 1]
      BY <3>2, <1>8
    <3>3. (j - 1) + 1 = j
      OBVIOUS
    <3> QED BY <3>2, <3>3, <3>5, <2>1, <2>3
  <2> QED BY <2>2, <2>3
<1>16. MarkerIsFirst'
  <2> SUFFICES ASSUME NEW d \in Channels, NEW i \in 1 .. Len(chan'[d]),
                      Begun(d[1]), chan'[d][i] > own_state[d[1]], ~ Begun(d[2])
               PROVE  \E j \in 1 .. (i - 1) : chan'[d][j] = Marker
    BY <1>9, <1>14 DEF MarkerIsFirst, Marker
  <2>1. PICK k \in 1 .. Len(chan[d]) :
          chan'[d][i] = chan[d][k] /\ (d # c => k = i) /\ (d = c => k = i + 1)
    BY <1>12
  <2>2. PICK j \in 1 .. (k - 1) : chan[d][j] = Marker
    BY <2>1, <1>9 DEF IInv, MarkerIsFirst
  <2>3. CASE d # c
    BY <2>1, <2>2, <2>3, <1>8
  <2>4. CASE d = c
    <3>1. j # 1
      BY <2>2, <2>4, <1>4, <1>8
    <3>2. j - 1 \in 1 .. (i - 1) /\ j - 1 \in 1 .. Len(chan'[c])
      <4>1. Len(chan'[c]) \in Nat /\ i \in 1 .. Len(chan'[c])
        BY <2>4, <1>7
      <4>2. k = i + 1 /\ j \in 1 .. (k - 1)
        BY <2>1, <2>4
      <4> QED BY <4>1, <4>2, <3>1
    <3>3. chan'[c][j - 1] = chan[c][(j - 1) + 1]
      BY <3>2, <1>8
    <3>4. (j - 1) + 1 = j
      OBVIOUS
    <3> QED BY <3>2, <3>3, <3>4, <2>2, <2>4
  <2> QED BY <2>3, <2>4
<1>17. NothingComesFromTheFuture'
  <2> SUFFICES ASSUME NEW m \in log', Begun(m.from)', m.sent > own_state[m.from]
               PROVE  Begun(m.to)' /\ m.received > own_state[m.to]
    BY <1>9 DEF NothingComesFromTheFuture
  <2>1. CASE m \in log
    <3>1. m.from \in Procs /\ m.to \in Procs
      BY <2>1, <1>1 DEF Messages
    <3> QED BY <2>1, <3>1, <1>14 DEF IInv, NothingComesFromTheFuture
  <2>2. CASE m = new
    <3>1. Begun(c[1]) /\ chan[c][1] > own_state[c[1]]
      BY <2>2, <1>2, <1>10, <1>14
    <3>2. Begun(c[2]) \/ \E j \in 1 .. (1 - 1) : chan[c][j] = Marker
      BY <3>1, <1>8, <1>9 DEF IInv, MarkerIsFirst
    <3>3. own_state[c[2]] <= event[c[2]] /\ own_state[c[2]] \in Nat
      BY <1>1, <1>2 DEF IInv, NumbersOfThePast
    <3>4. m.to = c[2] /\ m.received = event[c[2]] + 1
      BY <2>2
    <3> QED BY <3>2, <3>3, <3>4, <1>2, <1>14
  <2> QED BY <2>1, <2>2, <1>9
<1>18. LineIsBetween'
  BY <1>9 DEF LineIsBetween
<1> QED BY <1>11, <1>13, <1>15, <1>16, <1>17, <1>18 DEF IInv

LEMMA InitiateKeeps ==
  ASSUME IInv, NEW p \in Procs, Initiate(p)
  PROVE  IInv'
<1> TypeOK
  BY DEF IInv
<1>1. chan \in [Channels -> Seq(Nat)]
  BY DEF TypeOK
<1>2. /\ recovery = "none" /\ phase[p] = "idle" /\ Begin(p, chan)
      /\ UNCHANGED <<event, sent, log, captured, recorded, channel_state>>
      /\ UNCHANGED <<recovery, initial, line>>
  BY DEF Initiate, lineVars
<1>3. \A c \in Channels : \A i \in 1 .. Len(chan[c]) : chan[c][i] <= event[c[1]]
  BY DEF IInv, NumbersOfThePast
<1>4. /\ phase' \in [Procs -> {"idle", "recording", "recorded", "incomplete"}]
      /\ own_state' \in [Procs -> Nat]
      /\ chan' \in [Channels -> Seq(Nat)]
      /\ NumbersOfThePast' /\ MarkerIsOut' /\ MarkerIsFirst'
      /\ NothingComesFromTheFuture'
  BY <1>1, <1>2, <1>3, BeginKeeps
<1>5. TypeOK'
  BY <1>2, <1>4 DEF TypeOK
<1>6. LineIsBetween'
  BY <1>2 DEF LineIsBetween
<1> QED BY <1>4, <1>5, <1>6 DEF IInv

\* The first marker begins; every other only leaves its channel.
LEMMA MarkerKeeps ==
  ASSUME IInv, NEW c \in Channels, MarkerArrives(c)
  PROVE  IInv'
<1> USE SnapshotAssumption
<1> TypeOK
  BY DEF IInv
<1> DEFINE rest == [chan EXCEPT ![c] = Tail(chan[c])]
<1>1. /\ chan \in [Channels -> Seq(Nat)] /\ recorded \in [Procs -> Nat]
      /\ channel_state \in [Procs -> Nat] /\ captured \in [Channels -> Nat]
      /\ phase \in [Procs -> {"idle", "recording", "recorded", "incomplete"}]
  BY DEF TypeOK
<1>2. c[1] \in Procs /\ c[2] \in Procs /\ chan[c] \in Seq(Nat)
  BY <1>1
<1>3. /\ chan[c] # <<>> /\ recovery = "none"
      /\ UNCHANGED <<event, sent, log, captured>>
      /\ UNCHANGED <<recovery, initial, line>>
  BY DEF MarkerArrives, lineVars
<1>4. rest \in [Channels -> Seq(Nat)] /\ rest[c] = Tail(chan[c])
  BY <1>1, <1>2, <1>3
<1>5. \A d \in Channels : d # c => rest[d] = chan[d]
  BY <1>1
<1>6. /\ Len(rest[c]) \in Nat /\ Len(chan[c]) = Len(rest[c]) + 1
      /\ \A i \in 1 .. Len(rest[c]) : rest[c][i] = chan[c][i + 1]
  BY <1>2, <1>3, <1>4
<1>7. \A d \in Channels : \A i \in 1 .. Len(rest[d]) : rest[d][i] <= event[d[1]]
  <2> SUFFICES ASSUME NEW d \in Channels, NEW i \in 1 .. Len(rest[d])
               PROVE  rest[d][i] <= event[d[1]]
    OBVIOUS
  <2>1. \A k \in 1 .. Len(chan[d]) : chan[d][k] <= event[d[1]]
    BY DEF IInv, NumbersOfThePast
  <2>2. CASE d = c
    <3>1. i + 1 \in 1 .. Len(chan[c]) /\ rest[c][i] = chan[c][i + 1]
      BY <2>2, <1>6
    <3> HIDE DEF rest
    <3> QED BY <2>1, <2>2, <3>1
  <2>3. CASE d # c
    BY <2>1, <2>3, <1>5
  <2> QED BY <2>2, <2>3
<1>8. LineIsBetween'
  BY <1>3 DEF LineIsBetween
<1>9. ASSUME NEW messages \in Nat, RecordChannel(c[2], messages)
      PROVE  recorded' \in [Procs -> Nat] /\ channel_state' \in [Procs -> Nat]
  BY <1>1, <1>2, <1>9 DEF RecordChannel
<1> HIDE DEF rest
<1>10. CASE phase[c[2]] = "idle" /\ Begin(c[2], rest) /\ RecordChannel(c[2], 0)
  <2>1. \A d \in Channels : d[2] # c[2] => rest[d] = chan[d]
    BY <1>5
  <2>2. /\ phase' \in [Procs -> {"idle", "recording", "recorded", "incomplete"}]
        /\ own_state' \in [Procs -> Nat]
        /\ chan' \in [Channels -> Seq(Nat)]
        /\ NumbersOfThePast' /\ MarkerIsOut' /\ MarkerIsFirst'
        /\ NothingComesFromTheFuture'
    BY <2>1, <1>2, <1>3, <1>4, <1>7, <1>10, BeginKeeps
  <2>3. recorded' \in [Procs -> Nat] /\ channel_state' \in [Procs -> Nat]
    BY <1>9, <1>10
  <2>4. TypeOK'
    BY <2>2, <2>3, <1>3 DEF TypeOK
  <2> QED BY <2>2, <2>4, <1>8 DEF IInv
<1>11. CASE /\ phase[c[2]] # "idle" /\ chan' = rest /\ UNCHANGED <<phase, own_state>>
            /\ recorded' \in [Procs -> Nat] /\ channel_state' \in [Procs -> Nat]
  <2>1. TypeOK'
    BY <1>3, <1>4, <1>11 DEF TypeOK
  <2>2. NumbersOfThePast'
    BY <1>3, <1>7, <1>11 DEF IInv, NumbersOfThePast
  <2>3. \A p \in Procs : Begun(p)' = Begun(p)
    BY <1>11 DEF Begun
  <2>4. Begun(c[2])
    BY <1>11 DEF Begun
  <2>5. MarkerIsOut'
    <3> SUFFICES ASSUME NEW d \in Channels, Begun(d[1])
                 PROVE  Begun(d[2]) \/ \E j \in 1 .. Len(rest[d]) : rest[d][j] = Marker
      BY <1>11, <2>3 DEF MarkerIsOut, Marker
    <3>1. CASE d = c
      BY <3>1, <2>4
    <3>2. CASE d # c
      BY <3>2, <1>3, <1>5 DEF IInv, MarkerIsOut
    <3> QED BY <3>1, <3>2
  <2>6. MarkerIsFirst'
    <3> SUFFICES ASSUME NEW d \in Channels, NEW i \in 1 .. Len(rest[d]),
                        Begun(d[1]), rest[d][i] > own_state[d[1]]
                 PROVE  Begun(d[2]) \/ \E j \in 1 .. (i - 1) : rest[d][j] = Marker
      BY <1>11, <2>3 DEF MarkerIsFirst, Marker
    <3>1. CASE d = c
      BY <3>1, <2>4
    <3>2. CASE d # c
      BY <3>2, <1>3, <1>5 DEF IInv, MarkerIsFirst
    <3> QED BY <3>1, <3>2
  <2>7. NothingComesFromTheFuture'
    BY <1>3, <1>11 DEF IInv, NothingComesFromTheFuture, Begun
  <2> QED BY <2>1, <2>2, <2>5, <2>6, <2>7, <1>8 DEF IInv
<1>12. \/ phase[c[2]] = "idle" /\ Begin(c[2], rest) /\ RecordChannel(c[2], 0)
       \/ /\ phase[c[2]] = "recording" /\ chan' = rest
          /\ RecordChannel(c[2], captured[c]) /\ UNCHANGED <<phase, own_state>>
       \/ /\ phase[c[2]] \in {"recorded", "incomplete"} /\ chan' = rest
          /\ UNCHANGED <<phase, own_state, recorded, channel_state>>
  BY DEF MarkerArrives, rest
<1> QED BY <1>1, <1>9, <1>10, <1>11, <1>12

LEMMA SealKeeps ==
  ASSUME IInv, NEW p \in Procs, Seal(p)
  PROVE  IInv'
<1> TypeOK
  BY DEF IInv
<1>1. /\ phase \in [Procs -> {"idle", "recording", "recorded", "incomplete"}]
      /\ phase[p] = "recording"
      /\ \E result \in {"recorded", "incomplete"} : phase' = [phase EXCEPT ![p] = result]
      /\ UNCHANGED <<event, sent, chan, log, own_state, captured, recorded, channel_state>>
      /\ UNCHANGED <<recovery, initial, line>>
  BY DEF Seal, lineVars, TypeOK
<1>2. TypeOK'
  BY <1>1 DEF TypeOK
<1>3. \A q \in Procs : Begun(q)' = Begun(q)
  BY <1>1 DEF Begun
<1>4. NumbersOfThePast' /\ LineIsBetween'
  BY <1>1 DEF IInv, NumbersOfThePast, LineIsBetween
<1>5. \A c \in Channels : c[1] \in Procs /\ c[2] \in Procs
  BY SnapshotAssumption
<1>6. \A m \in log : m.from \in Procs /\ m.to \in Procs
  BY DEF TypeOK, Messages
<1>7. MarkerIsOut'
  BY <1>1, <1>3, <1>5 DEF IInv, MarkerIsOut
<1>8. MarkerIsFirst'
  BY <1>1, <1>3, <1>5 DEF IInv, MarkerIsFirst
<1>9. NothingComesFromTheFuture'
  BY <1>1, <1>3, <1>6 DEF IInv, NothingComesFromTheFuture
<1> QED BY <1>2, <1>4, <1>7, <1>8, <1>9 DEF IInv

LEMMA FailKeeps ==
  ASSUME IInv, Fail
  PROVE  IInv'
<1> TypeOK
  BY DEF IInv
<1>1. initial' \in [Procs -> Events]
  BY DEF Fail
<1>2. /\ recovery' = "tentative" /\ line' = initial'
      /\ chan' = [c \in Channels |-> <<>>] /\ captured' = [c \in Channels |-> 0]
      /\ UNCHANGED <<event, sent, log, phase, own_state, recorded, channel_state>>
  BY DEF Fail
<1>3. initial' \in [Procs -> Nat]
  BY <1>1 DEF Events
<1>4. TypeOK'
  BY <1>2, <1>3 DEF TypeOK
<1>5. NumbersOfThePast'
  BY <1>2 DEF IInv, NumbersOfThePast
<1>6. MarkerIsOut' /\ MarkerIsFirst'
  BY <1>2 DEF MarkerIsOut, MarkerIsFirst
<1>7. NothingComesFromTheFuture'
  BY <1>2 DEF IInv, NothingComesFromTheFuture, Begun
<1>8. LineIsBetween'
  BY <1>2, <1>3 DEF LineIsBetween, Below
<1> QED BY <1>4, <1>5, <1>6, <1>7, <1>8 DEF IInv

\* A consistent cut below the line cannot have the receive of an orphan of the line:
\* it would have the send too.
LEMMA RollBackKeeps ==
  ASSUME IInv, RollBack
  PROVE  IInv'
<1> TypeOK
  BY DEF IInv
<1>1. PICK m \in log : Orphan(m, line) /\ line' = RolledBack(line, m)
  BY DEF RollBack
<1>2. /\ recovery = "tentative" /\ UNCHANGED <<recovery, initial>>
      /\ UNCHANGED <<event, sent, chan, log>>
      /\ UNCHANGED <<phase, own_state, captured, recorded, channel_state>>
  BY DEF RollBack, snapVars
<1>3. line \in [Procs -> Nat] /\ initial \in [Procs -> Nat] /\ log \in SUBSET Messages
  BY DEF TypeOK
<1>4. /\ m.from \in Procs /\ m.to \in Procs /\ m.sent \in Nat
      /\ m.received \in Nat \ {0} /\ m.received - 1 \in Nat
  BY <1>3 DEF Messages
<1>5. line' = [line EXCEPT ![m.to] = m.received - 1]
  BY <1>1 DEF RolledBack
<1>6. line' \in [Procs -> Nat]
  BY <1>3, <1>4, <1>5
<1>7. m.received <= line[m.to] /\ m.sent > line[m.from]
  BY <1>1 DEF Orphan
<1>8. Below(line', initial)
  <2> SUFFICES ASSUME NEW p \in Procs PROVE line'[p] <= initial[p]
    BY <1>6 DEF Below
  <2>1. line[p] <= initial[p] /\ line[p] \in Nat /\ initial[p] \in Nat
    BY <1>2, <1>3 DEF IInv, LineIsBetween, Below
  <2>2. line'[p] = IF p = m.to THEN m.received - 1 ELSE line[p]
    BY <1>3, <1>5
  <2> QED BY <2>1, <2>2, <1>4, <1>7
<1>9. ASSUME NEW cut \in [Procs -> Nat], Below(cut, initial), Verifies(cut, log)
      PROVE  Below(cut, line')
  <2>1. \A p \in Procs : cut[p] \in Nat /\ line[p] \in Nat /\ cut[p] <= line[p]
    BY <1>2, <1>3, <1>9 DEF IInv, LineIsBetween, Below
  <2>2. ~ Orphan(m, cut)
    BY <1>9 DEF Verifies
  <2>3. cut[m.to] <= m.received - 1
    <3>1. cut[m.from] \in Nat /\ line[m.from] \in Nat /\ cut[m.from] <= line[m.from]
      BY <2>1, <1>4
    <3>2. cut[m.to] \in Nat
      BY <2>1, <1>4
    <3> QED BY <3>1, <3>2, <2>2, <1>4, <1>7 DEF Orphan
  <2> SUFFICES ASSUME NEW p \in Procs PROVE cut[p] <= line'[p]
    BY DEF Below
  <2>4. line'[p] = IF p = m.to THEN m.received - 1 ELSE line[p]
    BY <1>3, <1>5
  <2> QED BY <2>1, <2>3, <2>4
<1>10. LineIsBetween'
  BY <1>2, <1>8, <1>9 DEF LineIsBetween
<1>11. TypeOK'
  BY <1>2, <1>6 DEF TypeOK
<1>12. NumbersOfThePast' /\ NothingComesFromTheFuture'
  BY <1>2 DEF IInv, NumbersOfThePast, NothingComesFromTheFuture, Begun
<1>13. MarkerIsOut' /\ MarkerIsFirst'
  BY <1>2 DEF MarkerIsOut, MarkerIsFirst
<1> QED BY <1>10, <1>11, <1>12, <1>13 DEF IInv

LEMMA ResolveKeeps ==
  ASSUME IInv, Resolve
  PROVE  IInv'
<1> TypeOK
  BY DEF IInv
<1>1. /\ recovery = "tentative" /\ recovery' = "resolved" /\ Verifies(line, log)
      /\ UNCHANGED <<event, sent, chan, log, initial, line>>
      /\ UNCHANGED <<phase, own_state, captured, recorded, channel_state>>
  BY DEF Resolve, Settled, snapVars, Verifies
<1>2. TypeOK'
  BY <1>1 DEF TypeOK
<1>3. NumbersOfThePast' /\ NothingComesFromTheFuture'
  BY <1>1 DEF IInv, NumbersOfThePast, NothingComesFromTheFuture, Begun
<1>4. MarkerIsOut' /\ MarkerIsFirst'
  BY <1>1 DEF MarkerIsOut, MarkerIsFirst
<1>5. LineIsBetween'
  BY <1>1 DEF IInv, LineIsBetween
<1> QED BY <1>2, <1>3, <1>4, <1>5 DEF IInv

LEMMA StutterKeeps ==
  ASSUME IInv, UNCHANGED vars
  PROVE  IInv'
<1>1. /\ UNCHANGED <<event, sent, chan, log, recovery, initial, line>>
      /\ UNCHANGED <<phase, own_state, captured, recorded, channel_state>>
  BY DEF vars, snapVars, lineVars
<1> QED BY <1>1 DEF IInv, TypeOK, NumbersOfThePast, MarkerIsOut, MarkerIsFirst,
                    NothingComesFromTheFuture, LineIsBetween, Begun

LEMMA Invariance ==
  Spec => []IInv
<1>1. IInv /\ [Next]_vars => IInv'
  BY SendKeeps, ReceiveKeeps, InitiateKeeps, MarkerKeeps, SealKeeps, FailKeeps,
     RollBackKeeps, ResolveKeeps, StutterKeeps DEF Next
<1> QED BY InitInvariant, <1>1, PTL DEF Spec

-----------------------------------------------------------------------------
\* Types of the execution, the snapshot's parts (snapshot.rs:175-188) and the line
\* (recovery_line.rs:183-187): the line never goes below zero.
THEOREM TypeCorrect ==
  Spec => []TypeOK
<1>1. IInv => TypeOK
  BY DEF IInv
<1> QED BY Invariance, <1>1, PTL

\* What begin (snapshot.rs:201-209) records in every process, markers going first, is
\* a cut that verify (consistent_cut.rs:207-216) accepts, then and ever after.
THEOREM MarkersMakeACut ==
  Spec => []SnapshotIsCut
<1>1. ASSUME IInv PROVE SnapshotIsCut
  <2> SUFFICES ASSUME \A p \in Procs : Begun(p), NEW m \in log PROVE ~ Orphan(m, own_state)
    BY DEF SnapshotIsCut, Verifies
  <2>1. /\ m.from \in Procs /\ m.to \in Procs /\ m.received \in Nat
        /\ own_state[m.to] \in Nat
    BY <1>1 DEF IInv, TypeOK, Messages
  <2>2. m.sent > own_state[m.from] => m.received > own_state[m.to]
    BY <1>1, <2>1 DEF IInv, NothingComesFromTheFuture
  <2> QED BY <2>1, <2>2 DEF Orphan
<1> QED BY Invariance, <1>1, PTL

\* resolve (recovery_line.rs:210-235) finds the greatest consistent line of the
\* checkpoints, whatever order it meets the orphans in.
THEOREM ResolvedLineIsGreatest ==
  Spec => []LineIsGreatest
<1>1. ASSUME IInv PROVE LineIsGreatest
  <2>1. Events \subseteq Nat
    BY SnapshotAssumption DEF Events
  <2>2. [Procs -> Events] \subseteq [Procs -> Nat]
    BY <2>1
  <2> QED BY <1>1, <2>2 DEF IInv, LineIsBetween, LineIsGreatest
<1> QED BY Invariance, <1>1, PTL

\* A complete snapshot is a floor for the domino (recovery_line.rs:129-132).
THEOREM SnapshotIsAFloor ==
  Spec => []SnapshotStopsTheDomino
<1>1. ASSUME IInv, SnapshotIsCut PROVE SnapshotStopsTheDomino
  <2>1. own_state \in [Procs -> Nat]
    BY <1>1 DEF IInv, TypeOK
  <2> QED BY <1>1, <2>1 DEF IInv, LineIsBetween, SnapshotIsCut, SnapshotStopsTheDomino
<1> QED BY Invariance, MarkersMakeACut, <1>1, PTL

-----------------------------------------------------------------------------
(* What a slice counts.                                                    *)
(*                                                                         *)
(* A marker divides its channel: what is before it, or was read before it, *)
(* was sent before the recording, and the rest after it (Divided).  So a   *)
(* channel that the marker has come by adds no message to the slice any    *)
(* more, and one that it has not come by adds all since the receiver began *)
(* (Counts).  None of it survives a failure, which drops what is in        *)
(* flight; the sealed slices do.                                           *)

Marked(s) == \E j \in 1 .. Len(s) : s[j] = Marker
Once(s)   == \A i, j \in 1 .. Len(s) : s[i] = Marker /\ s[j] = Marker => i = j

\* Exactly the events of s after the n-th have no marker behind them.
Divides(s, n) ==
  \A i \in 1 .. Len(s) : s[i] # Marker =>
    (s[i] > n <=> ~ Marked(s) \/ \E j \in 1 .. (i - 1) : s[j] = Marker)

LEMMA SendBehind ==
  ASSUME NEW s \in Seq(Nat), NEW k \in Nat, k # Marker
  PROVE  /\ Marked(Append(s, k)) <=> Marked(s)
         /\ Once(s) => Once(Append(s, k))
         /\ \A n \in Nat : Divides(s, n) /\ k > n => Divides(Append(s, k), n)
<1> DEFINE t == Append(s, k)
<1>1. /\ Len(s) \in Nat /\ Len(t) = Len(s) + 1 /\ t[Len(s) + 1] = k
      /\ \A i \in 1 .. Len(s) : t[i] = s[i]
  OBVIOUS
<1> HIDE DEF t
<1>2. \A i \in 1 .. Len(t) : i \in 1 .. Len(s) \/ i = Len(s) + 1
  BY <1>1
<1>3. \A i \in 1 .. Len(s) : i \in 1 .. Len(t)
  BY <1>1
<1>4. Marked(t) <=> Marked(s)
  BY <1>1, <1>2, <1>3 DEF Marked
<1>5. Once(s) => Once(t)
  BY <1>1, <1>2 DEF Once
<1>6. ASSUME NEW n \in Nat, Divides(s, n), k > n PROVE Divides(t, n)
  <2> SUFFICES ASSUME NEW i \in 1 .. Len(t), t[i] # Marker
               PROVE  t[i] > n <=> ~ Marked(t) \/ \E j \in 1 .. (i - 1) : t[j] = Marker
    BY DEF Divides
  <2>1. CASE i \in 1 .. Len(s)
    <3>1. \A j \in 1 .. (i - 1) : t[j] = s[j]
      BY <1>1, <2>1
    <3>2. t[i] = s[i]
      BY <1>1, <2>1
    <3>3. s[i] > n <=> ~ Marked(s) \/ \E j \in 1 .. (i - 1) : s[j] = Marker
      BY <1>6, <2>1, <3>2 DEF Divides
    <3> QED
      BY <1>4, <3>1, <3>2, <3>3
  <2>2. CASE i = Len(s) + 1
    <3>1. t[i] > n /\ i - 1 = Len(s)
      BY <1>1, <1>6, <2>2
    <3>2. ~ Marked(s) \/ \E j \in 1 .. Len(s) : t[j] = Marker
      BY <1>1 DEF Marked
    <3> QED
      BY <1>4, <3>1, <3>2
  <2> QED
    BY <1>2, <2>1, <2>2
<1> QED
  BY <1>4, <1>5, <1>6 DEF t

LEMMA MarkBehind ==
  ASSUME NEW s \in Seq(Nat), ~ Marked(s)
  PROVE  /\ Marked(Append(s, Marker)) /\ Once(Append(s, Marker))
         /\ \A n \in Nat :
              (\A i \in 1 .. Len(s) : s[i] <= n) => Divides(Append(s, Marker), n)
<1> DEFINE t == Append(s, Marker)
<1>1. /\ Len(s) \in Nat /\ Len(t) = Len(s) + 1 /\ t[Len(s) + 1] = Marker
      /\ \A i \in 1 .. Len(s) : t[i] = s[i] /\ s[i] \in Nat
  BY DEF Marker
<1> HIDE DEF t
<1>2. \A i \in 1 .. Len(t) : i \in 1 .. Len(s) \/ i = Len(s) + 1
  BY <1>1
<1>3. Len(s) + 1 \in 1 .. Len(t)
  BY <1>1
<1>4. Marked(t) /\ Once(t)
  BY <1>1, <1>2, <1>3 DEF Marked, Once
<1>5. ASSUME NEW n \in Nat, \A i \in 1 .. Len(s) : s[i] <= n PROVE Divides(t, n)
  <2> SUFFICES ASSUME NEW i \in 1 .. Len(t), t[i] # Marker
               PROVE  ~ (t[i] > n) /\ Marked(t) /\ ~ \E j \in 1 .. (i - 1) : t[j] = Marker
    BY DEF Divides
  <2>1. i \in 1 .. Len(s)
    BY <1>1, <1>2
  <2>2. \A j \in 1 .. (i - 1) : j \in 1 .. Len(s)
    BY <1>1, <2>1
  <2>3. t[i] = s[i] /\ s[i] <= n /\ s[i] \in Nat
    BY <1>1, <1>5, <2>1
  <2>4. ~ \E j \in 1 .. (i - 1) : t[j] = Marker
    BY <1>1, <2>2 DEF Marked
  <2> QED
    BY <1>4, <2>3, <2>4
<1> QED
  BY <1>4, <1>5 DEF t

LEMMA ReadAhead ==
  ASSUME NEW s \in Seq(Nat), s # <<>>, Once(s)
  PROVE  /\ Tail(s) \in Seq(Nat) /\ Head(s) \in Nat
         /\ Once(Tail(s))
         /\ Head(s) # Marker => (Marked(Tail(s)) <=> Marked(s))
         /\ Head(s) = Marker => Marked(s) /\ ~ Marked(Tail(s))
         /\ \A n \in Nat : Divides(s, n) =>
              /\ Divides(Tail(s), n)
              /\ Head(s) # Marker => (Head(s) > n <=> ~ Marked(s))
<1> DEFINE t == Tail(s)
           h == Head(s)
<1>1. /\ Len(t) \in Nat /\ Len(s) = Len(t) + 1 /\ h = s[1] /\ t \in Seq(Nat) /\ h \in Nat
      /\ \A i \in 1 .. Len(t) : t[i] = s[i + 1]
  OBVIOUS
<1> HIDE DEF t, h
<1>2. \A i \in 1 .. Len(s) : i = 1 \/ (i - 1 \in 1 .. Len(t) /\ t[i - 1] = s[i])
  <2> TAKE i \in 1 .. Len(s)
  <2>1. CASE i # 1
    <3>1. i - 1 \in 1 .. Len(t) /\ (i - 1) + 1 = i
      BY <1>1, <2>1
    <3>2. t[i - 1] = s[(i - 1) + 1]
      BY <1>1, <3>1
    <3> QED
      BY <3>1, <3>2
  <2> QED
    BY <2>1
<1>3. 1 \in 1 .. Len(s) /\ \A i \in 1 .. Len(t) : i + 1 \in 1 .. Len(s) /\ i + 1 # 1
  BY <1>1
<1>4. Once(t)
  <2> SUFFICES ASSUME NEW i \in 1 .. Len(t), NEW j \in 1 .. Len(t), t[i] = Marker, t[j] = Marker
               PROVE  i = j
    BY DEF Once
  <2>1. i + 1 = j + 1
    BY <1>1, <1>3 DEF Once
  <2> QED
    BY <2>1
<1>5. ASSUME h # Marker PROVE Marked(t) <=> Marked(s)
  <2>1. ASSUME NEW i \in 1 .. Len(t), t[i] = Marker PROVE Marked(s)
    <3>1. s[i + 1] = Marker /\ i + 1 \in 1 .. Len(s)
      BY <1>1, <1>3, <2>1
    <3> QED
      BY <3>1 DEF Marked
  <2>2. ASSUME NEW i \in 1 .. Len(s), s[i] = Marker PROVE Marked(t)
    <3>1. i - 1 \in 1 .. Len(t) /\ t[i - 1] = Marker
      BY <1>1, <1>2, <1>5, <2>2
    <3> QED
      BY <3>1 DEF Marked
  <2> QED
    BY <2>1, <2>2 DEF Marked
<1>6. ASSUME h = Marker PROVE Marked(s) /\ ~ Marked(t)
  <2>1. Marked(s)
    BY <1>1, <1>3, <1>6 DEF Marked
  <2>2. ASSUME NEW i \in 1 .. Len(t), t[i] = Marker PROVE FALSE
    <3>1. s[i + 1] = Marker /\ s[1] = Marker
      BY <1>1, <1>6, <2>2
    <3> QED
      BY <1>3, <3>1 DEF Once
  <2> QED
    BY <2>1, <2>2 DEF Marked
<1>7. ASSUME NEW n \in Nat, Divides(s, n)
      PROVE  Divides(t, n) /\ (h # Marker => (h > n <=> ~ Marked(s)))
  <2>1. ASSUME NEW i \in 1 .. Len(t), t[i] # Marker
        PROVE  t[i] > n <=> ~ Marked(t) \/ \E j \in 1 .. (i - 1) : t[j] = Marker
    <3>1. /\ t[i] = s[i + 1] /\ i + 1 \in 1 .. Len(s)
          /\ s[i + 1] > n <=> ~ Marked(s) \/ \E j \in 1 .. ((i + 1) - 1) : s[j] = Marker
      BY <1>1, <1>3, <1>7, <2>1 DEF Divides
    <3>2. (i + 1) - 1 = i
      OBVIOUS
    <3>3. CASE h = Marker
      <4>1. 1 \in 1 .. i /\ s[1] = Marker
        BY <1>1, <3>3
      <4> QED
        BY <1>6, <3>1, <3>2, <3>3, <4>1
    <3>4. CASE h # Marker
      <4>1. (\E j \in 1 .. i : s[j] = Marker) => \E j \in 1 .. (i - 1) : t[j] = Marker
        <5> SUFFICES ASSUME NEW j \in 1 .. i, s[j] = Marker
                     PROVE  \E l \in 1 .. (i - 1) : t[l] = Marker
          OBVIOUS
        <5>1. j # 1 /\ j \in 1 .. Len(s)
          BY <1>1, <3>4
        <5>2. j - 1 \in 1 .. (i - 1) /\ t[j - 1] = Marker
          BY <1>2, <5>1
        <5> QED
          BY <5>2
      <4>2. (\E j \in 1 .. (i - 1) : t[j] = Marker) => \E j \in 1 .. i : s[j] = Marker
        <5> SUFFICES ASSUME NEW j \in 1 .. (i - 1), t[j] = Marker
                     PROVE  \E l \in 1 .. i : s[l] = Marker
          OBVIOUS
        <5>1. j \in 1 .. Len(t) /\ j + 1 \in 1 .. i
          BY <1>1
        <5>2. s[j + 1] = Marker
          BY <1>1, <5>1
        <5> QED
          BY <5>1, <5>2
      <4> QED
        BY <1>5, <3>1, <3>2, <3>4, <4>1, <4>2
    <3> QED
      BY <3>3, <3>4
  <2>2. h # Marker => (h > n <=> ~ Marked(s))
    <3>1. ~ \E j \in 1 .. (1 - 1) : s[j] = Marker
      OBVIOUS
    <3> QED
      BY <1>1, <1>3, <1>7, <3>1 DEF Divides
  <2> QED
    BY <2>1, <2>2 DEF Divides
<1> QED
  BY <1>1, <1>4, <1>5, <1>6, <1>7 DEF t, h

-----------------------------------------------------------------------------
\* The marker of c has come by.
Arrived(c) == Begun(c[1]) /\ ~ Marked(chan[c])

Divided ==
  \A c \in Channels :
    /\ Once(chan[c])
    /\ ~ Begun(c[1]) => ~ Marked(chan[c])
    /\ Begun(c[1]) => Divides(chan[c], own_state[c[1]])

\* What came by c; what of it came since the receiver began; and what a slice of p has
\* to count once the markers have come.
Over(c)    == {m \in log : m.from = c[1] /\ m.to = c[2]}
Since(c)   == {m \in Over(c) : m.received > own_state[c[2]]}
Crossed(p) == {m \in log : /\ m.to = p /\ m.received > own_state[p]
                           /\ Arrived(<<m.from, p>>) /\ m.sent <= own_state[m.from]}

\* Before the marker only what was sent before it.
ReadBefore ==
  \A c \in Channels : \A m \in Over(c) :
    Begun(c[1]) /\ ~ Arrived(c) => m.sent <= own_state[c[1]]

Heard(p) == {c \in Incoming(p) : Arrived(c)}

Counts(p) ==
  /\ phase[p] = "idle" =>
       /\ recorded[p] = 0 /\ channel_state[p] = 0
       /\ \A c \in Incoming(p) : captured[c] = 0 /\ ~ Arrived(c)
  /\ phase[p] = "recording" =>
       /\ recorded[p] = Cardinality(Heard(p))
       /\ \A c \in Incoming(p) : ~ Arrived(c) => captured[c] = Cardinality(Since(c))
  /\ phase[p] = "recorded" => \A c \in Incoming(p) : Arrived(c)
  /\ phase[p] \in {"recording", "recorded"} => channel_state[p] = Cardinality(Crossed(p))

LogTyped == IsFiniteSet(log) /\ \A m \in log : <<m.from, m.to>> \in Channels

Slices == Divided /\ ReadBefore /\ \A p \in Procs : Counts(p)

ExactInv == LogTyped /\ (IF recovery = "none" THEN Slices ELSE InFlightIsExact)

LEMMA Finite ==
  ASSUME LogTyped
  PROVE  /\ \A c : IsFiniteSet(Since(c)) /\ Cardinality(Since(c)) \in Nat
         /\ \A p : IsFiniteSet(Crossed(p)) /\ Cardinality(Crossed(p)) \in Nat
         /\ \A p : /\ IsFiniteSet(Incoming(p)) /\ IsFiniteSet(Heard(p))
                   /\ Cardinality(Heard(p)) \in Nat
<1>1. IsFiniteSet(Procs \X Procs)
  BY SnapshotAssumption, FS_Product
<1>2. IsFiniteSet(Channels)
  BY <1>1, SnapshotAssumption, FS_Subset
<1>3. \A p : IsFiniteSet(Incoming(p))
  BY <1>2, FS_Subset DEF Incoming
<1>4. \A p : IsFiniteSet(Heard(p))
  BY <1>3, FS_Subset DEF Heard
<1>5. \A c : IsFiniteSet(Since(c))
  <2> TAKE c
  <2>1. Since(c) \subseteq log
    BY DEF Since, Over
  <2> QED
    BY <2>1, FS_Subset DEF LogTyped
<1>6. \A p : IsFiniteSet(Crossed(p))
  <2> TAKE p
  <2>1. Crossed(p) \subseteq log
    BY DEF Crossed
  <2> QED
    BY <2>1, FS_Subset DEF LogTyped
<1> QED
  BY <1>3, <1>4, <1>5, <1>6, FS_CardinalityType

\* A slice that is sealed with all its channels is exact.
LEMMA SealedIsExact ==
  ASSUME LogTyped, \A p \in Procs : Counts(p)
  PROVE  InFlightIsExact
<1> SUFFICES ASSUME NEW p \in Procs, phase[p] = "recorded"
             PROVE  channel_state[p] =
                      Cardinality({m \in log : /\ m.to = p /\ m.received > own_state[p]
                                               /\ Begun(m.from) /\ m.sent <= own_state[m.from]})
  BY DEF InFlightIsExact
<1>1. /\ channel_state[p] = Cardinality(Crossed(p))
      /\ \A c \in Incoming(p) : Arrived(c)
  BY DEF Counts
<1>2. ASSUME NEW m \in log, m.to = p PROVE Arrived(<<m.from, p>>) /\ Begun(m.from)
  <2>1. <<m.from, p>> \in Incoming(p)
    BY <1>2 DEF LogTyped, Incoming
  <2> QED
    BY <1>1, <2>1 DEF Arrived
<1>3. Crossed(p) = {m \in log : /\ m.to = p /\ m.received > own_state[p]
                                /\ Begun(m.from) /\ m.sent <= own_state[m.from]}
  BY <1>2 DEF Crossed
<1> QED
  BY <1>1, <1>3

LEMMA ExactInit == Init => ExactInv
<1> SUFFICES ASSUME Init PROVE ExactInv
  OBVIOUS
<1> USE SnapshotAssumption
<1>1. /\ log = {} /\ \A p \in Procs : phase[p] = "idle" /\ recorded[p] = 0 /\ channel_state[p] = 0
      /\ \A c \in Channels : chan[c] = <<>> /\ captured[c] = 0 /\ c[1] \in Procs
  BY DEF Init
<1>2. \A c \in Channels : ~ Begun(c[1]) /\ Once(chan[c]) /\ ~ Marked(chan[c])
  BY <1>1 DEF Begun, Once, Marked
<1>3. LogTyped /\ recovery = "none"
  BY <1>1, FS_EmptySet DEF LogTyped, Init
<1>4. Divided /\ ReadBefore
  BY <1>1, <1>2 DEF Divided, ReadBefore, Over
<1>5. \A p \in Procs : Counts(p)
  BY <1>1, <1>2 DEF Counts, Arrived, Incoming
<1> QED
  BY <1>3, <1>4, <1>5 DEF ExactInv, Slices

LEMMA SendKeepsExact ==
  ASSUME IInv, ExactInv, NEW c \in Channels, Send(c)
  PROVE  ExactInv'
<1> USE SnapshotAssumption
<1> DEFINE k == event[c[1]] + 1
<1>1. /\ recovery = "none" /\ recovery' = "none"
      /\ UNCHANGED <<log, phase, own_state, captured, recorded, channel_state>>
      /\ chan' = [chan EXCEPT ![c] = Append(chan[c], k)]
  BY DEF Send, snapVars, lineVars
<1>2. /\ chan \in [Channels -> Seq(Nat)] /\ chan[c] \in Seq(Nat) /\ k \in Nat /\ k # Marker
      /\ own_state[c[1]] <= event[c[1]] /\ own_state[c[1]] \in Nat /\ k > own_state[c[1]]
  BY DEF IInv, TypeOK, NumbersOfThePast, Marker
<1>3. LogTyped /\ Slices
  BY <1>1 DEF ExactInv
<1>4. \A d \in Channels : chan'[d] = IF d = c THEN Append(chan[c], k) ELSE chan[d]
  BY <1>1, <1>2
<1>5. \A p : Begun(p)' <=> Begun(p)
  BY <1>1 DEF Begun
<1> HIDE DEF k
<1>6. /\ Marked(chan'[c]) <=> Marked(chan[c])
      /\ Once(chan[c]) => Once(chan'[c])
      /\ Divides(chan[c], own_state[c[1]]) => Divides(chan'[c], own_state[c[1]])
  BY <1>2, <1>4, SendBehind
<1>7. Divided'
  <2> SUFFICES ASSUME NEW d \in Channels
               PROVE  /\ Once(chan'[d])
                      /\ ~ Begun(d[1]) => ~ Marked(chan'[d])
                      /\ Begun(d[1]) => Divides(chan'[d], own_state[d[1]])
    BY <1>1, <1>5 DEF Divided
  <2>1. CASE d = c
    BY <1>3, <1>6, <2>1 DEF Slices, Divided
  <2>2. CASE d # c
    BY <1>3, <1>4, <2>2 DEF Slices, Divided
  <2> QED
    BY <2>1, <2>2
<1>8. \A d \in Channels : Arrived(d)' <=> Arrived(d)
  <2> TAKE d \in Channels
  <2>1. Marked(chan'[d]) <=> Marked(chan[d])
    BY <1>4, <1>6
  <2> QED
    BY <1>5, <2>1 DEF Arrived
<1>9. LogTyped' /\ recovery' = "none"
  BY <1>1, <1>3 DEF LogTyped
<1>10. ReadBefore'
  BY <1>1, <1>3, <1>5, <1>8 DEF Slices, ReadBefore, Over
<1>11. ASSUME NEW p \in Procs PROVE Counts(p)'
  <2>1. \A d \in Incoming(p) : d \in Channels /\ Since(d)' = Since(d)
    BY <1>1 DEF Since, Over, Incoming
  <2>2. Heard(p)' = Heard(p)
    BY <1>8, <2>1 DEF Heard, Incoming
  <2>3. Crossed(p)' = Crossed(p)
    <3>1. \A m \in log : m.to = p => (Arrived(<<m.from, p>>)' <=> Arrived(<<m.from, p>>))
      BY <1>3, <1>8 DEF LogTyped
    <3> QED
      BY <1>1, <3>1 DEF Crossed
  <2>4. Counts(p)
    BY <1>3 DEF Slices
  <2>5. \A d \in Incoming(p) : Arrived(d)' <=> Arrived(d)
    BY <1>8, <2>1
  <2>6. /\ phase'[p] = phase[p] /\ recorded'[p] = recorded[p] /\ channel_state'[p] = channel_state[p]
        /\ captured' = captured /\ Incoming(p)' = Incoming(p)
    BY <1>1 DEF Incoming
  <2> QED
    BY <2>1, <2>2, <2>3, <2>4, <2>5, <2>6 DEF Counts
<1> QED
  BY <1>7, <1>9, <1>10, <1>11 DEF ExactInv, Slices

LEMMA ReceiveKeepsExact ==
  ASSUME IInv, ExactInv, NEW c \in Channels, Receive(c)
  PROVE  ExactInv'
<1> USE SnapshotAssumption
<1> PICK h : h = Head(chan[c])
  OBVIOUS
<1> PICK new : new = [from |-> c[1], sent |-> h, to |-> c[2], received |-> event[c[2]] + 1]
  OBVIOUS
<1>1. /\ recovery = "none" /\ recovery' = "none"
      /\ UNCHANGED <<phase, own_state, recorded, channel_state>>
      /\ chan' = [chan EXCEPT ![c] = Tail(chan[c])] /\ chan[c] # <<>> /\ h # Marker
      /\ log' = log \cup {new}
      /\ captured' = [captured EXCEPT ![c] =
                        IF phase[c[2]] = "recording" THEN captured[c] + 1 ELSE captured[c]]
  BY DEF Receive, lineVars
<1>2. /\ chan \in [Channels -> Seq(Nat)] /\ chan[c] \in Seq(Nat) /\ captured \in [Channels -> Nat]
      /\ \A d \in Channels : d = <<d[1], d[2]>> /\ d[1] \in Procs /\ d[2] \in Procs
      /\ \A p \in Procs : own_state[p] \in Nat /\ event[p] \in Nat /\ own_state[p] <= event[p]
      /\ \A m \in log : m.received <= event[m.to]
  <2>1. \A d \in Channels : d = <<d[1], d[2]>> /\ d[1] \in Procs /\ d[2] \in Procs
    OBVIOUS
  <2> QED
    BY <2>1 DEF IInv, TypeOK, NumbersOfThePast
<1>3. LogTyped /\ Divided /\ ReadBefore /\ \A p \in Procs : Counts(p)
  BY <1>1 DEF ExactInv, Slices
<1>4. /\ \A d \in Channels : chan'[d] = IF d = c THEN Tail(chan[c]) ELSE chan[d]
      /\ \A d \in Channels \ {c} : captured'[d] = captured[d]
  BY <1>1, <1>2
<1>5. \A p : Begun(p)' <=> Begun(p)
  BY <1>1 DEF Begun
<1>6. /\ Marked(chan'[c]) <=> Marked(chan[c])
      /\ Once(chan'[c])
      /\ Begun(c[1]) => Divides(chan'[c], own_state[c[1]])
      /\ Begun(c[1]) => (h > own_state[c[1]] <=> ~ Marked(chan[c]))
      /\ h \in Nat
  <2>1. Once(chan[c]) /\ (Begun(c[1]) => Divides(chan[c], own_state[c[1]]))
    BY <1>3 DEF Divided
  <2> QED
    BY <1>1, <1>2, <1>4, <2>1, ReadAhead
<1>7. /\ new \notin log /\ <<new.from, new.to>> \in Channels
      /\ new.received > own_state[c[2]]
      /\ new.from = c[1] /\ new.to = c[2] /\ new.sent = h
  <2>1. /\ new.from = c[1] /\ new.to = c[2] /\ new.sent = h /\ new.received = event[c[2]] + 1
        /\ c[2] \in Procs /\ <<c[1], c[2]>> = c
    BY <1>2
  <2>2. event[c[2]] \in Nat /\ own_state[c[2]] \in Nat /\ own_state[c[2]] <= event[c[2]]
    BY <1>2, <2>1
  <2>3. ~ (new.received <= event[new.to]) /\ new.received > own_state[c[2]]
    BY <2>1, <2>2
  <2> QED
    BY <1>2, <2>1, <2>3
<1>8. LogTyped'
  BY <1>1, <1>3, <1>7, FS_AddElement DEF LogTyped
<1>9. Divided'
  <2> SUFFICES ASSUME NEW d \in Channels
               PROVE  /\ Once(chan'[d])
                      /\ ~ Begun(d[1]) => ~ Marked(chan'[d])
                      /\ Begun(d[1]) => Divides(chan'[d], own_state[d[1]])
    BY <1>1, <1>5 DEF Divided
  <2>1. CASE d = c
    BY <1>3, <1>6, <2>1 DEF Divided
  <2>2. CASE d # c
    BY <1>3, <1>4, <2>2 DEF Divided
  <2> QED
    BY <2>1, <2>2
<1>10. \A d \in Channels : Arrived(d)' <=> Arrived(d)
  <2> TAKE d \in Channels
  <2>1. Marked(chan'[d]) <=> Marked(chan[d])
    BY <1>4, <1>6
  <2> QED
    BY <1>5, <2>1 DEF Arrived
<1>11. ReadBefore'
  <2> SUFFICES ASSUME NEW d \in Channels, NEW m \in log', m.from = d[1], m.to = d[2],
                      Begun(d[1]), ~ Arrived(d)
               PROVE  m.sent <= own_state[d[1]]
    BY <1>1, <1>5, <1>10 DEF ReadBefore, Over
  <2>1. CASE m \in log
    <3>1. m \in Over(d)
      BY <2>1 DEF Over
    <3> QED
      BY <1>3, <3>1 DEF ReadBefore
  <2>2. CASE m = new
    <3>1. d = c
      BY <1>2, <1>7, <2>2
    <3>2. Marked(chan[c])
      BY <3>1 DEF Arrived
    <3>3. own_state[c[1]] \in Nat
      BY <1>2
    <3> QED
      BY <1>6, <1>7, <2>2, <3>1, <3>2, <3>3
  <2> QED
    BY <1>1, <2>1, <2>2
<1>12. \A d \in Channels : d # c => Since(d)' = Since(d)
  <2> TAKE d \in Channels
  <2>1. d # c => d[1] # new.from \/ d[2] # new.to
    <3>1. d = <<d[1], d[2]>> /\ c = <<c[1], c[2]>>
      BY <1>2
    <3> QED
      BY <1>7, <3>1
  <2> QED
    BY <1>1, <2>1 DEF Since, Over
<1>13. Since(c)' = Since(c) \cup {new} /\ new \notin Since(c)
  BY <1>1, <1>7 DEF Since, Over
<1>14. ASSUME NEW p \in Procs PROVE Crossed(p)' = Crossed(p)
  <2>1. \A m \in log : m.to = p => (Arrived(<<m.from, p>>)' <=> Arrived(<<m.from, p>>))
    BY <1>3, <1>10 DEF LogTyped
  <2>2. ~ (/\ new.to = p /\ Arrived(<<new.from, p>>)' /\ new.sent <= own_state[new.from])
    <3> SUFFICES ASSUME new.to = p, Arrived(<<new.from, p>>)' PROVE ~ (new.sent <= own_state[new.from])
      OBVIOUS
    <3>1. <<new.from, p>> = c /\ new.from = c[1] /\ new.sent = h
      BY <1>2, <1>7
    <3>2. Arrived(c)
      BY <1>10, <3>1
    <3>3. h > own_state[c[1]] /\ own_state[c[1]] \in Nat
      BY <1>2, <1>6, <3>2 DEF Arrived
    <3> QED
      BY <1>6, <3>1, <3>3
  <2> QED
    BY <1>1, <2>1, <2>2 DEF Crossed
<1>15. ASSUME NEW p \in Procs PROVE Counts(p)'
  <2>1. /\ phase'[p] = phase[p] /\ recorded'[p] = recorded[p] /\ channel_state'[p] = channel_state[p]
        /\ Incoming(p)' = Incoming(p) /\ Counts(p) /\ Crossed(p)' = Crossed(p)
    BY <1>1, <1>3, <1>14 DEF Incoming
  <2>2. \A d \in Incoming(p) : d \in Channels /\ d[2] = p /\ (Arrived(d)' <=> Arrived(d))
    BY <1>10 DEF Incoming
  <2>3. Heard(p)' = Heard(p)
    BY <2>1, <2>2 DEF Heard
  <2>4. ASSUME phase[p] = "idle", NEW d \in Incoming(p) PROVE captured'[d] = 0
    <3>1. captured[d] = 0
      BY <2>1, <2>4 DEF Counts
    <3>2. CASE d # c
      BY <1>4, <2>2, <3>1, <3>2
    <3>3. CASE d = c
      BY <1>1, <1>2, <2>2, <2>4, <3>1, <3>3
    <3> QED
      BY <3>2, <3>3
  <2>5. ASSUME phase[p] = "recording", NEW d \in Incoming(p), ~ Arrived(d)
        PROVE  captured'[d] = Cardinality(Since(d)')
    <3>1. captured[d] = Cardinality(Since(d))
      BY <2>1, <2>5 DEF Counts
    <3>2. CASE d # c
      BY <1>4, <1>12, <2>2, <3>1, <3>2
    <3>3. CASE d = c
      <4>1. captured'[c] = captured[c] + 1
        BY <1>1, <1>2, <2>2, <2>5, <3>3
      <4>2. IsFiniteSet(Since(c))
        BY <1>3, Finite
      <4>3. Cardinality(Since(c)') = Cardinality(Since(c)) + 1
        BY <1>13, <4>2, FS_AddElement
      <4> QED
        BY <3>1, <3>3, <4>1, <4>3
    <3> QED
      BY <3>2, <3>3
  <2> QED
    BY <2>1, <2>2, <2>3, <2>4, <2>5 DEF Counts
<1> QED
  BY <1>1, <1>8, <1>9, <1>11, <1>15 DEF ExactInv, Slices

\* What Begin of p does to the slices, on channels that are those of before, less what
\* p has read.
LEMMA BeginKeepsSlices ==
  ASSUME IInv, LogTyped, Slices, NEW p \in Procs, NEW channels \in [Channels -> Seq(Nat)],
         phase[p] = "idle", recovery = "none",
         \A c \in Channels : c[2] # p => channels[c] = chan[c],
         \A c \in Channels : \A i \in 1 .. Len(channels[c]) : channels[c][i] <= event[c[1]],
         \A c \in Channels :
           /\ Once(channels[c])
           /\ ~ Begun(c[1]) => ~ Marked(channels[c])
           /\ Begun(c[1]) => Divides(channels[c], own_state[c[1]]),
         Begin(p, channels), UNCHANGED <<event, log, captured>>
  PROVE  /\ Divided' /\ ReadBefore'
         /\ \A c \in Channels : Arrived(c)' <=> Begun(c[1]) /\ ~ Marked(channels[c])
         /\ \A c \in Channels : c[2] = p => Since(c)' = {}
         /\ Crossed(p)' = {}
         /\ \A q \in Procs : q # p /\ recorded'[q] = recorded[q]
                                   /\ channel_state'[q] = channel_state[q] => Counts(q)'
<1> USE SnapshotAssumption
<1>0. log' = log
  OBVIOUS
<1>1. /\ phase' = [phase EXCEPT ![p] = "recording"]
      /\ own_state' = [own_state EXCEPT ![p] = event[p]]
      /\ chan' = [c \in Channels |->
                    IF c[1] = p THEN Append(channels[c], Marker) ELSE channels[c]]
  BY DEF Begin
<1>2. /\ \A q \in Procs : own_state[q] \in Nat /\ event[q] \in Nat
      /\ phase \in [Procs -> {"idle", "recording", "recorded", "incomplete"}]
      /\ own_state \in [Procs -> Nat]
      /\ \A m \in log : m.received <= event[m.to] /\ m.sent <= event[m.from]
      /\ log \in SUBSET Messages
      /\ \A c \in Channels : c[1] \in Procs /\ c[2] \in Procs /\ c[1] # c[2] /\ c = <<c[1], c[2]>>
  BY DEF IInv, TypeOK, NumbersOfThePast
<1>3. /\ Begun(p)' /\ ~ Begun(p) /\ own_state'[p] = event[p]
      /\ \A q \in Procs \ {p} : /\ Begun(q)' <=> Begun(q)
                                /\ own_state'[q] = own_state[q] /\ phase'[q] = phase[q]
  BY <1>1, <1>2 DEF Begun
<1>4. ASSUME NEW c \in Channels
      PROVE  /\ Once(chan'[c])
             /\ ~ Begun(c[1])' => ~ Marked(chan'[c])
             /\ Begun(c[1])' => Divides(chan'[c], own_state'[c[1]])
             /\ Arrived(c)' <=> Begun(c[1]) /\ ~ Marked(channels[c])
  <2>1. CASE c[1] = p
    <3>1. chan'[c] = Append(channels[c], Marker) /\ ~ Marked(channels[c])
          /\ channels[c] \in Seq(Nat)
      BY <1>1, <1>3, <2>1
    <3>2. \A i \in 1 .. Len(channels[c]) : channels[c][i] <= event[p]
      BY <2>1
    <3>3. Marked(chan'[c]) /\ Once(chan'[c]) /\ Divides(chan'[c], event[p])
      BY <1>2, <3>1, <3>2, MarkBehind
    <3> QED
      BY <1>3, <2>1, <3>3 DEF Arrived
  <2>2. CASE c[1] # p
    <3>1. chan'[c] = channels[c] /\ (Begun(c[1])' <=> Begun(c[1]))
          /\ own_state'[c[1]] = own_state[c[1]]
      BY <1>1, <1>2, <1>3, <2>2
    <3> QED
      BY <3>1 DEF Arrived
  <2> QED
    BY <2>1, <2>2
<1>5. Divided'
  BY <1>4 DEF Divided
<1>6. ASSUME NEW c \in Channels, c[2] # p PROVE Arrived(c)' <=> Arrived(c)
  BY <1>4, <1>6 DEF Arrived
<1>7. ReadBefore'
  <2> SUFFICES ASSUME NEW c \in Channels, NEW m \in log, m.from = c[1], m.to = c[2],
                      Begun(c[1])', ~ Arrived(c)'
               PROVE  m.sent <= own_state'[c[1]]
    BY DEF ReadBefore, Over
  <2>1. CASE c[1] = p
    BY <1>2, <1>3, <2>1
  <2>2. CASE c[1] # p /\ c[2] # p
    <3>1. m.sent <= own_state[c[1]]
      BY <1>2, <1>3, <1>6, <2>2 DEF Slices, ReadBefore, Over
    <3> QED
      BY <1>2, <1>3, <2>2, <3>1
  <2>3. CASE c[2] = p
    <3>1. Begun(c[1]) /\ c[1] # p /\ ~ Arrived(c)
      BY <1>2, <1>3, <2>3 DEF Slices, Counts, Incoming
    <3>2. m.sent <= own_state[c[1]]
      BY <3>1 DEF Slices, ReadBefore, Over
    <3> QED
      BY <1>2, <1>3, <3>1, <3>2
  <2> QED
    BY <2>1, <2>2, <2>3
<1>8. ASSUME NEW m \in log, m.to = p PROVE ~ (m.received > own_state'[p])
  BY <1>2, <1>3, <1>8 DEF Messages
<1>9. \A c \in Channels : c[2] = p => Since(c)' = {}
  BY <1>8 DEF Since, Over
<1>10. Crossed(p)' = {}
  BY <1>8 DEF Crossed
<1>11. ASSUME NEW q \in Procs, q # p, recorded'[q] = recorded[q],
              channel_state'[q] = channel_state[q]
       PROVE  Counts(q)'
  <2>1. /\ phase'[q] = phase[q] /\ own_state'[q] = own_state[q] /\ Counts(q)
        /\ Incoming(q)' = Incoming(q)
    BY <1>3, <1>11 DEF Slices, Incoming
  <2>2. \A c \in Incoming(q) : /\ c \in Channels /\ c[2] = q /\ (Arrived(c)' <=> Arrived(c))
                               /\ captured'[c] = captured[c]
    BY <1>6, <1>11 DEF Incoming
  <2>3. Heard(q)' = Heard(q)
    BY <2>1, <2>2 DEF Heard
  <2>4. \A c \in Incoming(q) : Since(c)' = Since(c)
    BY <2>1, <2>2 DEF Since, Over
  <2>5. Crossed(q)' = Crossed(q)
    <3>1. ASSUME NEW m \in log, m.to = q
          PROVE  /\ Arrived(<<m.from, q>>)' <=> Arrived(<<m.from, q>>)
                 /\ Arrived(<<m.from, q>>) => own_state'[m.from] = own_state[m.from]
      <4>1. <<m.from, q>> \in Channels /\ <<m.from, q>>[2] = q /\ <<m.from, q>>[1] = m.from
        BY <3>1 DEF LogTyped
      <4>2. Arrived(<<m.from, q>>) => Begun(m.from)
        BY <4>1 DEF Arrived
      <4> QED
        BY <1>2, <1>3, <1>6, <1>11, <4>1, <4>2
    <3>2. \A m \in log :
            (/\ m.to = q /\ m.received > own_state'[q]
             /\ Arrived(<<m.from, q>>)' /\ m.sent <= own_state'[m.from])
              <=> (/\ m.to = q /\ m.received > own_state[q]
                   /\ Arrived(<<m.from, q>>) /\ m.sent <= own_state[m.from])
      BY <2>1, <3>1
    <3> QED
      BY <1>0, <3>2 DEF Crossed
  <2> QED
    BY <1>11, <2>1, <2>2, <2>3, <2>4, <2>5 DEF Counts
<1> QED
  BY <1>4, <1>5, <1>7, <1>9, <1>10, <1>11

LEMMA InitiateKeepsExact ==
  ASSUME IInv, ExactInv, NEW p \in Procs, Initiate(p)
  PROVE  ExactInv'
<1>1. /\ recovery = "none" /\ recovery' = "none" /\ phase[p] = "idle" /\ Begin(p, chan)
      /\ UNCHANGED <<event, log, captured, recorded, channel_state>>
  BY DEF Initiate, lineVars
<1>2. /\ LogTyped /\ Slices /\ Counts(p)
      /\ chan \in [Channels -> Seq(Nat)]
      /\ \A c \in Channels : \A i \in 1 .. Len(chan[c]) : chan[c][i] <= event[c[1]]
      /\ \A c \in Channels :
           /\ Once(chan[c])
           /\ ~ Begun(c[1]) => ~ Marked(chan[c])
           /\ Begun(c[1]) => Divides(chan[c], own_state[c[1]])
  BY <1>1 DEF ExactInv, Slices, Divided, IInv, TypeOK, NumbersOfThePast
<1>3. /\ Divided' /\ ReadBefore'
      /\ \A c \in Channels : Arrived(c)' <=> Arrived(c)
      /\ \A c \in Channels : c[2] = p => Since(c)' = {}
      /\ Crossed(p)' = {}
      /\ \A q \in Procs \ {p} : Counts(q)'
  BY <1>1, <1>2, BeginKeepsSlices DEF Arrived
<1>4. phase'[p] = "recording"
  BY <1>1 DEF Begin, IInv, TypeOK
<1>5. Counts(p)'
  <2>1. /\ recorded[p] = 0 /\ channel_state[p] = 0
        /\ \A c \in Incoming(p) : captured[c] = 0 /\ ~ Arrived(c) /\ c \in Channels /\ c[2] = p
    BY <1>1, <1>2 DEF Counts, Incoming
  <2>2. Heard(p)' = {} /\ Incoming(p)' = Incoming(p)
    BY <1>3, <2>1 DEF Heard, Incoming
  <2>3. Cardinality({}) = 0
    BY FS_EmptySet
  <2> QED
    BY <1>1, <1>3, <1>4, <2>1, <2>2, <2>3 DEF Counts
<1>6. LogTyped'
  BY <1>1, <1>2 DEF LogTyped
<1> QED
  BY <1>1, <1>3, <1>5, <1>6 DEF ExactInv, Slices

LEMMA MarkerKeepsExact ==
  ASSUME IInv, ExactInv, NEW c \in Channels, MarkerArrives(c)
  PROVE  ExactInv'
<1> USE SnapshotAssumption
<1> DEFINE p == c[2]
           rest == [chan EXCEPT ![c] = Tail(chan[c])]
<1>1. /\ recovery = "none" /\ recovery' = "none" /\ UNCHANGED <<event, log, captured>>
      /\ chan[c] # <<>> /\ Head(chan[c]) = Marker
  BY DEF MarkerArrives, lineVars
<1>2. /\ chan \in [Channels -> Seq(Nat)] /\ chan[c] \in Seq(Nat) /\ captured \in [Channels -> Nat]
      /\ phase \in [Procs -> {"idle", "recording", "recorded", "incomplete"}]
      /\ recorded \in [Procs -> Nat] /\ channel_state \in [Procs -> Nat]
  BY DEF IInv, TypeOK
<1>3. /\ \A d \in Channels : d = <<d[1], d[2]>> /\ d[1] \in Procs /\ d[2] \in Procs /\ d[1] # d[2]
      /\ p \in Procs
  OBVIOUS
<1>4. LogTyped /\ Slices /\ Divided /\ ReadBefore /\ \A q \in Procs : Counts(q)
  BY <1>1 DEF ExactInv, Slices
<1>5. /\ rest \in [Channels -> Seq(Nat)] /\ rest[c] = Tail(chan[c])
      /\ \A d \in Channels \ {c} : rest[d] = chan[d]
      /\ Marked(chan[c]) /\ ~ Marked(rest[c]) /\ Once(rest[c])
      /\ Begun(c[1]) /\ Divides(rest[c], own_state[c[1]])
  <2>1. /\ Once(chan[c]) /\ (~ Begun(c[1]) => ~ Marked(chan[c]))
        /\ Begun(c[1]) => Divides(chan[c], own_state[c[1]])
    BY <1>4 DEF Divided
  <2>2. own_state[c[1]] \in Nat
    BY <1>3 DEF IInv, TypeOK
  <2>3. /\ Tail(chan[c]) \in Seq(Nat) /\ Marked(chan[c]) /\ ~ Marked(Tail(chan[c]))
        /\ Once(Tail(chan[c]))
        /\ Divides(chan[c], own_state[c[1]]) => Divides(Tail(chan[c]), own_state[c[1]])
    BY <1>1, <1>2, <2>1, <2>2, ReadAhead
  <2> QED
    BY <1>2, <2>1, <2>3
<1> HIDE DEF rest
<1>6. /\ \A d \in Channels :
           /\ Once(rest[d])
           /\ ~ Begun(d[1]) => ~ Marked(rest[d])
           /\ Begun(d[1]) => Divides(rest[d], own_state[d[1]])
      /\ \A d \in Channels \ {c} : Marked(rest[d]) <=> Marked(chan[d])
      /\ ~ Arrived(c) /\ c \in Incoming(p)
  <2> SUFFICES ASSUME NEW d \in Channels
               PROVE  /\ Once(rest[d])
                      /\ ~ Begun(d[1]) => ~ Marked(rest[d])
                      /\ Begun(d[1]) => Divides(rest[d], own_state[d[1]])
    BY <1>5 DEF Arrived, Incoming
  <2>1. CASE d = c
    BY <1>5, <2>1
  <2>2. CASE d # c
    BY <1>4, <1>5, <2>2 DEF Divided
  <2> QED
    BY <2>1, <2>2
<1>7. LogTyped'
  BY <1>1, <1>4 DEF LogTyped
<1>8. CASE /\ phase[p] = "idle" /\ Begin(p, rest) /\ RecordChannel(p, 0)
  <2>1. /\ recorded' = [recorded EXCEPT ![p] = recorded[p] + 1]
        /\ channel_state' = [channel_state EXCEPT ![p] = channel_state[p] + 0]
    BY <1>8 DEF RecordChannel
  <2>2. \A d \in Channels : \A i \in 1 .. Len(rest[d]) : rest[d][i] <= event[d[1]]
    <3> SUFFICES ASSUME NEW d \in Channels, NEW i \in 1 .. Len(rest[d])
                 PROVE  rest[d][i] <= event[d[1]]
      OBVIOUS
    <3>1. \E k \in 1 .. Len(chan[d]) : rest[d][i] = chan[d][k]
      <4>1. CASE d # c
        BY <1>5, <4>1
      <4>2. CASE d = c
        <5>1. Len(chan[c]) = Len(rest[c]) + 1 /\ \A k \in 1 .. Len(rest[c]) : rest[c][k] = chan[c][k + 1]
          BY <1>1, <1>2, <1>5
        <5>2. i + 1 \in 1 .. Len(chan[c])
          BY <1>5, <4>2, <5>1
        <5> QED
          BY <4>2, <5>1, <5>2
      <4> QED
        BY <4>1, <4>2
    <3> QED
      BY <3>1 DEF IInv, NumbersOfThePast
  <2>3. /\ Divided' /\ ReadBefore'
        /\ \A d \in Channels : Arrived(d)' <=> Begun(d[1]) /\ ~ Marked(rest[d])
        /\ \A d \in Channels : d[2] = p => Since(d)' = {}
        /\ Crossed(p)' = {}
        /\ \A q \in Procs : q # p /\ recorded'[q] = recorded[q]
                                  /\ channel_state'[q] = channel_state[q] => Counts(q)'
    <3>1. \A d \in Channels : d[2] # p => rest[d] = chan[d]
      BY <1>5
    <3> QED
      BY <1>1, <1>3, <1>4, <1>5, <1>6, <1>8, <2>2, <3>1, BeginKeepsSlices
  <2>4. \A q \in Procs \ {p} : Counts(q)'
    BY <1>2, <2>1, <2>3
  <2>5. /\ recorded[p] = 0 /\ channel_state[p] = 0
        /\ \A d \in Incoming(p) : captured[d] = 0 /\ ~ Arrived(d) /\ d \in Channels /\ d[2] = p
    BY <1>3, <1>4, <1>8 DEF Counts, Incoming
  <2>6. /\ phase'[p] = "recording" /\ recorded'[p] = 1 /\ channel_state'[p] = 0
        /\ Incoming(p)' = Incoming(p)
    BY <1>2, <1>3, <1>8, <2>1, <2>5 DEF Begin, Incoming
  <2>7. \A d \in Incoming(p) : Arrived(d)' <=> d = c
    <3> TAKE d \in Incoming(p)
    <3>1. CASE d = c
      BY <1>5, <2>3, <3>1
    <3>2. CASE d # c
      BY <1>6, <2>3, <2>5, <3>2 DEF Arrived
    <3> QED
      BY <3>1, <3>2
  <2>8. Heard(p)' = {c}
    BY <1>6, <2>6, <2>7 DEF Heard
  <2>9. Cardinality({c}) = 1 /\ Cardinality({}) = 0
    BY FS_Singleton, FS_EmptySet
  <2>10. Counts(p)'
    BY <1>1, <2>3, <2>5, <2>6, <2>8, <2>9 DEF Counts
  <2> QED
    BY <1>1, <1>7, <2>3, <2>4, <2>10 DEF ExactInv, Slices
<1>9. ASSUME chan' = rest, UNCHANGED <<phase, own_state>>,
             \A q \in Procs \ {p} : recorded'[q] = recorded[q] /\ channel_state'[q] = channel_state[q],
             Counts(p)'
      PROVE  ExactInv'
  <2>1. \A q : Begun(q)' <=> Begun(q)
    BY <1>9 DEF Begun
  <2>2. Divided'
    BY <1>6, <1>9, <2>1 DEF Divided
  <2>3. \A d \in Channels \ {c} : Arrived(d)' <=> Arrived(d)
    BY <1>6, <1>9, <2>1 DEF Arrived
  <2>4. Arrived(c)'
    BY <1>5, <1>9, <2>1 DEF Arrived
  <2>5. ReadBefore'
    BY <1>1, <1>4, <1>9, <2>1, <2>3, <2>4 DEF ReadBefore, Over
  <2>6. ASSUME NEW q \in Procs \ {p} PROVE Counts(q)'
    <3>1. /\ phase'[q] = phase[q] /\ Counts(q) /\ Incoming(q)' = Incoming(q)
          /\ recorded'[q] = recorded[q] /\ channel_state'[q] = channel_state[q]
          /\ captured' = captured
      BY <1>1, <1>4, <1>9 DEF Incoming
    <3>2. \A d \in Incoming(q) : Arrived(d)' <=> Arrived(d)
      BY <2>3 DEF Incoming
    <3>3. Heard(q)' = Heard(q) /\ \A d \in Incoming(q) : Since(d)' = Since(d)
      BY <1>1, <1>9, <3>1, <3>2 DEF Heard, Since, Over
    <3>4. \A m \in log : m.to = q => (Arrived(<<m.from, q>>)' <=> Arrived(<<m.from, q>>))
      BY <1>4, <2>3 DEF LogTyped
    <3>5. Crossed(q)' = Crossed(q)
      BY <1>1, <1>9, <3>4 DEF Crossed
    <3> QED
      BY <3>1, <3>2, <3>3, <3>5 DEF Counts
  <2> QED
    BY <1>1, <1>7, <1>9, <2>2, <2>5, <2>6 DEF ExactInv, Slices
<1>10. CASE /\ phase[p] = "recording" /\ chan' = rest /\ RecordChannel(p, captured[c])
            /\ UNCHANGED <<phase, own_state>>
  <2>1. /\ recorded' = [recorded EXCEPT ![p] = recorded[p] + 1]
        /\ channel_state' = [channel_state EXCEPT ![p] = channel_state[p] + captured[c]]
    BY <1>10 DEF RecordChannel
  <2>2. /\ recorded'[p] = recorded[p] + 1 /\ channel_state'[p] = channel_state[p] + captured[c]
        /\ \A q \in Procs \ {p} : recorded'[q] = recorded[q] /\ channel_state'[q] = channel_state[q]
    BY <1>2, <1>3, <2>1
  <2>3. \A q : Begun(q)' <=> Begun(q)
    BY <1>10 DEF Begun
  <2>4. Arrived(c)' /\ \A d \in Channels \ {c} : Arrived(d)' <=> Arrived(d)
    BY <1>5, <1>6, <1>10, <2>3 DEF Arrived
  <2>5. /\ recorded[p] = Cardinality(Heard(p)) /\ captured[c] = Cardinality(Since(c))
        /\ \A d \in Incoming(p) : ~ Arrived(d) => captured[d] = Cardinality(Since(d))
        /\ channel_state[p] = Cardinality(Crossed(p))
    BY <1>3, <1>4, <1>6, <1>10 DEF Counts
  <2>6. Heard(p)' = Heard(p) \cup {c} /\ c \notin Heard(p)
    BY <1>6, <2>4 DEF Heard, Incoming
  <2>7. Crossed(p)' = Crossed(p) \cup Since(c) /\ Crossed(p) \cap Since(c) = {}
    <3>1. \A m \in Since(c) : <<m.from, p>> = c /\ m.from = c[1] /\ m.to = p
      BY <1>3 DEF Since, Over
    <3>2. \A m \in Since(c) : m.sent <= own_state[m.from]
      BY <1>4, <1>5, <1>6, <3>1 DEF ReadBefore, Since
    <3>3. \A m \in log : m.to = p =>
            (Arrived(<<m.from, p>>)' <=> Arrived(<<m.from, p>>) \/ m.from = c[1])
      BY <1>3, <1>4, <2>4 DEF LogTyped
    <3>4. Crossed(p) \cap Since(c) = {}
      BY <1>6, <3>1 DEF Crossed
    <3>5. \A m \in log : m.to = p /\ m.from = c[1] /\ m.received > own_state[p] <=> m \in Since(c)
      BY DEF Since, Over
    <3> QED
      BY <1>1, <1>10, <3>2, <3>3, <3>4, <3>5 DEF Crossed, Since, Over
  <2>8. Cardinality(Heard(p)') = Cardinality(Heard(p)) + 1
    BY <1>4, <2>6, Finite, FS_AddElement
  <2>9. Cardinality(Crossed(p)') = Cardinality(Crossed(p)) + Cardinality(Since(c))
    <3>1. /\ IsFiniteSet(Crossed(p)) /\ Cardinality(Crossed(p)) \in Nat
          /\ IsFiniteSet(Since(c)) /\ Cardinality(Since(c)) \in Nat
      BY <1>4, Finite
    <3>2. Cardinality(Crossed(p) \cup Since(c))
            = Cardinality(Crossed(p)) + Cardinality(Since(c)) - Cardinality(Crossed(p) \cap Since(c))
      BY <3>1, FS_Union
    <3>3. Cardinality(Crossed(p) \cap Since(c)) = 0
      BY <2>7, FS_EmptySet
    <3> QED
      BY <2>7, <3>1, <3>2, <3>3
  <2>10. \A d \in Incoming(p) : ~ Arrived(d)' => captured'[d] = Cardinality(Since(d)')
    <3>1. \A d \in Incoming(p) : d \in Channels /\ Since(d)' = Since(d)
      BY <1>1, <1>10 DEF Incoming, Since, Over
    <3> QED
      BY <1>1, <2>4, <2>5, <3>1
  <2>11. Counts(p)'
    <3>1. phase'[p] = "recording" /\ Incoming(p)' = Incoming(p)
      BY <1>10 DEF Incoming
    <3> QED
      BY <2>2, <2>5, <2>8, <2>9, <2>10, <3>1 DEF Counts
  <2> QED
    BY <1>9, <1>10, <2>2, <2>11
<1>11. CASE /\ phase[p] \in {"recorded", "incomplete"} /\ chan' = rest
            /\ UNCHANGED <<phase, own_state, recorded, channel_state>>
  <2>1. phase[p] # "recorded"
    BY <1>3, <1>4, <1>6 DEF Counts
  <2>2. phase'[p] = "incomplete"
    BY <1>11, <2>1
  <2>3. Counts(p)'
    BY <2>2 DEF Counts
  <2> QED
    BY <1>9, <1>11, <2>3
<1> QED
  BY <1>8, <1>10, <1>11 DEF MarkerArrives, rest

LEMMA SealKeepsExact ==
  ASSUME IInv, ExactInv, NEW p \in Procs, Seal(p)
  PROVE  ExactInv'
<1>1. /\ recovery = "none" /\ recovery' = "none" /\ phase[p] = "recording"
      /\ phase' = [phase EXCEPT ![p] = IF AllRecorded(p) THEN "recorded" ELSE "incomplete"]
      /\ UNCHANGED <<chan, log, own_state, captured, recorded, channel_state>>
  BY DEF Seal, lineVars
<1>2. LogTyped /\ Slices /\ \A q \in Procs : Counts(q)
  BY <1>1 DEF ExactInv, Slices
<1>3. /\ phase'[p] = IF AllRecorded(p) THEN "recorded" ELSE "incomplete"
      /\ \A q : q # p => (phase'[q] = phase[q])
  BY <1>1 DEF IInv, TypeOK
<1>4. \A q : Begun(q)' <=> Begun(q)
  BY <1>1, <1>3 DEF Begun
<1>5. \A d : Arrived(d)' <=> Arrived(d)
  BY <1>1, <1>4 DEF Arrived
<1>6. Divided' /\ ReadBefore' /\ LogTyped'
  BY <1>1, <1>2, <1>4, <1>5 DEF Slices, Divided, ReadBefore, Over, LogTyped
<1>7. ASSUME NEW q \in Procs
      PROVE  /\ Heard(q)' = Heard(q) /\ Crossed(q)' = Crossed(q) /\ Incoming(q)' = Incoming(q)
             /\ \A d \in Incoming(q) : Since(d)' = Since(d)
  BY <1>1, <1>5 DEF Heard, Crossed, Since, Over, Incoming
<1>8. ASSUME NEW q \in Procs, q # p PROVE Counts(q)'
  BY <1>1, <1>2, <1>3, <1>5, <1>7, <1>8 DEF Counts
<1>9. Counts(p)'
  <2>1. /\ recorded[p] = Cardinality(Heard(p)) /\ channel_state[p] = Cardinality(Crossed(p))
    BY <1>1, <1>2 DEF Counts
  <2>2. CASE AllRecorded(p)
    <3>1. Heard(p) \subseteq Incoming(p) /\ Cardinality(Heard(p)) = Cardinality(Incoming(p))
      BY <2>1, <2>2 DEF AllRecorded, Heard
    <3>2. Heard(p) = Incoming(p)
      BY <1>2, <3>1, Finite, FS_Subset
    <3>3. \A d \in Incoming(p) : Arrived(d)
      BY <3>2 DEF Heard
    <3>4. phase'[p] = "recorded" /\ channel_state' = channel_state
      BY <1>1, <1>3, <2>2
    <3> QED
      BY <1>5, <1>7, <2>1, <3>3, <3>4 DEF Counts
  <2>3. CASE ~ AllRecorded(p)
    BY <1>3, <2>3 DEF Counts
  <2> QED
    BY <2>2, <2>3
<1> QED
  BY <1>1, <1>6, <1>8, <1>9 DEF ExactInv, Slices

LEMMA ExactHolds == Spec => []ExactInv
<1>1. IInv /\ ExactInv /\ [Next]_vars => ExactInv'
  <2> SUFFICES ASSUME IInv, ExactInv, [Next]_vars PROVE ExactInv'
    OBVIOUS
  <2>1. ASSUME NEW c \in Channels, Send(c) \/ Receive(c) \/ MarkerArrives(c) PROVE ExactInv'
    BY <2>1, SendKeepsExact, ReceiveKeepsExact, MarkerKeepsExact
  <2>2. ASSUME NEW p \in Procs, Initiate(p) \/ Seal(p) PROVE ExactInv'
    BY <2>2, InitiateKeepsExact, SealKeepsExact
  <2>3. ASSUME LogTyped, InFlightIsExact, recovery' # "none",
               UNCHANGED <<log, phase, own_state, channel_state>>
        PROVE  ExactInv'
    <3>1. LogTyped'
      BY <2>3 DEF LogTyped
    <3>2. \A q : Begun(q)' <=> Begun(q)
      BY <2>3 DEF Begun
    <3>3. ASSUME NEW q \in Procs, phase'[q] = "recorded"
          PROVE  channel_state'[q] =
                   Cardinality({m \in log' : /\ m.to = q /\ m.received > own_state'[q]
                                             /\ Begun(m.from)' /\ m.sent <= own_state'[m.from]})
      <4>1. {m \in log' : /\ m.to = q /\ m.received > own_state'[q]
                          /\ Begun(m.from)' /\ m.sent <= own_state'[m.from]}
          = {m \in log : /\ m.to = q /\ m.received > own_state[q]
                         /\ Begun(m.from) /\ m.sent <= own_state[m.from]}
        BY <2>3, <3>2
      <4> QED
        BY <2>3, <3>3, <4>1 DEF InFlightIsExact
    <3>4. InFlightIsExact'
      BY <3>3 DEF InFlightIsExact
    <3> QED
      BY <2>3, <3>1, <3>4 DEF ExactInv
  <2>4. CASE Fail
    <3>1. /\ recovery = "none" /\ recovery' # "none"
          /\ UNCHANGED <<log, phase, own_state, channel_state>>
      BY <2>4 DEF Fail
    <3>2. LogTyped /\ InFlightIsExact
      BY <3>1, SealedIsExact DEF ExactInv, Slices
    <3> QED
      BY <2>3, <3>1, <3>2
  <2>5. ASSUME RollBack \/ Resolve PROVE ExactInv'
    <3>1. /\ recovery # "none" /\ recovery' # "none"
          /\ UNCHANGED <<log, phase, own_state, channel_state>>
      BY <2>5 DEF RollBack, Resolve, snapVars
    <3> QED
      BY <2>3, <3>1 DEF ExactInv
  <2>6. CASE UNCHANGED vars
    <3>1. UNCHANGED <<chan, log, phase, own_state, captured, recorded, channel_state, recovery>>
      BY <2>6 DEF vars, snapVars, lineVars
    <3>2. CASE recovery = "none"
      <4>1. Slices'
        <5>1. (\A q : Begun(q)' <=> Begun(q)) /\ \A d : Arrived(d)' <=> Arrived(d)
          BY <3>1 DEF Begun, Arrived
        <5>2. Slices
          BY <3>2 DEF ExactInv
        <5>3. Divided' /\ ReadBefore'
          BY <3>1, <5>1, <5>2 DEF Slices, Divided, ReadBefore, Over
        <5>4. ASSUME NEW q \in Procs
              PROVE  /\ Heard(q)' = Heard(q) /\ Crossed(q)' = Crossed(q)
                     /\ Incoming(q)' = Incoming(q) /\ \A d \in Incoming(q) : Since(d)' = Since(d)
          BY <3>1, <5>1 DEF Heard, Crossed, Since, Over, Incoming
        <5>5. ASSUME NEW q \in Procs PROVE Counts(q)'
          <6>1. Counts(q)
            BY <5>2 DEF Slices
          <6> QED
            BY <3>1, <5>1, <5>4, <6>1 DEF Counts
        <5> QED
          BY <5>3, <5>5 DEF Slices
      <4> QED
        BY <3>1, <3>2, <4>1 DEF ExactInv, LogTyped
    <3>3. CASE recovery # "none"
      BY <2>3, <3>1, <3>3 DEF ExactInv
    <3> QED
      BY <3>2, <3>3
  <2> QED
    BY <2>1, <2>2, <2>4, <2>5, <2>6 DEF Next
<1> QED
  BY <1>1, ExactInit, Invariance, PTL DEF Spec

\* record_channel (snapshot.rs:225-228) and seal (243-253): for any channels, any
\* initiators and any interleaving of messages and markers, a sealed slice counts the
\* messages in flight across the cut, each once.
THEOREM SlicesAreExact ==
  Spec => []InFlightIsExact
<1>1. ExactInv => InFlightIsExact
  BY SealedIsExact DEF ExactInv, Slices
<1> QED
  BY <1>1, ExactHolds, PTL
=============================================================================
