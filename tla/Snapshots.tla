------------------------------ MODULE Snapshots ------------------------------
(***************************************************************************)
(* Global snapshots and rollback: snapshot.rs (one process's part of the   *)
(* marker protocol), consistent_cut.rs (what its parts must add up to) and *)
(* recovery_line.rs (where to restart after a failure).                    *)
(*                                                                         *)
(* Processes exchange messages over channels that keep the order, the      *)
(* transport's duty (snapshot.rs:116-121).  Several may start the snapshot   *)
(* at once.  Whoever records its own state sends a       *)
(* marker down every channel of its own before anything else; the marker   *)
(* that arrives first makes a process record its state, and each one       *)
(* closes the recording of the channel it came by.  When a process fails,  *)
(* everybody stops, and the checkpoints that are left are rolled back,     *)
(* orphan by orphan, in whatever order the list of dependencies has.       *)
(* Every event is an interval of its own, so one number of an event serves *)
(* the cut and the recovery line.                                          *)
(***************************************************************************)
EXTENDS Cuts, FiniteSets, Sequences

CONSTANTS
  Procs,
  Channels,   \* the pairs <<sender, receiver>>
  Initiators, \* the processes that may start the snapshot
  MaxMessages \* bound of the runs: on the messages sent

ASSUME SnapshotAssumption ==
  /\ IsFiniteSet(Procs)
  /\ Channels \subseteq {c \in Procs \X Procs : c[1] # c[2]}
  /\ Initiators \subseteq Procs
  /\ MaxMessages \in Nat

VARIABLES
  event,      \* event[p]: the events of p so far
  sent,       \* the messages sent by all
  chan,       \* chan[c]: the sends in flight by event number, and markers
  log,        \* the messages delivered
  phase,      \* phase[p]: of p's Snapshot
  own_state,  \* own_state[p]: what begin recorded, p's events so far
  captured,   \* captured[c]: what came by c since the receiver began
  recorded,   \* recorded[p]: the calls of record_channel
  channel_state, \* channel_state[p]: what they add up to
  recovery,   \* "none", "tentative" or "resolved": the phase of the Line
  initial,    \* the checkpoints recovery starts from
  line        \* the Line

snapVars == <<phase, own_state, captured, recorded, channel_state>>
lineVars == <<recovery, initial, line>>
vars     == <<event, sent, chan, log, snapVars, lineVars>>

Marker == 0     \* no event has this number

Events   == 0 .. MaxMessages     \* each message is an event of either end, once
Messages == [from : Procs, sent : Nat, to : Procs, received : Nat \ {0}]

Incoming(p) == {c \in Channels : c[2] = p}
Begun(p)    == phase[p] # "idle"

TypeOK ==
  /\ event \in [Procs -> Nat]
  /\ sent \in 0 .. MaxMessages
  /\ chan \in [Channels -> Seq(Nat)]
  /\ log \in SUBSET Messages
  /\ phase \in [Procs -> {"idle", "recording", "recorded", "incomplete"}]
  /\ own_state \in [Procs -> Nat]
  /\ captured \in [Channels -> Nat]
  /\ recorded \in [Procs -> Nat]
  /\ channel_state \in [Procs -> Nat]
  /\ recovery \in {"none", "tentative", "resolved"}
  /\ initial \in [Procs -> Nat] /\ line \in [Procs -> Nat]

Init ==
  /\ event = [p \in Procs |-> 0] /\ sent = 0
  /\ chan = [c \in Channels |-> <<>>]
  /\ log = {}
  /\ phase = [p \in Procs |-> "idle"]
  /\ own_state = [p \in Procs |-> 0]
  /\ captured = [c \in Channels |-> 0]
  /\ recorded = [p \in Procs |-> 0]
  /\ channel_state = [p \in Procs |-> 0]
  /\ recovery = "none"
  /\ initial = [p \in Procs |-> 0] /\ line = [p \in Procs |-> 0]

-----------------------------------------------------------------------------
(* The computation.                                                        *)

Send(c) ==
  /\ recovery = "none"
  /\ sent < MaxMessages
  /\ sent' = sent + 1
  /\ event' = [event EXCEPT ![c[1]] = @ + 1]
  /\ chan' = [chan EXCEPT ![c] = Append(@, event[c[1]] + 1)]
  /\ UNCHANGED <<log, snapVars, lineVars>>

\* A message is delivered; a process that records takes it down as in flight.
Receive(c) ==
  /\ recovery = "none"
  /\ chan[c] # <<>> /\ Head(chan[c]) # Marker
  /\ event' = [event EXCEPT ![c[2]] = @ + 1]
  /\ chan' = [chan EXCEPT ![c] = Tail(@)]
  /\ log' = log \cup {[from |-> c[1], sent |-> Head(chan[c]),
                       to |-> c[2], received |-> event[c[2]] + 1]}
  /\ captured' = [captured EXCEPT ![c] = IF phase[c[2]] = "recording" THEN @ + 1 ELSE @]
  /\ UNCHANGED <<sent, phase, own_state, recorded, channel_state, lineVars>>

-----------------------------------------------------------------------------
(* The snapshot.                                                           *)

\* Mutant: p starts from a state of its own that is one event old.
BeginStale(p, channels) ==
  /\ phase' = [phase EXCEPT ![p] = "recording"]
  /\ own_state' = [own_state EXCEPT ![p] = event[p] - 1]
  /\ chan' = [c \in Channels |-> IF c[1] = p THEN Append(channels[c], Marker) ELSE channels[c]]

\* Snapshot::begin, and a marker down every channel out of p.
Begin(p, channels) ==
  /\ phase' = [phase EXCEPT ![p] = "recording"]
  /\ own_state' = [own_state EXCEPT ![p] = event[p]]
  /\ chan' = [c \in Channels |-> IF c[1] = p THEN Append(channels[c], Marker) ELSE channels[c]]

Initiate(p) ==
  /\ recovery = "none"
  /\ p \in Initiators
  /\ phase[p] = "idle"
  /\ Begin(p, chan)
  /\ UNCHANGED <<event, sent, log, captured, recorded, channel_state, lineVars>>

\* Snapshot::record_channel.
RecordChannel(p, messages) ==
  /\ recorded' = [recorded EXCEPT ![p] = @ + 1]
  /\ channel_state' = [channel_state EXCEPT ![p] = @ + messages]

\* A marker arrives: the first one begins the recording of p.  A snapshot that was
\* sealed too early is gone, and its markers with it.
MarkerArrives(c) ==
  /\ recovery = "none"
  /\ chan[c] # <<>> /\ Head(chan[c]) = Marker
  /\ LET rest == [chan EXCEPT ![c] = Tail(@)]
     IN  \/ phase[c[2]] = "idle" /\ Begin(c[2], rest) /\ RecordChannel(c[2], 0)
         \/ /\ phase[c[2]] = "recording"
            /\ chan' = rest
            /\ RecordChannel(c[2], captured[c])
            /\ UNCHANGED <<phase, own_state>>
         \/ /\ phase[c[2]] \in {"recorded", "incomplete"}
            /\ chan' = rest
            /\ UNCHANGED <<phase, own_state, recorded, channel_state>>
  /\ UNCHANGED <<event, sent, log, captured, lineVars>>

\* Mutant: a channel may be missing.
AlmostAllRecorded(p) == recorded[p] + 1 >= Cardinality(Incoming(p))

AllRecorded(p) == recorded[p] = Cardinality(Incoming(p))

\* Snapshot::seal, early or not, consumes the snapshot.
Seal(p) ==
  /\ recovery = "none"
  /\ phase[p] = "recording"
  /\ phase' = [phase EXCEPT ![p] = IF AllRecorded(p) THEN "recorded" ELSE "incomplete"]
  /\ UNCHANGED <<event, sent, chan, log, own_state, captured, recorded, channel_state, lineVars>>

-----------------------------------------------------------------------------
(* Recovery.                                                               *)

\* Line::from_checkpoints: processes fail and are left with the checkpoints they took,
\* each at an event of its own; whoever did not fail has where it is.  What is in flight
\* is dropped.
Fail ==
  /\ recovery = "none"
  /\ recovery' = "tentative"
  /\ \E checkpoints \in [Procs -> Events] :
       Below(checkpoints, event) /\ initial' = checkpoints
  /\ line' = initial'
  /\ chan' = [c \in Channels |-> <<>>]
  /\ captured' = [c \in Channels |-> 0]
  /\ UNCHANGED <<event, sent, log, phase, own_state, recorded, channel_state>>

\* One turn of Line::resolve's loops that finds an orphan.
RollBack ==
  /\ recovery = "tentative"
  /\ \E m \in log : Orphan(m, line) /\ line' = RolledBack(line, m)
  /\ UNCHANGED <<event, sent, chan, log, snapVars, recovery, initial>>

\* Mutant: resolve makes a single pass and never looks at what it orphaned itself.
PassedOnce == \A m \in log : Orphan(m, initial) => ~ Orphan(m, line)

\* A full pass changes nothing.
Settled == \A m \in log : ~ Orphan(m, line)

\* Line::resolve returns.
Resolve ==
  /\ recovery = "tentative"
  /\ Settled
  /\ recovery' = "resolved"
  /\ UNCHANGED <<event, sent, chan, log, snapVars, initial, line>>

Next ==
  \/ \E c \in Channels : Send(c) \/ Receive(c) \/ MarkerArrives(c)
  \/ \E p \in Procs : Initiate(p) \/ Seal(p)
  \/ Fail \/ RollBack \/ Resolve

Spec == Init /\ [][Next]_vars

-----------------------------------------------------------------------------
(* Properties.                                                             *)

\* verify (consistent_cut.rs:207-216) on what the markers made of snapshot.rs: the
\* recorded states are a consistent cut as soon as everybody has begun, and stay one
\* however the execution goes on.
SnapshotIsCut ==
  (\A p \in Procs : Begun(p)) => Verifies(own_state, log)

\* record_channel (snapshot.rs:225-228) and seal (243-253): a sealed slice counts
\* exactly the messages that were in flight across the cut, none lost, none twice.
InFlightIsExact ==
  \A p \in Procs : phase[p] = "recorded" =>
    channel_state[p] =
      Cardinality({m \in log : /\ m.to = p /\ m.received > own_state[p]
                               /\ Begun(m.from) /\ m.sent <= own_state[m.from]})

\* resolve (recovery_line.rs:210-235): in whatever order orphans are found, the line
\* never falls below a consistent cut of the checkpoints, and is one when it settles.
LineIsGreatest ==
  recovery # "none" =>
    /\ \A cut \in [Procs -> Events] :
         Below(cut, initial) /\ Verifies(cut, log) => Below(cut, line)
    /\ recovery = "resolved" => Below(line, initial) /\ Verifies(line, log)

\* Coordinated checkpointing (recovery_line.rs:129-132): where every process still has
\* the state it recorded for the snapshot, no domino goes below it.
SnapshotStopsTheDomino ==
  (recovery # "none" /\ (\A p \in Procs : Begun(p)) /\ Below(own_state, initial))
    => Below(own_state, line)

=============================================================================
