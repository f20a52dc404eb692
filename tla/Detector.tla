------------------------------- MODULE Detector -------------------------------
(***************************************************************************)
(* Failure detection: suspicion.rs (one observer's silence monitor) feeding *)
(* detector.rs (a majority's death certificate).                           *)
(*                                                                         *)
(* One peer is watched by a set of observers.  Each stamps what it hears   *)
(* with its own clock, and each reading of that clock may run behind the   *)
(* true time by up to MaxLag: a later reading can well be the smaller one. *)
(* A suspicion goes out as a bare claim, which the network may delay and   *)
(* duplicate and which nobody ever takes back; a report gathers claims and *)
(* is consumed by the attempt to close it.  Some observers lie, some are   *)
(* no members of the electorate.                                           *)
(***************************************************************************)
EXTENDS Quorums, Integers

CONSTANTS
  Observers,
  Electorate,  \* the members of Config<E> that close is given
  Liars,       \* observers that claim what they did not see
  Timeout,     \* the silence budget
  MaxLag,      \* how far a reading may run behind
  Gap,         \* a live peer is heard by everyone at least this often
  Delay,       \* how long the messages of a dead peer may still arrive
  CrashBy,     \* bounds of the runs
  MaxTime

ASSUME DetectorAssumption ==
  /\ IsFiniteSet(Observers) /\ IsFiniteSet(Electorate)
  /\ Liars \subseteq Observers
  /\ Timeout \in Nat /\ MaxLag \in Nat /\ Gap \in Nat
  /\ Delay \in Nat /\ CrashBy \in Nat /\ MaxTime \in Nat

VARIABLES
  patient,     \* whether a report waits for a majority before it is closed
  now,
  crashed,     \* when the peer stopped; empty while it lives
  last_heard,  \* last_heard[o]: the stamp in o's Monitor
  heard,       \* heard[o]: the true time of that message
  claims,      \* the observers that have told they suspect the peer
  reporters,   \* the open Report
  confirmed    \* whether a Confirmed has been minted

vars == <<patient, now, crashed, last_heard, heard, claims, reporters, confirmed>>

TypeOK ==
  /\ patient \in BOOLEAN
  /\ now \in 0 .. MaxTime
  /\ crashed \in SUBSET (0 .. MaxTime)
  /\ last_heard \in [Observers -> 0 .. MaxTime]
  /\ heard \in [Observers -> 0 .. MaxTime]
  /\ claims \in SUBSET Observers
  /\ reporters \in SUBSET Observers
  /\ confirmed \in BOOLEAN

\* Monitor::new(0, timeout) at every observer.
NewMonitors == [o \in Observers |-> 0]

\* Report::open, with every monitor new.
Init ==
  /\ patient \in BOOLEAN
  /\ now = 0
  /\ crashed = {}
  /\ last_heard = NewMonitors
  /\ heard = [o \in Observers |-> 0]
  /\ claims = {}
  /\ reporters = {}
  /\ confirmed = FALSE

-----------------------------------------------------------------------------
Alive == crashed = {}

\* What a clock may read at this moment.
Readings == {reading \in 0 .. now : now - reading <= MaxLag}

\* Time passes, but not so fast that a live peer goes unheard for longer than Gap.
Tick ==
  /\ now < MaxTime
  /\ Alive => \A o \in Observers : now - heard[o] < Gap
  /\ now' = now + 1
  /\ UNCHANGED <<patient, crashed, last_heard, heard, claims, reporters, confirmed>>

Crash ==
  /\ Alive /\ now <= CrashBy
  /\ crashed' = {now}
  /\ UNCHANGED <<patient, now, last_heard, heard, claims, reporters, confirmed>>

\* Monitor::heard_at, on a message of the peer: from a dead one, a late message.
HeardAt(o) ==
  /\ \A t \in crashed : now - t <= Delay
  /\ \E reading \in Readings : last_heard' = [last_heard EXCEPT ![o] = reading]
  /\ heard' = [heard EXCEPT ![o] = now]
  /\ UNCHANGED <<patient, now, crashed, claims, reporters, confirmed>>

\* Mutant: the subtraction wraps.
SilenceWraps(o, reading) == (reading - last_heard[o]) % 16

\* now.saturating_sub(last_heard).
Silence(o, reading) ==
  IF reading > last_heard[o] THEN reading - last_heard[o] ELSE 0

\* Mutants: silence of exactly the budget raises the alarm; the alarm goes off at
\* one tick only.
OverBudgetEarly(o, reading) == Silence(o, reading) >= Timeout
OverBudgetOnce(o, reading)  == Silence(o, reading) = Timeout + 1

\* Monitor::suspect's test.
OverBudget(o, reading) == Silence(o, reading) > Timeout

\* Monitor::suspect returns Some, and the observer tells its peers.
Suspect(o) ==
  /\ \E reading \in Readings : OverBudget(o, reading)
  /\ claims' = claims \cup {o}
  /\ UNCHANGED <<patient, now, crashed, last_heard, heard, reporters, confirmed>>

\* A claim with no suspicion behind it: corroborate takes any NodeId.
Lie(o) ==
  /\ o \in Liars
  /\ claims' = claims \cup {o}
  /\ UNCHANGED <<patient, now, crashed, last_heard, heard, reporters, confirmed>>

\* Report::corroborate: a claim arrives, for the first time or once more.
Corroborate(o) ==
  /\ o \in claims
  /\ reporters' = reporters \cup {o}
  /\ UNCHANGED <<patient, now, crashed, last_heard, heard, claims, confirmed>>

\* Report::close: the report is gone, whether or not it was certified, and the
\* next one is opened empty.
Close ==
  /\ reporters # {}
  /\ patient => Cardinality(reporters) >= Threshold(Electorate)
  /\ confirmed' = (confirmed \/ Certify(Electorate, reporters))
  /\ reporters' = {}
  /\ UNCHANGED <<patient, now, crashed, last_heard, heard, claims>>

Next ==
  \/ Tick
  \/ Crash
  \/ \E o \in Observers : HeardAt(o) \/ Suspect(o) \/ Lie(o) \/ Corroborate(o)
  \/ Close

Spec == Init /\ [][Next]_vars

(* Time passes, every member keeps checking its monitor, its claims        *)
(* arrive, and a report that is ready is closed.  Nothing is asked of those *)
(* outside the electorate, who may claim or keep silent.                   *)
FairSpec ==
  /\ Spec
  /\ WF_vars(Tick) /\ WF_vars(Close)
  /\ \A o \in Observers \cap Electorate : WF_vars(Suspect(o)) /\ WF_vars(Corroborate(o))

-----------------------------------------------------------------------------
\* suspect (suspicion.rs:156-159), with clocks that lag: whoever begins to suspect
\* the peer has truly heard nothing from it for the budget less the lag.
ClaimMeansSilence ==
  [][\A o \in (claims' \ claims) \ Liars :
       now - heard[o] + MaxLag > Timeout]_vars

\* close (detector.rs:174-176) over claims that are never withdrawn: with a budget
\* that covers the pauses of a live peer and the lag of the clocks, and fewer
\* lying members than a quorum, a live peer is never confirmed dead, however old
\* the claims and however often reports are closed too early.
NoFalseAlarm ==
  /\ Timeout >= Gap + MaxLag
  /\ Cardinality(Liars \cap Electorate) < Threshold(Electorate)
  => (confirmed => ~ Alive)

\* corroborate and close (detector.rs:154-176): late messages, lagging clocks and
\* liars notwithstanding, the peer's death is confirmed in the end, if no report is
\* closed too early for ever and nobody outside the electorate claims: a claim of
\* theirs spoils the report that it reaches (175).
DeathIsConfirmed ==
  [](claims \subseteq Electorate) => (patient /\ ~ Alive ~> confirmed)

=============================================================================
