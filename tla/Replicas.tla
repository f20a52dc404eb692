------------------------------- MODULE Replicas -------------------------------
(***************************************************************************)
(* Replicas of one value that tell each other of their writes, under each  *)
(* delivery order the library types: none (at_least_once.rs: copies that   *)
(* come late, in any order and repeatedly), one stream per sender          *)
(* (fifo.rs), no effect before its cause (causal.rs), one order for all    *)
(* (total_order.rs).  Received versions are resolved as vclock.rs has it.  *)
(*                                                                         *)
(* The witnesses of fifo.rs and causal.rs are types that say what has been *)
(* delivered; here that is a condition on the delivered set.  A message    *)
(* that does not fit is kept by whoever holds it and offered again.        *)
(* The message's past is no part of it: it is the reference the clocks and *)
(* the deliveries are compared with.                                       *)
(***************************************************************************)
EXTENDS VClocks, Calm, FiniteSets

\* What a write may do with the value: add to it (GSet::insert) or replace it.
Insert    == Monotone("insert")
Overwrite == Coordinated("overwrite")

CONSTANTS
  Procs,
  MaxWrites,  \* bound of the runs
  Programs    \* what writes may consist of, as sequences of operations

ASSUME ReplicasAssumption ==
  /\ IsFiniteSet(Procs) /\ MaxWrites \in Nat
  /\ Programs \subseteq Seq({Insert, Overwrite}) \ {<<>>}

Orders == {"none", "fifo", "causal", "total"}

VARIABLES
  order,      \* the delivery order, one for the whole execution
  program,    \* the pipeline that every write runs
  sent,       \* the messages, each with a write
  delivered,  \* delivered[p]: the writes p has delivered
  latest,     \* latest[p]: p's Versioned, with all that it has written
  version,    \* version[p]: p's Versioned, of what it has delivered
  counter     \* counter[p]: p's GCounter, of the writes

replicaVars == <<order, program, sent, delivered, latest, version, counter>>

Writes  == {<<p, n>> : p \in Procs, n \in 1 .. MaxWrites}     \* sender and number
Clocks  == [Procs -> 0 .. MaxWrites]

Message(id) == CHOOSE m \in sent : m.id = id
Own(p)      == {m.id : m \in {n \in sent : n.id[1] = p}}

\* With the writes of a set come those that its writers knew of.
Closed(ids) == ids \cup UNION {Message(id).past : id \in ids}

Known(p) == Closed(delivered[p])

\* The writes of a set that no other of it supersedes.
Heads(ids) == {id \in ids : \A other \in ids : id \notin Message(other).past}

ReplicaInit ==
  /\ order \in Orders /\ program \in {Pipeline(ops) : ops \in Programs}
  /\ sent = {}
  /\ delivered = [p \in Procs |-> {}]
  /\ version = [p \in Procs |-> [clock |-> Zero(Procs), value |-> {}]]
  /\ latest = version
  /\ counter = [p \in Procs |-> NewCounter(Procs)]

-----------------------------------------------------------------------------
\* Sequencer::assign.
Assign == Cardinality(sent)

\* Msg::new or Join::new: a message declares the latest writes its writer knows, two at
\* most.
Declares(preds) == order = "causal" => Cardinality(preds) <= 2

\* The steps of the program, one after the other: a step that replaces the value leaves
\* the write alone in it, wherever it comes.
Written(value, id) ==
  IF \E i \in DOMAIN program.steps : program.steps[i] = Overwrite.name
  THEN {id} ELSE value \cup {id}

\* Mutant: a writer starts from what has come back to it.
BasisDelivered(p) == version[p].value

\* The value that a write is made on: that of the clock which the write ticks.
Basis(p) == latest[p].value

\* What a writer writes it holds at once; where a position decides it counts as
\* delivered when its turn comes, and the writer may write again before that.
Write(p) ==
  /\ Cardinality(sent) < MaxWrites
  /\ LET id    == <<p, Cardinality(Own(p)) + 1>>
         past  == Closed(delivered[p] \cup Own(p))
         written == [clock |-> Tick(latest[p].clock, p), value |-> Written(Basis(p), id)]
         counts == Increment(counter[p], p)
     IN  /\ Declares(Heads(past))
         /\ sent' = sent \cup {[id |-> id, clock |-> written.clock, value |-> written.value,
                                counts |-> counts, preds |-> Heads(past), pos |-> Assign,
                                past |-> past]}
         /\ latest' = [latest EXCEPT ![p] = written]
         /\ counter' = [counter EXCEPT ![p] = counts]
         /\ \/ order = "total" /\ UNCHANGED <<delivered, version>>
            \/ /\ order # "total"
               /\ delivered' = [delivered EXCEPT ![p] = @ \cup {id}]
               /\ version' = [version EXCEPT ![p] = written]
  /\ UNCHANGED <<order, program>>

\* fifo.rs, Msg::deliver: the witness of the number before is a fact that stays, so a
\* copy of what has been delivered is taken again.
NextOfSender(p, m) ==
  m.id[2] <= Cardinality({id \in delivered[p] : id[1] = m.id[1]}) + 1

\* Mutant: one witness of a Join will do.
SomeCause(p, m) ==
  m.id \notin delivered[p] /\ (m.preds # {} => m.preds \cap delivered[p] # {})

\* causal.rs, Msg::deliver and Join::deliver: a message is consumed, with the witnesses
\* of what it declares.
CausesDelivered(p, m) == m.id \notin delivered[p] /\ m.preds \subseteq delivered[p]

\* Mutant: a cursor that takes whatever it has not had.
AnyPosition(p, m) == m.id \notin delivered[p]

\* Cursor::deliver.
AtCursor(p, m) == m.pos = Cardinality(delivered[p])

MayDeliver(p, m) ==
  \/ order = "none"
  \/ order = "fifo" /\ NextOfSender(p, m)
  \/ order = "causal" /\ CausesDelivered(p, m)
  \/ order = "total" /\ AtCursor(p, m)

Deliver(p, m) ==
  /\ MayDeliver(p, m)
  /\ delivered' = [delivered EXCEPT ![p] = @ \cup {m.id}]
  /\ counter' = [counter EXCEPT ![p] = JoinCounts(@, m.counts)]
  /\ LET received == [clock |-> m.clock, value |-> m.value]
     IN  /\ latest' = [latest EXCEPT ![p] = Resolved(@, received)]
         /\ version' = [version EXCEPT ![p] = Resolved(@, received)]
  /\ UNCHANGED <<order, program, sent>>

ReplicaNext == \E p \in Procs : Write(p) \/ \E m \in sent : Deliver(p, m)

ReplicaSpec == ReplicaInit /\ [][ReplicaNext]_replicaVars

-----------------------------------------------------------------------------
(* Properties.                                                             *)

\* The witnesses of causal.rs (lines 143-154, 171-173) name only the latest causes and
\* stand for all; a total order from one sequencer (total_order.rs:118-122) keeps
\* causes first as well.
NoEffectBeforeCause ==
  order \in {"causal", "total"} => \A p \in Procs : Known(p) = delivered[p]

\* take_dominant and merge_concurrent (vclock.rs:249-270): a write that a replica knows
\* is in its value, or was replaced by one whose writer knew it, and a program that
\* replaces nothing keeps them all; and the counter (crdt.rs:144-155) has counted each
\* once, however often and in whatever order it came.
NoLostUpdate ==
  \A p \in Procs :
    /\ CounterValue(counter[p]) = Cardinality(Known(p) \cup Own(p))
    /\ Heads(Known(p)) \subseteq version[p].value
    /\ version[p].value \subseteq Known(p)
    /\ CoordinationFree(program) => Known(p) \subseteq version[p].value

\* Replicas that know the same writes hold the same value (crdt.rs:13-14) when the
\* program may be deployed without a coordinator (calm.rs:198-203), however the messages
\* came, or when all have one order; and under that order what one has delivered begins
\* what any other has.  Writes that replace do not converge under the weaker orders: a
\* merge keeps no trace of what it merged, so a replaced value comes back.
Converges ==
  \A p, q \in Procs :
    /\ CoordinationFree(program) \/ order = "total" =>
         (Known(p) = Known(q) => version[p] = version[q])
    /\ order = "total" =>
         delivered[p] \subseteq delivered[q] \/ delivered[q] \subseteq delivered[p]
=============================================================================
