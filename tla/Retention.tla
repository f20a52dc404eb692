------------------------------ MODULE Retention ------------------------------
(***************************************************************************)
(* Forgetting a log: stability.rs (the barrier that certifies a prefix as  *)
(* applied by everyone) and compaction.rs (a node dropping its prefix).    *)
(*                                                                         *)
(* Every member applies the positions of one stream in order, taking each  *)
(* from some member that still has it.  It reports how far it has come in  *)
(* a bare number that the network may delay, reorder, duplicate and lose.  *)
(* Anybody may open a barrier, feed it the reports that arrive and seal    *)
(* it; a certificate may be used late, more than once and by every member. *)
(* compact takes any number: that members cut only where a certificate     *)
(* says is the convention compaction.rs states (52-57), and it is theirs.  *)
(***************************************************************************)
EXTENDS Naturals, FiniteSets, FiniteSetsExt

CONSTANTS
  Roster,     \* the members that every barrier is opened over
  Outsiders,  \* nodes that follow the stream and report without being members
  LogLength   \* bound of the runs

Nodes == Roster \cup Outsiders

ASSUME RetentionAssumption ==
  /\ IsFiniteSet(Roster) /\ Roster # {}
  /\ LogLength \in Nat

VARIABLES
  applied,  \* applied[n]: n has applied the positions 1 .. applied[n]
  floor,    \* floor[n]: n's Retained log starts above this position
  reports,  \* the watermarks on the network
  acks,     \* the open barrier: the watermark of every node that has acked
  stable    \* the frontiers certified so far

retentionVars == <<applied, floor, reports, acks, stable>>

RetentionInit ==
  /\ applied = [n \in Nodes |-> 0]
  /\ floor = [n \in Nodes |-> 0]
  /\ reports = {}
  /\ acks = [n \in {} |-> 0]
  /\ stable = {}

-----------------------------------------------------------------------------
\* Retained::readable.
Readable(n, position) == position > floor[n]

\* n has applied this position and has not forgotten it.
Has(n, position) == position <= applied[n] /\ Readable(n, position)

\* n applies its next position: new, or fetched from a node that still has it.
Apply(n) ==
  /\ applied[n] < LogLength
  /\ \/ \A m \in Nodes : applied[m] <= applied[n]
     \/ \E m \in Nodes : Has(m, applied[n] + 1)
  /\ applied' = [applied EXCEPT ![n] = @ + 1]
  /\ UNCHANGED <<floor, reports, acks, stable>>

\* n sends out how far it has come.
Report(n) ==
  /\ reports' = reports \cup {<<n, applied[n]>>}
  /\ UNCHANGED <<applied, floor, acks, stable>>

\* Barrier::over: whatever was collected before goes with the old barrier.
Open ==
  /\ acks' = [n \in {} |-> 0]
  /\ UNCHANGED <<applied, floor, reports, stable>>

\* Barrier::ack: of a node's watermarks the barrier keeps the highest.
Ack ==
  /\ \E report \in reports :
       LET n == report[1]
           watermark == report[2]
           recorded == IF n \in DOMAIN acks /\ acks[n] > watermark THEN acks[n] ELSE watermark
       IN  acks' = [m \in DOMAIN acks \cup {n} |-> IF m = n THEN recorded ELSE acks[m]]
  /\ UNCHANGED <<applied, floor, reports, stable>>

\* Barrier::seal: every member has reported.
Unanimous == Roster \subseteq DOMAIN acks

\* Mutant: the watermark of the furthest member.
FrontierFurthest == Max({acks[n] : n \in Roster})

\* Barrier::seal: the laggard's watermark, over the roster and not over the acks.
Frontier == Min({acks[n] : n \in Roster})

\* Barrier::seal takes the barrier by value: sealed or not, the acks are gone.
Seal ==
  /\ stable' = IF Unanimous THEN stable \cup {Frontier} ELSE stable
  /\ acks' = [n \in {} |-> 0]
  /\ UNCHANGED <<applied, floor, reports>>

\* Retained::compact never lowers the floor.
Cut(n, upto) == IF upto > floor[n] THEN upto ELSE floor[n]

\* Retained::compact, up to any certified frontier, recent or not.
Compact(n) ==
  /\ \E upto \in stable : floor' = [floor EXCEPT ![n] = Cut(n, upto)]
  /\ UNCHANGED <<applied, reports, acks, stable>>

RetentionNext ==
  \/ \E n \in Nodes : Apply(n) \/ Report(n) \/ Compact(n)
  \/ Open \/ Ack \/ Seal

RetentionSpec == RetentionInit /\ [][RetentionNext]_retentionVars

-----------------------------------------------------------------------------
\* seal (stability.rs:176-182) with compact (compaction.rs:167-170): whoever compacts,
\* with however old a certificate, no node has forgotten the position that some
\* member of the roster needs next.
NoOneStranded == \A n \in Nodes, m \in Roster : Readable(n, applied[m] + 1)

=============================================================================
