------------------------------- MODULE VClocks -------------------------------
(* Vector clocks and versioned values (vclock.rs), and the replicated data     *)
(* types of crdt.rs: grow-only sets, which are the values here, and grow-only  *)
(* counters.  A version is a record of a clock and a value.                    *)
EXTENDS Naturals, Functions

\* VClock::new, for the processes given.
Zero(procs) == [p \in procs |-> 0]

Tick(clock, p) == [clock EXCEPT ![p] = @ + 1]

\* Mutant: the join takes the other's entries, larger or not.
MergeOther(clock, other) == other

Merge(clock, other) ==
  [p \in DOMAIN clock |-> IF clock[p] > other[p] THEN clock[p] ELSE other[p]]

\* VClock::compare.
Compare(clock, other) ==
  LET le == \A p \in DOMAIN clock : clock[p] <= other[p]
      ge == \A p \in DOMAIN clock : clock[p] >= other[p]
  IN  CASE le /\ ge     -> "Equal"
        [] le /\ ~ ge   -> "Before"
        [] ~ le /\ ge   -> "After"
        [] ~ le /\ ~ ge -> "Concurrent"

\* GSet::join, the caller's merge function.
Join(elems, other) == elems \cup other

\* GCounter::new, a slot for each node.
NewCounter(procs) == [p \in procs |-> 0]

\* GCounter::increment, of one's own slot.
Increment(counts, p) == [counts EXCEPT ![p] = @ + 1]

\* Mutant: the negative control of crdt.rs, a join that adds.
JoinSums(counts, other) == [p \in DOMAIN counts |-> counts[p] + other[p]]

\* GCounter::join, slot by slot.
JoinCounts(counts, other) ==
  [p \in DOMAIN counts |-> IF other[p] > counts[p] THEN other[p] ELSE counts[p]]

\* GCounter::value.
CounterValue(counts) == SumFunction(counts)

MergeConcurrent(v, w) ==
  [clock |-> Merge(v.clock, w.clock), value |-> Join(v.value, w.value)]

\* Mutants: the version that has just come wins whenever it is not older; of two
\* versions neither of which is older the one at hand stays.
ResolveLastWriter(v, w) == IF Compare(v.clock, w.clock) \in {"After", "Equal"} THEN v ELSE w
ResolveFirst(v, w) ==
  IF Compare(v.clock, w.clock) = "Before" THEN w ELSE [v EXCEPT !.clock = Merge(@, w.clock)]

\* What compare's witness admits: take_dominant with an Ordered one, merge_concurrent
\* with a Concurrent one.
Resolved(v, w) ==
  CASE Compare(v.clock, w.clock) \in {"After", "Equal"} -> v
    [] Compare(v.clock, w.clock) = "Before"             -> w
    [] Compare(v.clock, w.clock) = "Concurrent"         -> MergeConcurrent(v, w)
=============================================================================
