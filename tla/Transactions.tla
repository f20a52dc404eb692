---------------------------- MODULE Transactions ----------------------------
(***************************************************************************)
(* Isolation: transactions that read and replace the values of some keys.  *)
(* Under locks each is a Txn of two_phase_lock.rs, which first grows and    *)
(* then shrinks.  Its locks are taken in rank order (lockorder.rs, mode     *)
(* "ordered") or in any order, with a detector that assembles wait-for      *)
(* graphs (deadlock.rs, "detected").  Without locks it is a Txn of occ.rs   *)
(* ("optimistic").  Either way the commit waits out the clocks'            *)
(* uncertainty (commit_wait.rs) before its value is revealed, and the       *)
(* values live in partitions that keys are routed to (sharding.rs).         *)
(*                                                                         *)
(* The modules leave duties to their callers, which are kept here: the lock *)
(* table excludes (two_phase_lock.rs:101), validation and write-back run    *)
(* under one latch and the version moves last (occ.rs:110), a detector is   *)
(* told of every blocked transaction and starts a new graph only when the   *)
(* victim is gone (deadlock.rs:110), everybody waits (commit_wait.rs:76).   *)
(*                                                                         *)
(* Time is relative: left[t] is how far the timestamp of t lies ahead of    *)
(* true time.  A clock's reading is behind by Epsilon at most, so that      *)
(* [reading, reading + Epsilon] brackets true time.                         *)
(***************************************************************************)
EXTENDS Integers, Sequences, SequencesExt, FiniteSetsExt

CONSTANTS
  Txns,        \* node ids, positive numbers: deadlock.rs compares them
  Keys,        \* key hashes
  Workloads,   \* what transactions may need: a set of functions from Txns to sets of keys
  ShardCount,
  Epsilon

ASSUME TransactionsAssumption ==
  /\ Txns \subseteq Nat \ {0} /\ IsFiniteSet(Txns)
  /\ Keys \subseteq Nat /\ IsFiniteSet(Keys)
  /\ Workloads \subseteq [Txns -> (SUBSET Keys) \ {{}}]
  /\ ShardCount \in Nat \ {0} /\ Epsilon \in Nat

VARIABLES
  mode,      \* "ordered", "detected" or "optimistic"
  needs,     \* the keys each transaction is about
  phase,     \* where each transaction is
  plan,      \* plan[t]: the keys t has yet to lock or read, in its order
  held,      \* held[t]: the keys t has locked or read and not written, in its order
  seen,      \* seen[t][k]: whose value t found at k
  store,     \* store[s][k]: Partition s's value at k, named by its writer
  order,     \* the transactions in the order of their lock points or validations
  edges,     \* WaitForGraph.edges: edges[t] is whom t was said to wait for
  victim,    \* the victim of a detected cycle, until it is aborted
  left,      \* left[t]: commit_ts less true time, from -1 (past) to Epsilon
  version, snapshot, latch  \* occ.rs and its caller's latch

txnVars == <<mode, needs, phase, plan, held, seen, store, order, edges, victim,
             left, version, snapshot, latch>>

Nobody == 0
Shards == 0 .. (ShardCount - 1)
Locking == mode # "optimistic"

TxnInit ==
  /\ mode \in {"ordered", "detected", "optimistic"}
  /\ needs \in Workloads
  /\ phase = [t \in Txns |-> "idle"]
  /\ plan = [t \in Txns |-> <<>>] /\ held = [t \in Txns |-> <<>>]
  /\ seen = [t \in Txns |-> [k \in Keys |-> Nobody]]
  /\ store = [s \in Shards |-> [k \in Keys |-> Nobody]]
  /\ order = <<>>
  /\ edges = [t \in Txns |-> Nobody] /\ victim = Nobody
  /\ left = [t \in Txns |-> -1]
  /\ version = 0 /\ snapshot = [t \in Txns |-> 0] /\ latch = Nobody

-----------------------------------------------------------------------------
\* Mutant: every shard takes every key.
AdmitsAny(s, k) == TRUE

\* Shard::admit: a key belongs to the shard of its remainder.
Admits(s, k) == k % ShardCount = s

\* Partition::get.
Get(k) == LET s == CHOOSE s \in Shards : Admits(s, k) IN store[s][k]

\* Partition::apply, of a transaction's value at a key, in the shard that admits it.
Applied(t, k) == \E s \in Shards :
  Admits(s, k) /\ store' = [store EXCEPT ![s][k] = t]

Holders(k) == {u \in Txns : k \in ToSet(held[u])}

\* The single outstanding request: t waits for the lock that comes next.
Blocked(t) ==
  /\ Locking /\ phase[t] = "growing" /\ plan[t] # <<>>
  /\ Holders(Head(plan[t])) # {}

\* Mutant: locks in any order.
RankedAnyhow(p) == TRUE

\* Held::acquire: the rank of a lock, its key here, is above the watermark.
Ranked(p) == \A i, j \in DOMAIN p : i < j => p[i] < p[j]

Plans(t) == {p \in SetToSeqs(needs[t]) : mode = "ordered" => Ranked(p)}

\* Txn::begin of occ.rs takes the version it starts from.
Snapshot(t) == snapshot' = [snapshot EXCEPT ![t] = version]

\* Txn::begin of either kind, Held::base.
Begin(t) ==
  /\ phase[t] = "idle"
  /\ \E p \in Plans(t) : plan' = [plan EXCEPT ![t] = p]
  /\ phase' = [phase EXCEPT ![t] = "growing"]
  /\ Snapshot(t)
  /\ UNCHANGED <<mode, needs, held, seen, store, order, edges, victim, left, version,
                 latch>>

\* Txn::acquire, Held::acquire: the next lock, when the table grants it, and the
\* value under it.  The last one is the lock point.  A claim that t waits stays.
Acquire(t) ==
  /\ Locking /\ phase[t] = "growing" /\ plan[t] # <<>> /\ ~ Blocked(t)
  /\ LET k == Head(plan[t]) IN
       /\ held' = [held EXCEPT ![t] = Append(@, k)]
       /\ seen' = [seen EXCEPT ![t][k] = Get(k)]
  /\ plan' = [plan EXCEPT ![t] = Tail(@)]
  /\ order' = IF Len(plan[t]) = 1 THEN Append(order, t) ELSE order
  /\ UNCHANGED <<mode, needs, phase, store, edges, victim, left, version, snapshot, latch>>

\* A read without a lock.
Read(t) ==
  /\ ~ Locking /\ phase[t] = "growing" /\ plan[t] # <<>>
  /\ LET k == Head(plan[t]) IN
       /\ held' = [held EXCEPT ![t] = Append(@, k)]
       /\ seen' = [seen EXCEPT ![t][k] = Get(k)]
  /\ plan' = [plan EXCEPT ![t] = Tail(@)]
  /\ UNCHANGED <<mode, needs, phase, store, order, edges, victim, left, version, snapshot,
                 latch>>

\* The transaction is gone, its guards dropped; it begins again from nothing.
Dropped(t) ==
  /\ phase' = [phase EXCEPT ![t] = "idle"]
  /\ plan' = [plan EXCEPT ![t] = <<>>] /\ held' = [held EXCEPT ![t] = <<>>]
  /\ seen' = [seen EXCEPT ![t] = [k \in Keys |-> Nobody]]

\* Mutants: validation looks for an older version only; nobody holds a latch.
UnchangedSinceLoose(t) == version <= snapshot[t] + 1
UnlatchedAlways == TRUE

Unlatched == latch = Nobody
UnchangedSince(t) == version = snapshot[t]

\* Txn::validate when nothing was committed since, under the latch.
Validate(t) ==
  /\ ~ Locking /\ phase[t] = "growing" /\ plan[t] = <<>>
  /\ Unlatched /\ UnchangedSince(t)
  /\ phase' = [phase EXCEPT ![t] = "valid"]
  /\ latch' = t
  /\ order' = Append(order, t)
  /\ UNCHANGED <<mode, needs, plan, held, seen, store, edges, victim, left, version,
                 snapshot>>

\* Txn::validate when something was: Conflict, and the transaction is consumed.
Conflict(t) ==
  /\ ~ Locking /\ phase[t] = "growing" /\ plan[t] = <<>>
  /\ Unlatched /\ ~ UnchangedSince(t)
  /\ Dropped(t)
  /\ UNCHANGED <<mode, needs, store, order, edges, victim, left, version, snapshot, latch>>

-----------------------------------------------------------------------------
HolderOf(t) == CHOOSE u \in Holders(Head(plan[t])) : TRUE

\* Mutant: claims are collected while a victim is still about.
GraphOpenAlways == TRUE

\* WaitForGraph::new, by the caller, once the cycle before is resolved.
GraphOpen == victim = Nobody

\* WaitForGraph::wait: t claims that it waits for the holder.
Claim(t) ==
  /\ mode = "detected" /\ GraphOpen
  /\ Blocked(t) /\ edges[t] # HolderOf(t)
  /\ edges' = [edges EXCEPT ![t] = HolderOf(t)]
  /\ UNCHANGED <<mode, needs, phase, plan, held, seen, store, order, victim, left,
                 version, snapshot, latch>>

\* Where the walk of detect gets from t in n steps.
Walk(t) ==
  LET walk[n \in 0 .. Cardinality(Txns)] ==
        IF n = 0 THEN t
        ELSE IF walk[n - 1] = Nobody THEN Nobody ELSE edges[walk[n - 1]]
  IN walk

OnCycle(t) == \E n \in 1 .. Cardinality(Txns) : Walk(t)[n] = t

\* The members of the cycle that detect's walk from t runs into, if any.
CycleFrom(t) == {u \in Range(Walk(t)) \ {Nobody} : OnCycle(u)}

Acyclic == \A t \in Txns : CycleFrom(t) = {}

\* WaitForGraph::detect, when everybody who is blocked has been heard: the graph is
\* consumed, and the first cycle in the order of the ids names its greatest member.
Detect ==
  /\ mode = "detected" /\ GraphOpen
  /\ \A t \in Txns : Blocked(t) => edges[t] # Nobody
  /\ \E t \in Txns : edges[t] # Nobody
  /\ edges' = [t \in Txns |-> Nobody]
  /\ victim' = IF Acyclic THEN Nobody
               ELSE Max(CycleFrom(Min({t \in Txns : CycleFrom(t) # {}})))
  /\ UNCHANGED <<mode, needs, phase, plan, held, seen, store, order, left, version,
                 snapshot, latch>>

\* Cycle::abort_victim, carried out.
Abort(t) ==
  /\ victim = t
  /\ victim' = Nobody
  /\ Dropped(t)
  /\ UNCHANGED <<mode, needs, store, order, edges, left, version, snapshot, latch>>

-----------------------------------------------------------------------------
Ready(t) == phase[t] = "valid" \/ (Locking /\ phase[t] = "growing" /\ plan[t] = <<>>)

\* Mutants: the timestamp is the earliest bound; the window is closed when it is not over.
LatestEarly(error)     == 0 - error
ClosedInclusive(t, error) == left[t] + error <= 0

\* TrueTime::now(reading).latest for a reading that is behind by error.
Latest(error) == Epsilon - error

\* Pending::stamp at the latest bound of the interval.
Stamp(t) ==
  /\ Ready(t)
  /\ \E error \in 0 .. Epsilon : left' = [left EXCEPT ![t] = Latest(error)]
  /\ phase' = [phase EXCEPT ![t] = "pending"]
  /\ UNCHANGED <<mode, needs, plan, held, seen, store, order, edges, victim, version,
                 snapshot, latch>>

\* TrueTime::now(reading).earliest > commit_ts.
Closed(t, error) == left[t] + error < 0

\* Pending::try_release; before its time it changes nothing.
Externalize(t) ==
  /\ phase[t] = "pending"
  /\ \E error \in 0 .. Epsilon : Closed(t, error)
  /\ phase' = [phase EXCEPT ![t] = "externalized"]
  /\ UNCHANGED <<mode, needs, plan, held, seen, store, order, edges, victim, left,
                 version, snapshot, latch>>

\* True time passes.
Pass ==
  /\ \E t \in Txns : left[t] > -1
  /\ left' = [t \in Txns |-> IF left[t] > -1 THEN left[t] - 1 ELSE -1]
  /\ UNCHANGED <<mode, needs, phase, plan, held, seen, store, order, edges, victim,
                 version, snapshot, latch>>

\* Mutant: the revealed value does not wait, the locks are let go at the lock point.
RevealsEarly(t) == phase[t] \in {"pending", "externalized", "shrinking"}

Reveals(t) == phase[t] \in {"externalized", "shrinking"}

\* Held::release: under ranks the lock on top goes first.
Releasable(t, i) == mode = "ordered" => i = Len(held[t])

\* Txn::release, Held::release: the value is written and its lock given back.
Release(t) ==
  /\ Locking /\ Reveals(t)
  /\ \E i \in DOMAIN held[t] :
       /\ Releasable(t, i)
       /\ Applied(t, held[t][i])
       /\ held' = [held EXCEPT ![t] = RemoveAt(@, i)]
  /\ phase' = [phase EXCEPT ![t] = "shrinking"]
  /\ UNCHANGED <<mode, needs, plan, seen, order, edges, victim, left, version, snapshot,
                 latch>>

\* Committed.value of occ.rs is written back, key by key, under the latch.
WriteBack(t) ==
  /\ ~ Locking /\ Reveals(t) /\ held[t] # <<>>
  /\ Applied(t, Head(held[t]))
  /\ held' = [held EXCEPT ![t] = Tail(@)]
  /\ UNCHANGED <<mode, needs, phase, plan, seen, order, edges, victim, left, version,
                 snapshot, latch>>

\* Txn::commit of occ.rs hands the write over, and with it the version moves on.
NextVersion == IF Locking THEN version ELSE version + 1

\* Txn::commit of either kind: the end, and the latch opens.
Commit(t) ==
  /\ Reveals(t) /\ held[t] = <<>>
  /\ phase' = [phase EXCEPT ![t] = "done"]
  /\ version' = NextVersion
  /\ latch' = IF latch = t THEN Nobody ELSE latch
  /\ UNCHANGED <<mode, needs, plan, held, seen, store, order, edges, victim, left,
                 snapshot>>

Steps(t) ==
  \/ Begin(t) \/ Acquire(t) \/ Read(t) \/ Validate(t) \/ Conflict(t) \/ Abort(t)
  \/ Stamp(t) \/ Externalize(t) \/ Release(t) \/ WriteBack(t) \/ Commit(t)

TxnNext == (\E t \in Txns : Steps(t) \/ Claim(t)) \/ Detect \/ Pass

TransactionsSpec == TxnInit /\ [][TxnNext]_txnVars

-----------------------------------------------------------------------------
\* The last of the first n transactions in order that is about k.
LastWriter(k, n) ==
  LET writers == {i \in 1 .. n : k \in needs[order[i]]}
  IN IF writers = {} THEN Nobody ELSE order[Max(writers)]

\* two_phase_lock.rs:24-28 and occ.rs:16: with either discipline the schedule is
\* serializable.  Each transaction found what the ones before it left, in the order
\* of lock points or validations, however their steps mix.
Serializable ==
  \A n \in DOMAIN order : \A k \in needs[order[n]] :
    seen[order[n]][k] = LastWriter(k, n - 1)

\* detect (deadlock.rs:150-192) over claims of any age: under two-phase locking, and
\* with a new graph after every abort, there are no phantoms.  The members of a cycle
\* are blocked by each other now, whatever was granted and released since the claims.
CycleIsDeadlock ==
  \A t \in Txns : OnCycle(t) => Blocked(t) /\ edges[t] \in Holders(Head(plan[t]))

\* stamp and try_release (commit_wait.rs:151-175): a timestamp is later than those of
\* all transactions that were revealed before it was taken, and of all that come
\* first in the order and share a key with it.
TimestampsFollowTheOrder ==
  [][\A t, u \in Txns :
       /\ phase[t] # "pending" /\ phase'[t] = "pending"
       /\ \/ phase[u] \in {"externalized", "shrinking", "done"}
          \/ /\ u \in ToSet(order) /\ needs[u] \cap needs[t] # {}
             /\ \E m, n \in DOMAIN order : m < n /\ order[m] = u /\ order[n] = t
       => left[u] < left'[t]]_txnVars

AllCommitted == \A t \in Txns : phase[t] = "done"

=============================================================================
