----------------------------- MODULE ChainStore -----------------------------
(***************************************************************************)
(* A replicated store.  Clients write with fencing tokens at the head of a  *)
(* chain (fencing.rs, chain.rs), updates walk down it one hop at a time     *)
(* and are committed at the tail, and every replica knows how recent it is  *)
(* (staleness.rs).  Clients read in sessions at any replica (session.rs).   *)
(*                                                                         *)
(* An update is named by its place in the head's log, which is landed of    *)
(* Fencing.  The links are FIFO and the chain is whole, which chain.rs     *)
(* leaves to its operator (96-108), and so are synchronized clocks, which   *)
(* staleness.rs leaves to its (69-77).                                      *)
(***************************************************************************)
EXTENDS Fencing, FiniteSets, SequencesExt

CONSTANTS MaxTime   \* bound of the runs

ASSUME ChainAssumption == MaxTime \in Nat

VARIABLES
  now,          \* the time
  stamp,        \* stamp[i]: when update i was issued
  log,          \* log[p]: the updates that position p has applied, in its order
  last_applied, \* Replica.last_applied of each follower
  acked,        \* the updates that are committed
  wrote,        \* Session: the watermark W of each client, as far as read and write move it
  shown         \* shown[c]: what c's latest read showed

chainVars == <<next, tokens, high_water, landed, now, stamp, log, last_applied, acked,
               wrote, shown>>

Positions == {"head", "mid", "tail"}
Followers == Positions \ {"head"}

\* Forward::Next; the tail has none.
Following(p) == IF p = "head" THEN "mid" ELSE "tail"

ChainInit ==
  /\ FenceInit
  /\ now = 0 /\ stamp = <<>>
  /\ log = [p \in Positions |-> <<>>]
  /\ last_applied = [p \in Followers |-> 0]
  /\ acked = {}
  /\ wrote = [c \in Clients |-> {}] /\ shown = wrote

-----------------------------------------------------------------------------
AcquireToken(c) ==
  /\ Acquire(c)
  /\ UNCHANGED <<now, stamp, log, last_applied, acked, wrote, shown>>

\* Session::write puts the new write before the watermark it had.
Advanced(c, update) == wrote' = [wrote EXCEPT ![c] = @ \cup {update}]

\* FencedStore::write of an update that Update::issue brings in at the head.
Issue(c) ==
  /\ Write(c)
  /\ LET update == Len(landed) + 1 IN
       /\ log' = [log EXCEPT !["head"] = Append(@, update)]
       /\ Advanced(c, update)
  /\ stamp' = Append(stamp, now)
  /\ UNCHANGED <<now, last_applied, acked, shown>>

\* Mutant: a link delivers in any order.
NextOnLinkAny(p) == ToSet(log[p]) \ ToSet(log[Following(p)])

\* The first update that the following position has not got: the links are FIFO.
NextOnLink(p) ==
  {i \in ToSet(log[p]) : \E n \in DOMAIN log[p] :
     log[p][n] = i /\ Len(log[Following(p)]) = n - 1}

\* Mutant: the age of an update is counted from its arrival.
RecencyOfArrival(p, i) == now

\* How recent a replica is by an update: as recent as the head was when it issued it.
Recency(p, i) == IF stamp[i] > last_applied[p] THEN stamp[i] ELSE last_applied[p]

\* Update::forward: one hop, and the replica there applies it.
Forward(p) ==
  /\ p # "tail"
  /\ \E i \in NextOnLink(p) :
       /\ log' = [log EXCEPT ![Following(p)] = Append(@, i)]
       /\ last_applied' = [last_applied EXCEPT ![Following(p)] = Recency(Following(p), i)]
  /\ UNCHANGED <<next, tokens, high_water, landed, now, stamp, acked, wrote, shown>>

\* Mutant: an update is committed half way.
CommittableEarly(i) == i \in ToSet(log["mid"])

Committable(i) == i \in ToSet(log["tail"])

\* Update::commit, at the tail only.
CommitUpdate ==
  /\ \E i \in DOMAIN landed : i \notin acked /\ Committable(i) /\ acked' = acked \cup {i}
  /\ UNCHANGED <<next, tokens, high_water, landed, now, stamp, log, last_applied, wrote,
                 shown>>

\* A replica that has everything hears so and is brought up to date.
Refresh(p) ==
  /\ log[p] = log["head"] /\ last_applied[p] # now
  /\ last_applied' = [last_applied EXCEPT ![p] = now]
  /\ UNCHANGED <<next, tokens, high_water, landed, now, stamp, log, acked, wrote, shown>>

PassTime ==
  /\ now < MaxTime
  /\ now' = now + 1
  /\ UNCHANGED <<next, tokens, high_water, landed, stamp, log, last_applied, acked, wrote,
                 shown>>

\* freshness_of: the replica's version check against the session's watermark.
Fresh(c, p) == wrote[c] \subseteq ToSet(log[p])

\* Observed: the replica's state as a session sees it.
Observed(p) == ToSet(log[p])

\* Session::read, with the session as it was: Observed is not added to its watermark.
ReadInSession(c, p) ==
  /\ Fresh(c, p)
  /\ shown[c] # Observed(p)
  /\ shown' = [shown EXCEPT ![c] = Observed(p)]
  /\ UNCHANGED <<next, tokens, high_water, landed, now, stamp, log, last_applied, acked,
                 wrote>>

ChainNext ==
  \/ \E c \in Clients : AcquireToken(c) \/ Issue(c) \/ \E p \in Positions : ReadInSession(c, p)
  \/ \E p \in Positions : Forward(p)
  \/ \E p \in Followers : Refresh(p)
  \/ CommitUpdate \/ PassTime

ChainSpec == ChainInit /\ [][ChainNext]_chainVars

-----------------------------------------------------------------------------
\* Replica::read_within at age bound delta; now is never behind, nothing saturates.
ReadWithin(p, delta) == now - last_applied[p] <= delta

\* Staleness::require compiles for these tolerances.
Tolerates(tol, delta) == delta <= tol

\* Mutant: the head has a lease too.
HoldsLeaseToo(p) == p # "mid"

\* LeaderLease::acquire: it is the tail that answers for the chain.
HoldsLease(p) == p = "tail"

\* Replica::read_linearizable returns the local copy.
ReadLinearizable(p) == log[p]

\* FencedStore::write (fencing.rs:233-243) with LockService::acquire (124-128), seen from
\* any replica: once somebody else's write is in, a hold is over.  The writes under one
\* token stand together and are one client's, however long it pauses between them.
HoldsAreContiguous ==
  \A p \in Positions : \A i, k \in DOMAIN log[p] :
    landed[log[p][i]].number = landed[log[p][k]].number =>
      \A j \in i .. k : landed[log[p][j]] = landed[log[p][i]]

\* commit (chain.rs:201-208) with read_linearizable (staleness.rs:113-120): a read under
\* the lease reflects every committed update, and shows nothing that any replica lacks or
\* has in another order: no later read, wherever the lease goes, can miss it.
LinearizableIsEverywhere ==
  \A q \in Positions : HoldsLease(q) =>
    /\ acked \subseteq ToSet(ReadLinearizable(q))
    /\ \A p \in Positions : IsPrefix(ReadLinearizable(q), log[p])

\* read_within and require (staleness.rs:104-138): a read that passes for a tolerance
\* misses no update issued longer ago than that, however updates and refreshes came down.
StaleReadIsBounded ==
  \A p \in Followers, delta, tol \in 0 .. MaxTime :
    ReadWithin(p, delta) /\ Tolerates(tol, delta) =>
      \A i \in DOMAIN landed : i \notin ToSet(log[p]) => now - stamp[i] <= tol

\* Session::read (session.rs:128-136) "enforces RYW and MR": what a session's later
\* read shows includes what an earlier one did.
MonotonicReads == [][\A c \in Clients : shown[c] \subseteq shown'[c]]_chainVars

=============================================================================
