----------------------------- MODULE Authority -----------------------------
(* What the lease guard of failover.rs promises, without hosts, votes or a *)
(* network: authority is granted for an interval of ticks, and a new grant *)
(* is made only after every earlier one has run out.  A lease is the       *)
(* interval granted_at .. expires_after, both ends included.               *)
EXTENDS Naturals

CONSTANTS
  Epochs,   \* the epochs a grant can be made at
  Times     \* the ticks a lease can name

VARIABLES
  clock,   \* the current tick
  grants   \* every lease that was ever granted, by epoch

Lease == [epoch : Epochs, granted_at : Times, expires_after : Times]

\* Lease::is_valid.
Valid(lease, t) == t <= lease.expires_after

Init ==
  /\ clock = 0
  /\ \E ttl \in Times : grants = {[epoch |-> 0, granted_at |-> 0, expires_after |-> ttl]}

Tick == clock' = clock + 1 /\ UNCHANGED grants

\* reconfigure returns Ok: nothing granted before is still valid, and the epoch
\* is new.
Grant(lease) ==
  /\ lease.granted_at = clock
  /\ \A g \in grants : ~ Valid(g, clock) /\ g.epoch < lease.epoch
  /\ grants' = grants \cup {lease}
  /\ UNCHANGED clock

Next == Tick \/ \E lease \in Lease : Grant(lease)

Spec == Init /\ [][Next]_<<clock, grants>>
=============================================================================
