------------------------------ MODULE Unanimity ------------------------------
(* What atomic commit promises the shards of one transaction (cross_shard.rs *)
(* 4-8, twophase.rs 33-46): each applies one outcome for good, nobody        *)
(* applies the other one, and a commit has everybody's consent.              *)
CONSTANT Parties

VARIABLES
  consent,   \* who has agreed to commit
  fate       \* what each has applied

Open(p) == fate[p] = "open"

Init ==
  /\ consent = {}
  /\ fate = [p \in Parties |-> "open"]

Consent(p) == Open(p) /\ consent' = consent \cup {p} /\ UNCHANGED fate

Commit(p) ==
  /\ Open(p)
  /\ consent = Parties /\ \A q \in Parties : fate[q] # "aborted"
  /\ fate' = [fate EXCEPT ![p] = "committed"]
  /\ UNCHANGED consent

Abort(p) ==
  /\ Open(p)
  /\ \A q \in Parties : fate[q] # "committed"
  /\ fate' = [fate EXCEPT ![p] = "aborted"]
  /\ UNCHANGED consent

Next == \E p \in Parties : Consent(p) \/ Commit(p) \/ Abort(p)

Spec == Init /\ [][Next]_<<consent, fate>>
=============================================================================
