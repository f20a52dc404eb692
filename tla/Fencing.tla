------------------------------- MODULE Fencing -------------------------------
(***************************************************************************)
(* Fencing tokens: fencing.rs.  A lock service hands out numbered tokens,  *)
(* clients hold them for as long as they like, and a store that remembers  *)
(* the highest number it has accepted refuses the lower ones.              *)
(*                                                                         *)
(* The lock itself excludes nobody: a client may pause for any time        *)
(* between getting a token and using it, and it keeps an old token when it *)
(* has a newer one, for a token is Copy.                                   *)
(***************************************************************************)
EXTENDS Naturals, Sequences

CONSTANTS
  Clients,
  MaxToken,   \* bounds of the runs: tokens issued, writes accepted
  MaxWrites

ASSUME FencingAssumption == MaxToken \in Nat /\ MaxWrites \in Nat

VARIABLES
  next,        \* LockService.next
  tokens,      \* tokens[c]: the numbers of the tokens c holds
  high_water,  \* FencedStore.high_water
  landed       \* the accepted writes in their order; the last is the store's value

fenceVars == <<next, tokens, high_water, landed>>

Writes == [client : Clients, number : 1 .. MaxToken]

\* LockService::new and FencedStore::new.
FenceInit ==
  /\ next = 1
  /\ tokens = [c \in Clients |-> {}]
  /\ high_water = 0
  /\ landed = <<>>

-----------------------------------------------------------------------------
\* Mutant: the number stays the same.
AdvanceForgotten(number) == number

\* LockService::acquire moves on to the number after the one it hands out.
Advance(number) == number + 1

\* LockService::acquire.
Acquire(c) ==
  /\ next <= MaxToken
  /\ tokens' = [tokens EXCEPT ![c] = @ \cup {next}]
  /\ next' = Advance(next)
  /\ UNCHANGED <<high_water, landed>>

\* Mutant: no number is refused.
UnfencedAlways(number) == TRUE

\* FencedStore::write's test: not older than the newest write accepted.
Unfenced(number) == number >= high_water

\* FencedStore::write with a token that c holds.  A refused write, Fenced::Stale,
\* leaves the store as it was.
Write(c) ==
  /\ Len(landed) < MaxWrites
  /\ \E number \in tokens[c] :
       /\ Unfenced(number)
       /\ high_water' = number
       /\ landed' = Append(landed, [client |-> c, number |-> number])
  /\ UNCHANGED <<next, tokens>>

=============================================================================
