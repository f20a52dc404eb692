------------------------------- MODULE Tokens -------------------------------
(***************************************************************************)
(* Membership tokens (lib.rs): a whole token is split into a low and a     *)
(* high half of its epoch, and a low and a high half of one epoch merge.   *)
(*                                                                         *)
(* A token is moved and never copied, so the tokens there are form a bag;  *)
(* epoch and set are types, and what the types admit are the guards here.  *)
(* Nothing keeps anybody from a second genesis at an epoch, and a half may *)
(* meet the other half of another whole.                                   *)
(***************************************************************************)
EXTENDS Naturals, FiniteSets, Functions, Bags

CONSTANTS
  Epochs,
  Memberships,  \* the member masks that tokens are minted with
  LowMembers,   \* the members below the bit that split cuts at
  MaxMinted     \* bound of the runs

VARIABLES
  held,     \* the bag of tokens
  minted,   \* the wholes that genesis minted (the reference)
  dropped   \* the tokens that were dropped

tokenVars == <<held, minted, dropped>>

\* A Quorum<E, S>: S, the ActiveSet, is "All", "Lo" or "Hi".
Token(e, set, members) == [epoch |-> e, set |-> set, members |-> members]

With(bag, t) == bag (+) SetToBag({t})

Without(bag, t) == bag (-) SetToBag({t})

TokensInit == held = EmptyBag /\ minted = EmptyBag /\ dropped = EmptyBag

-----------------------------------------------------------------------------
\* Quorum::genesis, at any epoch and over any members.
Genesis ==
  /\ BagCardinality(minted) < MaxMinted
  /\ \E e \in Epochs, members \in Memberships :
       LET whole == Token(e, "All", members)
       IN  held' = With(held, whole) /\ minted' = With(minted, whole)
  /\ UNCHANGED dropped

\* Mutant: the low half keeps everybody.
HalvesOverlap(members) == [lo |-> members, hi |-> members \ LowMembers]

Halves(members) == [lo |-> members \cap LowMembers, hi |-> members \ LowMembers]

\* Quorum::split consumes the whole.
Split ==
  /\ \E whole \in BagToSet(held) :
       LET halves == Halves(whole.members) IN
         /\ whole.set = "All"
         /\ held' = With(With(Without(held, whole), Token(whole.epoch, "Lo", halves.lo)),
                         Token(whole.epoch, "Hi", halves.hi))
  /\ UNCHANGED <<minted, dropped>>

\* Mutant: a half is its own complement.
ComplementOfItself == {<<"Lo", "Lo">>, <<"Lo", "Hi">>, <<"Hi", "Lo">>}

ComplementOf == {<<"Lo", "Hi">>, <<"Hi", "Lo">>}

\* Mutant: the epochs need not agree.
MergeableAcrossEpochs(t, u) == <<t.set, u.set>> \in ComplementOf

\* The types that merge takes.
Mergeable(t, u) == t.epoch = u.epoch /\ <<t.set, u.set>> \in ComplementOf

\* merge consumes both.
MergeTokens ==
  /\ \E t, u \in BagToSet(held) :
       /\ Mergeable(t, u) /\ BagIn(u, Without(held, t))
       /\ held' = With(Without(Without(held, t), u),
                       Token(t.epoch, "All", t.members \cup u.members))
  /\ UNCHANGED <<minted, dropped>>

\* A token goes out of scope (the must_use of lib.rs:811).
DropToken ==
  /\ \E t \in BagToSet(held) : held' = Without(held, t) /\ dropped' = With(dropped, t)
  /\ UNCHANGED minted

TokensNext == Genesis \/ Split \/ MergeTokens \/ DropToken

TokensSpec == TokensInit /\ [][TokensNext]_tokenVars

-----------------------------------------------------------------------------
\* How many tokens of a bag are of a kind.
Copies(bag, kind) == SumFunctionOnSet(bag, BagToSet(bag) \cap kind)

\* split and merge (lib.rs:834-863), in any order and across wholes of one epoch: every
\* member that was minted at an epoch is in as many tokens of that epoch as wholes were
\* minted with it, less those dropped, so nobody is counted twice or lost; and each
\* whole that was minted is one whole or one half on either side, so there are never
\* more wholes of an epoch than were minted.
MembersAreConserved ==
  LET all == UNION {BagToSet(bag) : bag \in {held, minted, dropped}}
      Conserved(kind) == Copies(held, kind) + Copies(dropped, kind) = Copies(minted, kind)
  IN  \A e \in Epochs :
        /\ \A n \in UNION Memberships :
             Conserved({t \in all : t.epoch = e /\ n \in t.members})
        /\ \A side \in {"Lo", "Hi"} :
             Conserved({t \in all : t.epoch = e /\ t.set \in {"All", side}})
=============================================================================
