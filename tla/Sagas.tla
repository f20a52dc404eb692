-------------------------------- MODULE Sagas --------------------------------
(***************************************************************************)
(* Long transactions over shares of one budget: saga.rs, whose steps commit *)
(* at once and are undone in reverse when a later one fails, over the       *)
(* reservations of escrow.rs.  A step splits units off an account; its      *)
(* compensation merges them back; what a committed saga keeps it spends.    *)
(*                                                                         *)
(* The stack of compensations is the type of a Saga or of an Aborting; here *)
(* it is the sequence of the reservations the steps took.  Both are affine: *)
(* the caller may drop a saga at any moment, and its reservations with it.  *)
(***************************************************************************)
EXTENDS Naturals, Sequences, SequencesExt, FiniteSetsExt

CONSTANTS
  SagaIds,
  Accounts,
  Plan,      \* Plan[g]: the steps of g, each an account and the units wanted
  Granted    \* Granted[a]: a's share of the budget

Steps == [account : Accounts, units : Nat]

ASSUME SagasAssumption ==
  /\ IsFiniteSet(SagaIds) /\ IsFiniteSet(Accounts)
  /\ \A g \in SagaIds : Plan[g] \in Seq(Steps)
  /\ Granted \in [Accounts -> Nat]

VARIABLES
  remaining,  \* remaining[a]: the units of a's reservation
  stack,      \* stack[g]: what the completed steps of g hold, the latest last
  phase,      \* phase[g]: the type of g's token
  receipts,   \* receipts[g]: the units g has spent
  forfeited   \* the units of dropped reservations

sagaVars == <<remaining, stack, phase, receipts, forfeited>>

\* Saga::begin over the accounts that Reservation::grant was split into.
SagaInit ==
  /\ remaining = Granted
  /\ stack = [g \in SagaIds |-> <<>>]
  /\ phase = [g \in SagaIds |-> "forward"]
  /\ receipts = [g \in SagaIds |-> 0]
  /\ forfeited = 0

Units(held) == SumFunction([i \in DOMAIN held |-> held[i].units])

-----------------------------------------------------------------------------
NextStep(g) == Plan[g][Len(stack[g]) + 1]

\* Mutant: the parent keeps everything.
KeptWhole(left, give) == left

\* What stays with the parent when Reservation::split hands units out.
Kept(left, give) == left - give

(* Saga::try_step: the split is refused when the account has too little, or *)
(* the step fails for a reason of its own; either way it leaves no effect,  *)
(* and the saga turns to its compensations.                                 *)
TryStep(g) ==
  /\ phase[g] = "forward" /\ Len(stack[g]) < Len(Plan[g])
  /\ LET step == NextStep(g) IN
     \/ /\ step.units <= remaining[step.account]
        /\ remaining' = [remaining EXCEPT ![step.account] = Kept(@, step.units)]
        /\ stack' = [stack EXCEPT ![g] = Append(@, step)]
        /\ UNCHANGED phase
     \/ phase' = [phase EXCEPT ![g] = "aborting"] /\ UNCHANGED <<remaining, stack>>
  /\ UNCHANGED <<receipts, forfeited>>

\* Saga::commit: the compensations are discarded.  It takes a stack of any length; that
\* all steps have been taken before is the caller's to see to.
CommitSaga(g) ==
  /\ phase[g] = "forward" /\ Len(stack[g]) = Len(Plan[g])
  /\ phase' = [phase EXCEPT ![g] = "committed"]
  /\ UNCHANGED <<remaining, stack, receipts, forfeited>>

\* The latest reservation after a part of it is spent.
Reduced(held, amount) ==
  [held EXCEPT ![Len(held)] =
     [account |-> Last(held).account, units |-> Kept(Last(held).units, amount)]]

\* Reservation::spend, of any part of what the saga holds last.
Spend(g) ==
  /\ phase[g] = "committed" /\ stack[g] # <<>>
  /\ \E amount \in 1 .. Last(stack[g]).units :
       /\ receipts' = [receipts EXCEPT ![g] = @ + amount]
       /\ stack' = [stack EXCEPT ![g] =
            IF amount = Last(@).units THEN Front(@) ELSE Reduced(@, amount)]
  /\ UNCHANGED <<remaining, phase, forfeited>>

\* Mutant: the oldest step is undone first.
OldestFirst(held) == <<Head(held), Tail(held)>>

\* Aborting::compensate_next: the latest step, and the stack below it.
LatestFirst(held) == <<Last(held), Front(held)>>

\* compensate_next, whose caller gives the units back: Reservation::merge.
CompensateNext(g) ==
  /\ phase[g] = "aborting" /\ stack[g] # <<>>
  /\ LET undone == LatestFirst(stack[g]) IN
     /\ remaining' = [remaining EXCEPT ![undone[1].account] = @ + undone[1].units]
     /\ stack' = [stack EXCEPT ![g] = undone[2]]
  /\ UNCHANGED <<phase, receipts, forfeited>>

\* Mutant: done on any stack.
DoneAnyTime(held) == TRUE

\* Aborting::done exists on the empty stack only.
Unwound(held) == held = <<>>

Done(g) ==
  /\ phase[g] = "aborting" /\ Unwound(stack[g])
  /\ phase' = [phase EXCEPT ![g] = "compensated"]
  /\ UNCHANGED <<remaining, stack, receipts, forfeited>>

\* A saga that is still open, or the reservations of one that is committed, go out of scope.
DropSaga(g) ==
  /\ phase[g] \in {"forward", "aborting", "committed"} /\ stack[g] # <<>>
  /\ forfeited' = forfeited + Units(stack[g])
  /\ stack' = [stack EXCEPT ![g] = <<>>]
  /\ phase' = [phase EXCEPT ![g] = "dropped"]
  /\ UNCHANGED <<remaining, receipts>>

SagaNext ==
  \E g \in SagaIds :
    \/ TryStep(g) \/ CommitSaga(g) \/ Spend(g)
    \/ CompensateNext(g) \/ Done(g) \/ DropSaga(g)

SagaSpec == SagaInit /\ [][SagaNext]_sagaVars

-----------------------------------------------------------------------------
\* The units of each saga, in its reservations and spent.
Holdings == [g \in SagaIds |-> Units(stack[g]) + receipts[g]]

\* split, spend and merge (escrow.rs:160-201): no interleaving of sagas makes or loses a
\* unit, except by dropping it, so what is spent never exceeds the budget.
CapacityIsConserved ==
  SumFunction(remaining) + SumFunction(Holdings) + forfeited = SumFunction(Granted)

\* try_step, compensate_next, done and commit (saga.rs:169-235): as long as a saga is not
\* committed its steps in effect are the first of its plan, so none outlives one it was
\* built on; a compensated one has no effect, and a committed one all of them.
SagaIsWhole ==
  \A g \in SagaIds :
    /\ phase[g] \in {"forward", "aborting"} => IsPrefix(stack[g], Plan[g])
    /\ phase[g] = "compensated" => stack[g] = <<>> /\ receipts[g] = 0
    /\ phase[g] = "committed" => receipts[g] + Units(stack[g]) = Units(Plan[g])
=============================================================================
