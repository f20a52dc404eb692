------------------------------- MODULE Values -------------------------------
(***************************************************************************)
(* Values on their way up and down the consistency lattice                  *)
(* (consistency.rs) and the reconciliation of those that diverged           *)
(* (reconcile.rs): each node proposes a value, has a quorum commit it,      *)
(* forgets the epoch and hands it round; where two differ they are merged   *)
(* by a function whose laws were checked on samples, and the result is a    *)
(* proposal again.                                                          *)
(*                                                                         *)
(* The type of a node's value is its level; a Quorum is evidence that a     *)
(* majority stands by, whatever the value, and somebody always has one.     *)
(***************************************************************************)
EXTENDS FiniteSets

CONSTANTS
  Holders,
  Proposal,   \* Proposal[h]: what h proposes first
  Merges      \* the merge functions callers come with, as tables on pairs

VARIABLES
  law,        \* the Lawful witness: the merge, and the samples it was certified on
  level,      \* level[h]: "local", "at" or "agreed"
  value,      \* value[h]: h's value
  heard,      \* heard[h]: whose proposals are merged in it (the reference)
  published   \* the agreed values handed round, each with what is merged in it

valueVars == <<law, level, value, heard, published>>

-----------------------------------------------------------------------------
(* Lawful::certify, law by law.                                            *)

Idempotent(m, S)  == \A a \in S : m[<<a, a>>] = a
Commutative(m, S) == \A a, b \in S : m[<<a, b>>] = m[<<b, a>>]
Associative(m, S) == \A a, b, c \in S : m[<<m[<<a, b>>], c>>] = m[<<a, m[<<b, c>>]>>]

\* Mutants: a law forgotten.
LawsOfPairs(m, S)   == S # {} /\ Idempotent(m, S) /\ Commutative(m, S)
LawsUnordered(m, S) == S # {} /\ Idempotent(m, S) /\ Associative(m, S)

\* Nothing is certified on no samples at all.
Certifies(m, S) == S # {} /\ Idempotent(m, S) /\ Commutative(m, S) /\ Associative(m, S)

-----------------------------------------------------------------------------
\* The values there are.
Carrier == {p[1] : p \in UNION {DOMAIN m : m \in Merges}}

ASSUME ValuesAssumption == Proposal \in [Holders -> Carrier]

\* Local::new everywhere, and a law that certify accepted: the samples are the caller's.
ValuesInit ==
  /\ law \in {l \in [merge : Merges, samples : SUBSET Carrier] : Certifies(l.merge, l.samples)}
  /\ level = [h \in Holders |-> "local"]
  /\ value = Proposal
  /\ heard = [h \in Holders |-> {h}]
  /\ published = {}

\* Local::commit: a quorum lifts the proposal to the top.
CommitLocal(h) ==
  /\ level[h] = "local"
  /\ level' = [level EXCEPT ![h] = "at"]
  /\ UNCHANGED <<law, value, heard, published>>

\* At::forget_epoch, after which the value goes round.
ForgetEpoch(h) ==
  /\ level[h] = "at"
  /\ level' = [level EXCEPT ![h] = "agreed"]
  /\ published' = published \cup {[value |-> value[h], heard |-> heard[h]]}
  /\ UNCHANGED <<law, value, heard>>

\* Mutant: whoever is told keeps its own.
KeepLeft(mine, theirs) == mine

\* Diverged::reconcile, under the certified merge.
Reconciled(mine, theirs) == law.merge[<<mine, theirs>>]

(* Diverged::detect on one's own value and another's, as old as that is:    *)
(* equal values stay as they are, others are merged, and Reconciled::       *)
(* into_local makes a new proposal of the result.                           *)
Detect(h) ==
  /\ level[h] = "agreed"
  /\ \E theirs \in published :
       /\ heard' = [heard EXCEPT ![h] = @ \cup theirs.heard]
       /\ \/ theirs.value = value[h] /\ UNCHANGED <<level, value>>
          \/ /\ theirs.value # value[h]
             /\ value' = [value EXCEPT ![h] = Reconciled(@, theirs.value)]
             /\ level' = [level EXCEPT ![h] = "local"]
  /\ UNCHANGED <<law, published>>

ValuesNext == \E h \in Holders : CommitLocal(h) \/ ForgetEpoch(h) \/ Detect(h)

ValuesSpec == ValuesInit /\ [][ValuesNext]_valueVars

-----------------------------------------------------------------------------
\* The samples are closed under the merge and have every proposal among them.
Exhaustive ==
  /\ {Proposal[h] : h \in Holders} \subseteq law.samples
  /\ \A a, b \in law.samples : law.merge[<<a, b>>] \in law.samples

\* certify (reconcile.rs:221-259) is sampled evidence, and what it samples is enough: if
\* the samples take in all that the nodes can come to hold, those that have merged the
\* same proposals, in whatever order, however grouped and repeated, hold one value.
CertifiedMergesConverge ==
  Exhaustive => \A g, h \in Holders : heard[g] = heard[h] => value[g] = value[h]
=============================================================================
