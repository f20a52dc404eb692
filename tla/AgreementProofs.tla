-------------------------- MODULE AgreementProofs ---------------------------
(* No transaction is torn, for every set of shards and with either tally,    *)
(* and the protocol implements the abstract decision.                       *)
(*                                                                         *)
(* NoTornCommit is not inductive: that a shard which voted cannot have       *)
(* aborted by the time the votes are counted is a fact about the time       *)
(* before the decision.  IInv adds what a vote says of its sender           *)
(* (Standing) and how things stand until a decision is minted (Undecided).  *)
(*                                                                         *)
(* After it come the other modules about what several parties agree on:    *)
(* Values, Sagas, Retention, Replicas and Tokens.                          *)
EXTENDS AtomicCommit, Values, Sagas, Retention, Replicas, Tokens, FoundationProofs

\* Exactly the shards that never voted may still choose; whoever is past
\* prepare(true) has voted.
Standing ==
  \A s \in Shards :
    /\ state[s] = "working" => s \notin voted
    /\ state[s] \in {"prepared", "committed"} => s \in voted

\* Before there is a decision nobody has been told one, and all who voted wait.
Undecided ==
  outcome = "none" => told = {} /\ \A s \in voted : state[s] = "prepared"

IInv == TypeOK /\ Standing /\ Undecided /\ NoTornCommit

-----------------------------------------------------------------------------
\* Not by itself: a vote is not counted before it is sent because of Standing.
LEMMA TypeNext == TypeOK /\ Standing /\ [Next]_vars => TypeOK'
<1> SUFFICES ASSUME TypeOK, Standing, [Next]_vars PROVE TypeOK'
  OBVIOUS
<1> USE DEF TypeOK, Final
<1>1. ASSUME NEW s \in Shards, VoteYes(s) PROVE TypeOK'
  <2>1. /\ state' = [state EXCEPT ![s] = "prepared"]
        /\ voted' = voted \cup {s} /\ votes' = votes \cup {s}
        /\ UNCHANGED <<tally, recorded, outcome, told, alive>>
        /\ s \notin voted
    BY <1>1 DEF VoteYes, Emitted, Standing
  <2>2. /\ state' \in [Shards -> {"working", "prepared"} \cup Final]
        /\ voted' \in SUBSET Shards /\ votes' \in SUBSET voted'
    BY <2>1
  <2>3. recorded' \in SUBSET (voted' \ votes')
    BY <2>1
  <2> QED
    BY <2>1, <2>2, <2>3
<1>2. ASSUME NEW s \in Shards, VoteNo(s) PROVE TypeOK'
  BY <1>2 DEF VoteNo
<1>3. ASSUME NEW s \in Shards, Record(s) PROVE TypeOK'
  <2>1. /\ s \in votes /\ votes' = votes \ {s} /\ recorded' = recorded \cup {s}
        /\ UNCHANGED <<tally, state, voted, outcome, told, alive>>
    BY <1>3 DEF Record, Taken
  <2>2. votes' \in SUBSET voted /\ recorded' \in SUBSET (voted \ votes')
    BY <2>1
  <2> QED
    BY <2>1, <2>2
<1>4. ASSUME NEW s \in Shards, Tell(s) PROVE TypeOK'
  BY <1>4 DEF Tell
<1>5. ASSUME NEW s \in Shards, Decide(s) PROVE TypeOK'
  BY <1>5 DEF Decide, Verdict
<1>6. CASE Discard
  BY <1>6 DEF Discard
<1>7. CASE Resolve
  BY <1>7 DEF Resolve
<1>8. CASE Crash
  BY <1>8 DEF Crash
<1>9. CASE UNCHANGED vars
  BY <1>9 DEF vars
<1> QED
  BY <1>1, <1>2, <1>3, <1>4, <1>5, <1>6, <1>7, <1>8, <1>9 DEF Next

LEMMA InvInit == Init => IInv
  BY DEF Init, IInv, TypeOK, Standing, Undecided, NoTornCommit, Final

\* VoteYes: of the four parts of IInv, the step that adds a voter.
LEMMA VoteYesInv ==
  ASSUME IInv, NEW s \in Shards, VoteYes(s)
  PROVE  Standing' /\ Undecided' /\ NoTornCommit'
<1>1. /\ state[s] = "working" /\ s \notin voted
      /\ state' = [state EXCEPT ![s] = "prepared"] /\ voted' = voted \cup {s}
      /\ outcome' = outcome /\ told' = told
  BY DEF VoteYes, IInv, Standing
<1> QED
  BY <1>1, CommitAssumption DEF IInv, TypeOK, Standing, Undecided, NoTornCommit

\* VoteNo: a shard that may still choose has not voted, so no commit counts on it.
LEMMA VoteNoInv ==
  ASSUME IInv, NEW s \in Shards, VoteNo(s)
  PROVE  Standing' /\ Undecided' /\ NoTornCommit'
<1>1. /\ state[s] = "working" /\ s \notin voted
      /\ state' = [state EXCEPT ![s] = "aborted"] /\ voted' = voted
      /\ outcome' = outcome /\ told' = told
  BY DEF VoteNo, IInv, Standing
<1> QED
  BY <1>1, CommitAssumption DEF IInv, TypeOK, Standing, Undecided, NoTornCommit

\* Resolve: a commit is minted only when all declared shards are recorded, and each
\* of them is still in doubt.
LEMMA ResolveInv ==
  ASSUME IInv, Resolve
  PROVE  Standing' /\ Undecided' /\ NoTornCommit'
<1>1. /\ outcome = "none" /\ outcome' \in {"commit", "abort"}
      /\ state' = state /\ voted' = voted
  BY DEF Resolve
<1>2. \A s \in Shards : state[s] # "committed"
  BY <1>1 DEF IInv, NoTornCommit
<1>3. outcome' = "commit" => Declared \subseteq voted
  <2>1. outcome' = "commit" => Complete
    BY DEF Resolve, Commits
  <2> QED
    BY <2>1 DEF Complete, IInv, TypeOK
<1>4. \A s \in voted : state[s] = "prepared"
  BY <1>1 DEF IInv, Undecided
<1> QED
  BY <1>1, <1>2, <1>3, <1>4 DEF IInv, Standing, Undecided, NoTornCommit

\* What a decision does to the shard it reaches.
LEMMA DecideEffect ==
  ASSUME IInv, NEW s \in Shards, Decide(s)
  PROVE  /\ state[s] = "prepared" /\ s \in voted
         /\ state' = [state EXCEPT ![s] = state'[s]]
         /\ \/ state'[s] = "committed" /\ outcome = "commit"
            \/ state'[s] = "aborted" /\ (s \in Declared => outcome = "abort")
         /\ outcome # "none"
  BY DEF Decide, Verdict, IInv, TypeOK, Standing, Undecided

LEMMA DecideInv ==
  ASSUME IInv, NEW s \in Shards, Decide(s)
  PROVE  Standing' /\ Undecided' /\ NoTornCommit'
<1>1. outcome' = outcome /\ voted' = voted /\ told' = told
  BY DEF Decide
<1>2. \A r \in Shards \ {s} : state'[r] = state[r]
  BY DEF Decide, IInv, TypeOK
<1>3. Standing'
  BY <1>1, <1>2, DecideEffect DEF IInv, Standing
<1>4. Undecided'
  BY <1>1, DecideEffect DEF Undecided
<1>5. NoTornCommit'
  BY <1>1, <1>2, DecideEffect, CommitAssumption DEF IInv, NoTornCommit
<1> QED
  BY <1>3, <1>4, <1>5

LEMMA InvNext == IInv /\ [Next]_vars => IInv'
<1> SUFFICES ASSUME IInv, [Next]_vars PROVE Standing' /\ Undecided' /\ NoTornCommit'
  BY TypeNext DEF IInv
<1>1. ASSUME NEW s \in Shards, Record(s) PROVE UNCHANGED <<state, voted, outcome, told>>
  BY <1>1 DEF Record
<1>2. CASE UNCHANGED <<state, voted, outcome, told>>
  BY <1>2 DEF IInv, Standing, Undecided, NoTornCommit
<1>3. ASSUME NEW s \in Shards, Tell(s)
      PROVE  UNCHANGED <<state, voted, outcome>> /\ outcome # "none"
  BY <1>3 DEF Tell
<1>4. CASE UNCHANGED <<state, voted, outcome>> /\ outcome # "none"
  BY <1>4 DEF IInv, Standing, Undecided, NoTornCommit
<1>5. CASE Discard \/ Crash \/ UNCHANGED vars
  BY <1>2, <1>5 DEF Discard, Crash, vars
<1> QED
  BY <1>1, <1>2, <1>3, <1>4, <1>5, VoteYesInv, VoteNoInv, ResolveInv, DecideInv DEF Next

LEMMA Inductive == Spec => []IInv
  BY InvInit, InvNext, PTL DEF Spec

-----------------------------------------------------------------------------
\* Type correctness of the commit protocol.
THEOREM TypeCorrect == Spec => []TypeOK
<1>1. IInv => TypeOK
  BY DEF IInv
<1> QED
  BY <1>1, Inductive, PTL

\* resolve (twophase.rs:271-277) and seal (cross_shard.rs:209-218): no commit is ever
\* decided over a shard that has aborted or will, and none is applied undecided.
THEOREM CommitIsWhole == Spec => []NoTornCommit
<1>1. IInv => NoTornCommit
  BY DEF IInv
<1> QED
  BY <1>1, Inductive, PTL

\* The abstract variables, as the instance U sees them.
consentOf == voted \cap Declared
fateOf    == [s \in Declared |-> Fate(s)]

\* A step that leaves a declared shard's fate and vote alone is a stutter above.
LEMMA FateFrame ==
  ASSUME NEW s \in Shards \ Declared, TypeOK,
         \A r \in Shards \ {s} : state'[r] = state[r]
  PROVE  fateOf' = fateOf
  BY CommitAssumption DEF fateOf, Fate

\* A step that settles a declared shard settles it above.
LEMMA FateSettled ==
  ASSUME NEW s \in Declared, TypeOK, state[s] \notin Final, state'[s] \in Final,
         \A r \in Shards \ {s} : state'[r] = state[r]
  PROVE  fateOf[s] = "open" /\ fateOf' = [fateOf EXCEPT ![s] = state'[s]]
<1>1. fateOf[s] = "open" /\ Fate(s)' = state'[s]
  BY DEF fateOf, Fate
<1>2. \A r \in Declared \ {s} : Fate(r)' = Fate(r)
  BY CommitAssumption DEF Fate
<1>3. fateOf' = [r \in Declared |-> IF r = s THEN state'[s] ELSE fateOf[r]]
  BY <1>1, <1>2 DEF fateOf
<1> QED
  BY <1>1, <1>3 DEF fateOf

\* fateOf tells who has committed and who has aborted.
LEMMA FateMeans ==
  ASSUME NEW s \in Declared
  PROVE  /\ fateOf[s] = "committed" <=> state[s] = "committed"
         /\ fateOf[s] = "aborted" <=> state[s] = "aborted"
  BY DEF fateOf, Fate, Final

LEMMA InitSimulates == Init => U!Init
  BY CommitAssumption DEF Init, U!Init, Fate, Final

LEMMA StepSimulates ==
  ASSUME IInv, [Next]_vars
  PROVE  [U!Next]_<<consentOf, fateOf>>
<1>1. CASE UNCHANGED <<state, voted>>
  BY <1>1 DEF consentOf, fateOf, Fate
<1>2. ASSUME NEW s \in Shards, VoteYes(s) PROVE [U!Next]_<<consentOf, fateOf>>
  <2>1. /\ state[s] = "working" /\ voted' = voted \cup {s}
        /\ state' = [state EXCEPT ![s] = "prepared"]
    BY <1>2 DEF VoteYes
  <2>2. \A r \in Shards : (state'[r] \in Final <=> state[r] \in Final)
                          /\ (state[r] \in Final => state'[r] = state[r])
    BY <2>1 DEF IInv, TypeOK, Final
  <2>3. fateOf' = fateOf
    BY <2>2, CommitAssumption DEF fateOf, Fate
  <2>4. CASE s \in Declared
    <3>1. consentOf' = consentOf \cup {s} /\ fateOf[s] = "open"
      BY <2>1, <2>4 DEF consentOf, fateOf, Fate, Final
    <3> QED
      BY <2>3, <2>4, <3>1 DEF U!Next, U!Consent, U!Open, consentOf, fateOf
  <2>5. CASE s \notin Declared
    BY <2>1, <2>3, <2>5 DEF consentOf
  <2> QED
    BY <2>4, <2>5
<1>3. ASSUME NEW s \in Shards, UNCHANGED voted, state[s] \notin Final,
             \A r \in Shards \ {s} : state'[r] = state[r],
             \/ state'[s] = "committed" /\ outcome = "commit"
             \/ state'[s] = "aborted" /\ (s \in Declared => outcome # "commit")
      PROVE  [U!Next]_<<consentOf, fateOf>>
  <2>0. consentOf' = consentOf
    BY <1>3 DEF consentOf
  <2>1. CASE s \notin Declared
    BY <1>3, <2>0, <2>1, FateFrame DEF IInv
  <2>2. CASE s \in Declared /\ state'[s] = "committed" /\ outcome = "commit"
    <3>1. consentOf = Declared /\ \A q \in Declared : fateOf[q] # "aborted"
      BY <2>2, FateMeans DEF IInv, NoTornCommit, consentOf
    <3>2. fateOf[s] = "open" /\ fateOf' = [fateOf EXCEPT ![s] = "committed"]
      BY <1>3, <2>2, FateSettled DEF IInv, Final
    <3> QED
      BY <2>0, <2>2, <3>1, <3>2 DEF U!Next, U!Commit, U!Open, consentOf, fateOf
  <2>3. CASE s \in Declared /\ state'[s] = "aborted" /\ outcome # "commit"
    <3>1. \A q \in Declared : fateOf[q] # "committed"
      BY <2>3, FateMeans, CommitAssumption DEF IInv, NoTornCommit
    <3>2. fateOf[s] = "open" /\ fateOf' = [fateOf EXCEPT ![s] = "aborted"]
      BY <1>3, <2>3, FateSettled DEF IInv, Final
    <3> QED
      BY <2>0, <2>3, <3>1, <3>2 DEF U!Next, U!Abort, U!Open, consentOf, fateOf
  <2> QED
    BY <1>3, <2>1, <2>2, <2>3
<1>4. ASSUME NEW s \in Shards, VoteNo(s) PROVE [U!Next]_<<consentOf, fateOf>>
  <2>1. /\ state[s] = "working" /\ s \notin voted /\ voted' = voted
        /\ state' = [state EXCEPT ![s] = "aborted"]
    BY <1>4 DEF VoteNo, IInv, Standing
  <2>2. s \in Declared => outcome # "commit"
    BY <2>1 DEF IInv, NoTornCommit
  <2> QED
    BY <1>3, <2>1, <2>2 DEF IInv, TypeOK, Final
<1>5. ASSUME NEW s \in Shards, Decide(s) PROVE [U!Next]_<<consentOf, fateOf>>
  <2>1. /\ state[s] = "prepared" /\ voted' = voted
    BY <1>5 DEF Decide
  <2>2. \A r \in Shards \ {s} : state'[r] = state[r]
    BY <1>5 DEF Decide, IInv, TypeOK
  <2>3. \/ state'[s] = "committed" /\ outcome = "commit"
        \/ state'[s] = "aborted" /\ (s \in Declared => outcome # "commit")
    BY <1>5, DecideEffect
  <2> QED
    BY <1>3, <2>1, <2>2, <2>3 DEF Final
<1>6. ASSUME NEW s \in Shards, Record(s) \/ Tell(s) PROVE UNCHANGED <<state, voted>>
  BY <1>6 DEF Record, Tell
<1>7. CASE Discard \/ Resolve \/ Crash \/ UNCHANGED vars
  BY <1>1, <1>7 DEF Discard, Resolve, Crash, vars
<1> QED
  BY <1>1, <1>2, <1>4, <1>5, <1>6, <1>7 DEF Next

\* Each step of the protocol is a step of the abstract decision, or none: with either
\* tally one outcome is applied, and a commit has everybody's consent.
THEOREM ImplementsUnanimity == Spec => CommitIsUnanimous
<1>1. IInv /\ [Next]_vars => [U!Next]_<<voted \cap Declared, [s \in Declared |-> Fate(s)]>>
  BY StepSimulates DEF consentOf, fateOf
<1> QED
  BY <1>1, InitSimulates, Inductive, PTL DEF Spec, CommitIsUnanimous, U!Spec

-----------------------------------------------------------------------------
(* Values that are reconciled.  The merge that certify lets through is a    *)
(* semilattice on the samples: ValuesInv says that what a node holds is the *)
(* least sample that has absorbed the proposals it has heard of, and two    *)
(* least ones are equal.                                                    *)

\* The order of the merge: what a adds to b is in b already.
Absorbed(a, b) == Reconciled(a, b) = b

\* v is, among the samples, the least that has absorbed the proposals of H.
MergeOf(v, H) ==
  /\ v \in law.samples
  /\ \A g \in H : Absorbed(Proposal[g], v)
  /\ \A u \in law.samples : (\A g \in H : Absorbed(Proposal[g], u)) => Absorbed(v, u)

ValuesTypeOK ==
  /\ DOMAIN level = Holders /\ value = [h \in Holders |-> value[h]]
  /\ heard \in [Holders -> SUBSET Holders]
  /\ \A r \in published : r.heard \subseteq Holders

MergesAreLeast ==
  Exhaustive =>
    /\ \A h \in Holders : MergeOf(value[h], heard[h])
    /\ \A r \in published : MergeOf(r.value, r.heard)

ValuesInv == Certifies(law.merge, law.samples) /\ ValuesTypeOK /\ MergesAreLeast

\* What certify has established of the merge on the samples.
LEMMA MergeLaws ==
  ASSUME Certifies(law.merge, law.samples)
  PROVE  /\ \A a \in law.samples : Reconciled(a, a) = a
         /\ \A a, b \in law.samples : Reconciled(a, b) = Reconciled(b, a)
         /\ \A a, b, c \in law.samples :
              Reconciled(Reconciled(a, b), c) = Reconciled(a, Reconciled(b, c))
<1>1. \A a \in law.samples : Reconciled(a, a) = a
  BY DEF Certifies, Idempotent, Reconciled
<1>2. \A a, b \in law.samples : Reconciled(a, b) = Reconciled(b, a)
  BY DEF Certifies, Commutative, Reconciled
<1>3. \A a, b, c \in law.samples :
        Reconciled(Reconciled(a, b), c) = Reconciled(a, Reconciled(b, c))
  BY DEF Certifies, Associative, Reconciled
<1> QED
  BY <1>1, <1>2, <1>3

\* Two that have absorbed the same proposals are one, because the merge commutes.
LEMMA MergeIsUnique ==
  ASSUME Certifies(law.merge, law.samples), NEW H, NEW v, NEW w, MergeOf(v, H), MergeOf(w, H)
  PROVE  v = w
<1>1. v \in law.samples /\ w \in law.samples
  BY DEF MergeOf
<1>2. Reconciled(v, w) = w /\ Reconciled(w, v) = v
  BY DEF MergeOf, Absorbed
<1> QED
  BY <1>1, <1>2, MergeLaws

LEMMA MergeOfOne ==
  ASSUME Certifies(law.merge, law.samples), Exhaustive, NEW h \in Holders
  PROVE  MergeOf(Proposal[h], {h})
<1>1. Proposal[h] \in law.samples
  BY DEF Exhaustive
<1> QED
  BY <1>1, MergeLaws DEF MergeOf, Absorbed

\* A merge has absorbed what both sides had, and nothing else.
LEMMA MergeOfBoth ==
  ASSUME Certifies(law.merge, law.samples), Exhaustive,
         NEW G \in SUBSET Holders, NEW H \in SUBSET Holders,
         NEW v, NEW w, MergeOf(v, G), MergeOf(w, H)
  PROVE  MergeOf(Reconciled(v, w), G \cup H)
<1> DEFINE S == law.samples
           z == Reconciled(v, w)
<1>1. v \in S /\ w \in S /\ z \in S
  <2>1. v \in S /\ w \in S
    BY DEF MergeOf
  <2> QED
    BY <2>1 DEF Exhaustive, Reconciled
<1>2. \A g \in Holders : Proposal[g] \in S
  BY DEF Exhaustive
<1>3. ASSUME NEW g \in G PROVE Absorbed(Proposal[g], z)
  <2>1. Reconciled(Proposal[g], v) = v
    BY <1>3 DEF MergeOf, Absorbed
  <2>2. Proposal[g] \in S
    BY <1>2
  <2> QED
    BY <1>1, <2>1, <2>2, MergeLaws DEF Absorbed
<1>4. ASSUME NEW g \in H PROVE Absorbed(Proposal[g], z)
  <2>1. Reconciled(Proposal[g], w) = w
    BY <1>4 DEF MergeOf, Absorbed
  <2>2. Proposal[g] \in S
    BY <1>2
  <2>3. z = Reconciled(w, v)
    BY <1>1, MergeLaws
  <2> QED
    BY <1>1, <2>1, <2>2, <2>3, MergeLaws DEF Absorbed
<1>5. ASSUME NEW u \in S, \A g \in G \cup H : Absorbed(Proposal[g], u) PROVE Absorbed(z, u)
  <2>1. Reconciled(v, u) = u /\ Reconciled(w, u) = u
    BY <1>5 DEF MergeOf, Absorbed
  <2> QED
    BY <1>1, <2>1, MergeLaws DEF Absorbed
<1> QED
  BY <1>1, <1>3, <1>4, <1>5 DEF MergeOf

LEMMA ValuesInitInv == ValuesInit => ValuesInv
<1> SUFFICES ASSUME ValuesInit PROVE ValuesInv
  OBVIOUS
<1>1. Certifies(law.merge, law.samples)
  BY DEF ValuesInit
<1>2. ValuesTypeOK
  BY ValuesAssumption DEF ValuesInit, ValuesTypeOK
<1>3. MergesAreLeast
  BY <1>1, MergeOfOne DEF ValuesInit, MergesAreLeast
<1> QED
  BY <1>1, <1>2, <1>3 DEF ValuesInv

LEMMA ValuesNextInv == ValuesInv /\ [ValuesNext]_valueVars => ValuesInv'
<1> SUFFICES ASSUME ValuesInv, [ValuesNext]_valueVars PROVE ValuesInv'
  OBVIOUS
<1> USE DEF ValuesInv
<1>0. law' = law
  BY DEF ValuesNext, CommitLocal, ForgetEpoch, Detect, valueVars
<1>a. /\ Certifies(law.merge, law.samples)'
      /\ Exhaustive' <=> Exhaustive
      /\ \A v, H : MergeOf(v, H)' <=> MergeOf(v, H)
  <2>1. Certifies(law.merge, law.samples)'
    <3>1. Certifies(law.merge, law.samples)
      OBVIOUS
    <3>2. law.merge' = law.merge /\ law.samples' = law.samples
      BY <1>0
    <3> QED
      BY <3>1, <3>2
  <2>3. Exhaustive' <=> Exhaustive
    BY <1>0 DEF Exhaustive
  <2>2. ASSUME NEW v, NEW H PROVE MergeOf(v, H)' <=> MergeOf(v, H)
    <3>1. ASSUME NEW a, NEW b PROVE Absorbed(a, b)' <=> Absorbed(a, b)
      BY <1>0 DEF Absorbed, Reconciled
    <3>2. law.samples' = law.samples
      BY <1>0
    <3> QED
      BY <3>1, <3>2 DEF MergeOf
  <2> QED
    BY <2>1, <2>2, <2>3
<1>1. ASSUME NEW h \in Holders, CommitLocal(h) PROVE ValuesInv'
  BY <1>0, <1>a, <1>1 DEF CommitLocal, ValuesTypeOK, MergesAreLeast
<1>2. ASSUME NEW h \in Holders, ForgetEpoch(h) PROVE ValuesInv'
  BY <1>0, <1>a, <1>2 DEF ForgetEpoch, ValuesTypeOK, MergesAreLeast
<1>3. ASSUME NEW h \in Holders, Detect(h) PROVE ValuesInv'
  <2>1. PICK theirs \in published :
          /\ heard' = [heard EXCEPT ![h] = @ \cup theirs.heard]
          /\ \/ theirs.value = value[h] /\ UNCHANGED <<level, value>>
             \/ /\ value' = [value EXCEPT ![h] = Reconciled(@, theirs.value)]
                /\ level' = [level EXCEPT ![h] = "local"]
    BY <1>3 DEF Detect
  <2>2. published' = published
    BY <1>3 DEF Detect
  <2>3. ValuesTypeOK'
    BY <2>1, <2>2 DEF ValuesTypeOK
  <2>4. MergesAreLeast'
    <3> SUFFICES ASSUME Exhaustive
                 PROVE  /\ \A k \in Holders : MergeOf(value'[k], heard'[k])
                        /\ \A r \in published' : MergeOf(r.value, r.heard)
      BY <1>a DEF MergesAreLeast
    <3>1. /\ \A k \in Holders : MergeOf(value[k], heard[k])
          /\ MergeOf(theirs.value, theirs.heard)
      BY DEF MergesAreLeast
    <3>2. heard[h] \subseteq Holders /\ theirs.heard \subseteq Holders
      BY DEF ValuesTypeOK
    <3>3. MergeOf(Reconciled(value[h], theirs.value), heard[h] \cup theirs.heard)
      BY <3>1, <3>2, MergeOfBoth
    <3>4. theirs.value = value[h] => MergeOf(value[h], heard[h] \cup theirs.heard)
      BY <3>1, <3>3, MergeLaws DEF MergeOf
    <3>5. heard'[h] = heard[h] \cup theirs.heard /\ \A k \in Holders \ {h} : heard'[k] = heard[k]
      BY <2>1 DEF ValuesTypeOK
    <3>6. /\ \A k \in Holders \ {h} : value'[k] = value[k]
          /\ \/ theirs.value = value[h] /\ value'[h] = value[h]
             \/ value'[h] = Reconciled(value[h], theirs.value)
      BY <2>1 DEF ValuesTypeOK
    <3>7. MergeOf(value'[h], heard'[h])
      BY <3>3, <3>4, <3>5, <3>6
    <3> QED
      BY <2>2, <3>1, <3>5, <3>6, <3>7 DEF MergesAreLeast
  <2> QED
    BY <1>a, <2>3, <2>4
<1>4. CASE UNCHANGED valueVars
  BY <1>0, <1>a, <1>4 DEF valueVars, ValuesTypeOK, MergesAreLeast
<1> QED
  BY <1>1, <1>2, <1>3, <1>4 DEF ValuesNext

\* certify (reconcile.rs:221-259): for any nodes, proposals, samples and merge function,
\* certification on samples that take in all the nodes can hold makes nodes that have
\* merged the same proposals hold one value, in whatever order and grouping.
THEOREM CertifiedMergesAgree == ValuesSpec => []CertifiedMergesConverge
<1>1. ASSUME ValuesInv PROVE CertifiedMergesConverge
  BY <1>1, MergeIsUnique DEF ValuesInv, MergesAreLeast, CertifiedMergesConverge
<1>2. ValuesSpec => []ValuesInv
  BY ValuesInitInv, ValuesNextInv, PTL DEF ValuesSpec
<1> QED
  BY <1>1, <1>2, PTL

-----------------------------------------------------------------------------
(* Sagas and the budget.  SagaInv says what the type of its token says of   *)
(* each saga (PhaseHolds) and that the sums over accounts and sagas add up  *)
(* (Budget); a step changes one account and one saga, and so each sum by    *)
(* what it changes there.                                                   *)

\* Units, of a sequence of reservations.
UnitsOf(took) == [i \in DOMAIN took |-> took[i].units]

LEMMA UnitsSum ==
  ASSUME NEW took \in Seq(Steps)
  PROVE  /\ Units(took) = SumOver(UnitsOf(took), 1 .. Len(took))
         /\ IsFiniteSet(1 .. Len(took)) /\ Len(took) \in Nat
         /\ \A i \in 1 .. Len(took) :
              took[i] \in Steps /\ UnitsOf(took)[i] = took[i].units /\ took[i].units \in Nat
         /\ Units(took) \in Nat
<1>1. Len(took) \in Nat /\ DOMAIN took = 1 .. Len(took) /\ \A i \in 1 .. Len(took) : took[i] \in Steps
  BY LenProperties, ElementOfSeq
<1>2. Units(took) = SumOver(UnitsOf(took), 1 .. Len(took))
  BY <1>1, SumFunctionIsSum DEF Units, UnitsOf
<1>3. IsFiniteSet(1 .. Len(took))
  BY <1>1, FS_Interval
<1>4. \A i \in 1 .. Len(took) : UnitsOf(took)[i] = took[i].units /\ took[i].units \in Nat
  BY <1>1 DEF UnitsOf, Steps
<1>5. Units(took) \in Nat
  BY <1>2, <1>3, <1>4, SumNatural
<1> QED
  BY <1>1, <1>2, <1>3, <1>4, <1>5

LEMMA UnitsEmpty == Units(<<>>) = 0
<1>1. <<>> \in Seq(Steps) /\ Len(<<>>) = 0
  OBVIOUS
<1>2. 1 .. 0 = {}
  OBVIOUS
<1> QED
  BY <1>1, <1>2, UnitsSum, SumEmpty

LEMMA UnitsAppend ==
  ASSUME NEW took \in Seq(Steps), NEW r \in Steps
  PROVE  /\ Append(took, r) \in Seq(Steps)
         /\ Units(Append(took, r)) = Units(took) + r.units
<1> DEFINE longer == Append(took, r)
           n == Len(took)
<1>1. /\ longer \in Seq(Steps) /\ Len(longer) = n + 1
      /\ \A i \in 1 .. n : longer[i] = took[i]
      /\ longer[n + 1] = r
  BY AppendProperties
<1>2. /\ n \in Nat /\ IsFiniteSet(1 .. n) /\ r.units \in Nat
      /\ Units(took) = SumOver(UnitsOf(took), 1 .. n)
      /\ \A i \in 1 .. n : UnitsOf(took)[i] = took[i].units /\ took[i].units \in Nat
  BY UnitsSum DEF Steps
<1>3. /\ Units(longer) = SumOver(UnitsOf(longer), 1 .. n + 1)
      /\ \A i \in 1 .. n + 1 : UnitsOf(longer)[i] = longer[i].units /\ longer[i].units \in Nat
  BY <1>1, UnitsSum
<1>4. 1 .. n + 1 = (1 .. n) \cup {n + 1} /\ n + 1 \notin 1 .. n
  BY <1>2
<1> HIDE DEF longer, n
<1>5. SumOver(UnitsOf(longer), 1 .. n + 1)
        = UnitsOf(longer)[n + 1] + SumOver(UnitsOf(longer), 1 .. n)
  <2> DEFINE S == 1 .. n
             u == UnitsOf(longer)
  <2>1. IsFiniteSet(S) /\ n + 1 \notin S /\ \A i \in S \cup {n + 1} : u[i] \in Int
    BY <1>2, <1>3, <1>4
  <2> HIDE DEF S, u
  <2>2. SumOver(u, S \cup {n + 1}) = u[n + 1] + SumOver(u, S)
    BY <2>1, SumAdd
  <2> QED
    BY <1>4, <2>2 DEF S, u
<1>6. SumOver(UnitsOf(longer), 1 .. n) = SumOver(UnitsOf(took), 1 .. n)
  <2>1. \A i \in 1 .. n : UnitsOf(took)[i] \in Int /\ UnitsOf(took)[i] = UnitsOf(longer)[i]
    BY <1>1, <1>2, <1>3, <1>4
  <2> QED
    BY <1>2, <2>1, SumSame
<1>7. UnitsOf(longer)[n + 1] = r.units
  BY <1>1, <1>2, <1>3, <1>4
<1>8. Units(took) \in Nat
  BY UnitsSum
<1>9. Units(longer) = Units(took) + r.units
  BY <1>2, <1>3, <1>5, <1>6, <1>7, <1>8
<1> QED
  BY <1>1, <1>9 DEF longer

\* The latest reservation and those below it.
LEMMA FrontAndLast ==
  ASSUME NEW took \in Seq(Steps), took # <<>>
  PROVE  /\ Front(took) \in Seq(Steps) /\ Last(took) \in Steps
         /\ Len(took) \in Nat \ {0} /\ Len(Front(took)) = Len(took) - 1
         /\ \A i \in 1 .. Len(took) - 1 : Front(took)[i] = took[i]
         /\ Last(took) = took[Len(took)]
         /\ Units(took) = Units(Front(took)) + Last(took).units
<1>1. Len(took) \in Nat \ {0}
  BY EmptySeq
<1>2. \A i \in 1 .. Len(took) : took[i] \in Steps
  BY ElementOfSeq
<1>3. /\ Front(took) \in Seq(Steps) /\ Len(Front(took)) = Len(took) - 1
      /\ \A i \in 1 .. Len(took) - 1 : Front(took)[i] = took[i]
  <2> DEFINE k == Len(took) - 1
  <2>1. k \in Nat /\ 1 \in Int /\ k \in Int /\ \A i \in 1 .. k : took[i] \in Steps
    BY <1>1, <1>2
  <2>2. Front(took) = SubSeq(took, 1, k)
    BY DEF Front
  <2> HIDE DEF k
  <2>3. /\ SubSeq(took, 1, k) \in Seq(Steps)
        /\ Len(SubSeq(took, 1, k)) = IF 1 <= k THEN k - 1 + 1 ELSE 0
        /\ \A i \in 1 .. k - 1 + 1 : SubSeq(took, 1, k)[i] = took[1 + i - 1]
    BY <2>1, SubSeqProperties
  <2>4. k - 1 + 1 = k /\ (~ (1 <= k) => k = 0) /\ \A i \in 1 .. k : 1 + i - 1 = i
    BY <2>1
  <2>5. Len(SubSeq(took, 1, k)) = k /\ \A i \in 1 .. k : SubSeq(took, 1, k)[i] = took[i]
    BY <2>3, <2>4
  <2> QED
    BY <2>2, <2>3, <2>5 DEF k
<1>4. Last(took) \in Steps /\ Last(took) = took[Len(took)]
  BY <1>1, <1>2 DEF Last
<1>5. took = Append(Front(took), Last(took))
  <2> DEFINE again == Append(Front(took), Last(took))
  <2>1. /\ again \in Seq(Steps) /\ Len(again) = Len(Front(took)) + 1
        /\ \A i \in 1 .. Len(Front(took)) : again[i] = Front(took)[i]
        /\ again[Len(Front(took)) + 1] = Last(took)
    BY <1>3, <1>4, AppendProperties
  <2> HIDE DEF again
  <2>2. Len(again) = Len(took)
    BY <1>1, <1>3, <2>1
  <2>3. ASSUME NEW i \in 1 .. Len(took) PROVE again[i] = took[i]
    <3>1. CASE i = Len(took)
      BY <1>1, <1>3, <1>4, <2>1, <3>1
    <3>2. CASE i \in 1 .. Len(took) - 1
      BY <1>1, <1>3, <2>1, <3>2
    <3> QED
      BY <1>1, <3>1, <3>2
  <2>4. again = took
    BY <2>1, <2>2, <2>3, SeqEqual
  <2> QED
    BY <2>4 DEF again
<1>6. Units(took) = Units(Front(took)) + Last(took).units
  BY <1>3, <1>4, <1>5, UnitsAppend
<1> QED
  BY <1>1, <1>3, <1>4, <1>6

LEMMA UnitsSpent ==
  ASSUME NEW took \in Seq(Steps), took # <<>>, NEW amount \in Nat, amount <= Last(took).units
  PROVE  Reduced(took, amount) \in Seq(Steps) /\ Units(Reduced(took, amount)) = Units(took) - amount
<1> DEFINE n == Len(took)
           left == Last(took).units - amount
           r == [account |-> Last(took).account, units |-> left]
           rest == [took EXCEPT ![n] = r]
<1>1. n \in Nat \ {0} /\ n \in 1 .. n /\ took[n] \in Steps /\ Last(took) = took[n]
  BY FrontAndLast
<1>2. r \in Steps /\ left \in Nat
  BY <1>1 DEF Steps
<1>3. Reduced(took, amount) = rest
  BY DEF Reduced, Kept
<1>4. /\ rest \in Seq(Steps) /\ Len(rest) = n
      /\ \A i \in 1 .. n : rest[i] = IF i = n THEN r ELSE took[i]
  BY <1>1, <1>2, ExceptSeq
<1> HIDE DEF n, rest, left
<1>5. /\ Units(took) = SumOver(UnitsOf(took), 1 .. n) /\ IsFiniteSet(1 .. n)
      /\ \A i \in 1 .. n : UnitsOf(took)[i] = took[i].units /\ took[i].units \in Nat
  BY UnitsSum DEF n
<1>6. /\ Units(rest) = SumOver(UnitsOf(rest), 1 .. n)
      /\ \A i \in 1 .. n : UnitsOf(rest)[i] = rest[i].units /\ rest[i].units \in Nat
  BY <1>4, UnitsSum
<1>7. SumOver(UnitsOf(rest), 1 .. n)
        = SumOver(UnitsOf(took), 1 .. n) + (UnitsOf(rest)[n] - UnitsOf(took)[n])
  <2>1. \A i \in 1 .. n : UnitsOf(took)[i] \in Int /\ UnitsOf(rest)[i] \in Int
    BY <1>5, <1>6
  <2>2. \A i \in (1 .. n) \ {n} : UnitsOf(rest)[i] = UnitsOf(took)[i]
    BY <1>4, <1>5, <1>6
  <2> DEFINE S == 1 .. n
             u == UnitsOf(took)
             v == UnitsOf(rest)
  <2>3. IsFiniteSet(S) /\ n \in S
    BY <1>1, <1>5 DEF n
  <2> HIDE DEF S, u, v
  <2>4. (\A i \in S : u[i] \in Int /\ v[i] \in Int) /\ (\A i \in S \ {n} : v[i] = u[i])
    BY <2>1, <2>2 DEF S, u, v
  <2>5. SumOver(v, S) = SumOver(u, S) + (v[n] - u[n])
    BY <2>3, <2>4, SumUpdate
  <2> QED
    BY <2>5 DEF S, u, v
<1>8. UnitsOf(rest)[n] = left /\ UnitsOf(took)[n] = Last(took).units /\ Last(took).units \in Nat
  BY <1>1, <1>4, <1>5, <1>6
<1>9. Units(took) \in Nat
  BY UnitsSum
<1>10. Units(rest) = Units(took) - amount
  BY <1>5, <1>6, <1>7, <1>8, <1>9 DEF left
<1> QED
  BY <1>3, <1>4, <1>10

-----------------------------------------------------------------------------
Phases == {"forward", "aborting", "committed", "compensated", "dropped"}

SagaTypeOK ==
  /\ remaining \in [Accounts -> Nat]
  /\ stack \in [SagaIds -> Seq(Steps)]
  /\ phase \in [SagaIds -> Phases]
  /\ receipts \in [SagaIds -> Nat]
  /\ forfeited \in Nat

\* What is in effect begins the plan, step by step.
Begins(took, plan) == Len(took) <= Len(plan) /\ \A i \in 1 .. Len(took) : took[i] = plan[i]

\* What the type of its token says of a saga.
PhaseHolds(g) ==
  /\ phase[g] \in {"forward", "aborting"} => Begins(stack[g], Plan[g])
  /\ phase[g] \in {"forward", "aborting", "compensated"} => receipts[g] = 0
  /\ phase[g] = "compensated" => stack[g] = <<>>
  /\ phase[g] = "committed" => receipts[g] + Units(stack[g]) = Units(Plan[g])

Budget ==
  SumOver(remaining, Accounts) + SumOver(Holdings, SagaIds) + forfeited
    = SumOver(Granted, Accounts)

SagaInv == SagaTypeOK /\ (\A g \in SagaIds : PhaseHolds(g)) /\ Budget

HoldingsOf(stk, rcp) == [g \in SagaIds |-> Units(stk[g]) + rcp[g]]

LEMMA HoldingsTyped ==
  ASSUME NEW stk \in [SagaIds -> Seq(Steps)], NEW rcp \in [SagaIds -> Nat]
  PROVE  /\ \A g \in SagaIds : /\ HoldingsOf(stk, rcp)[g] = Units(stk[g]) + rcp[g]
                               /\ Units(stk[g]) \in Nat
                               /\ HoldingsOf(stk, rcp)[g] \in Nat
         /\ SumOver(HoldingsOf(stk, rcp), SagaIds) \in Nat
<1>1. \A g \in SagaIds : /\ HoldingsOf(stk, rcp)[g] = Units(stk[g]) + rcp[g]
                         /\ Units(stk[g]) \in Nat
                         /\ HoldingsOf(stk, rcp)[g] \in Nat
  <2> SUFFICES ASSUME NEW g \in SagaIds
               PROVE  /\ HoldingsOf(stk, rcp)[g] = Units(stk[g]) + rcp[g]
                      /\ Units(stk[g]) \in Nat
                      /\ HoldingsOf(stk, rcp)[g] \in Nat
    OBVIOUS
  <2>1. stk[g] \in Seq(Steps)
    OBVIOUS
  <2>2. Units(stk[g]) \in Nat
    BY <2>1, UnitsSum
  <2> QED
    BY <2>2 DEF HoldingsOf
<1> QED
  BY <1>1, SagasAssumption, SumNatural

LEMMA SumOverSagas ==
  ASSUME NEW before, NEW after, NEW g \in SagaIds,
         \A h \in SagaIds : before[h] \in Nat /\ after[h] \in Nat,
         \A h \in SagaIds \ {g} : after[h] = before[h]
  PROVE  SumOver(after, SagaIds) = SumOver(before, SagaIds) + (after[g] - before[g])
<1>1. IsFiniteSet(SagaIds) /\ \A h \in SagaIds : before[h] \in Int /\ after[h] \in Int
  BY SagasAssumption
<1> QED
  BY <1>1, SumUpdate

\* What a step changes of one saga changes the sum over all.
LEMMA HoldingsOfOne ==
  ASSUME NEW stk \in [SagaIds -> Seq(Steps)], NEW rcp \in [SagaIds -> Nat],
         NEW stk2 \in [SagaIds -> Seq(Steps)], NEW rcp2 \in [SagaIds -> Nat],
         NEW g \in SagaIds,
         \A h \in SagaIds \ {g} : stk2[h] = stk[h] /\ rcp2[h] = rcp[h]
  PROVE  SumOver(HoldingsOf(stk2, rcp2), SagaIds)
           = SumOver(HoldingsOf(stk, rcp), SagaIds)
               + ((Units(stk2[g]) + rcp2[g]) - (Units(stk[g]) + rcp[g]))
<1> DEFINE before == HoldingsOf(stk, rcp)
           after == HoldingsOf(stk2, rcp2)
<1>1. /\ \A h \in SagaIds : before[h] = Units(stk[h]) + rcp[h] /\ before[h] \in Nat
      /\ \A h \in SagaIds : after[h] = Units(stk2[h]) + rcp2[h] /\ after[h] \in Nat
  BY HoldingsTyped
<1>2. \A h \in SagaIds \ {g} : after[h] = before[h]
  BY <1>1
<1> HIDE DEF before, after
<1>3. SumOver(after, SagaIds) = SumOver(before, SagaIds) + (after[g] - before[g])
  BY <1>1, <1>2, SumOverSagas
<1> QED
  BY <1>1, <1>3 DEF before, after

\* The accounts together, when one of them changes.
LEMMA RemainingOfOne ==
  ASSUME NEW r \in [Accounts -> Nat], NEW a \in Accounts, NEW k \in Nat
  PROVE  SumOver([r EXCEPT ![a] = k], Accounts) = SumOver(r, Accounts) + (k - r[a])
<1> DEFINE t == [r EXCEPT ![a] = k]
<1>1. /\ \A x \in Accounts : r[x] \in Int /\ t[x] \in Int
      /\ \A x \in Accounts \ {a} : t[x] = r[x]
      /\ t[a] = k
  OBVIOUS
<1> HIDE DEF t
<1>2. SumOver(t, Accounts) = SumOver(r, Accounts) + (t[a] - r[a])
  <2>1. IsFiniteSet(Accounts)
    BY SagasAssumption
  <2> QED
    BY <1>1, <2>1, SumUpdate
<1> QED
  BY <1>1, <1>2 DEF t

LEMMA SagaInitInv == SagaInit => SagaInv
<1> SUFFICES ASSUME SagaInit PROVE SagaInv
  OBVIOUS
<1>1. <<>> \in Seq(Steps) /\ Len(<<>>) = 0
  OBVIOUS
<1>2. SagaTypeOK
  BY <1>1, SagasAssumption DEF SagaInit, SagaTypeOK, Phases
<1>3. \A g \in SagaIds : PhaseHolds(g)
  <2> SUFFICES ASSUME NEW g \in SagaIds PROVE PhaseHolds(g)
    OBVIOUS
  <2>1. Plan[g] \in Seq(Steps)
    BY SagasAssumption
  <2>2. Len(Plan[g]) \in Nat
    BY <2>1, LenProperties
  <2> QED
    BY <1>1, <2>2 DEF SagaInit, PhaseHolds, Begins
<1>4. Budget
  <2>1. Holdings = [g \in SagaIds |-> 0]
    BY UnitsEmpty DEF SagaInit, Holdings
  <2>2. SumOver(Holdings, SagaIds) = 0
    <3>1. \A h \in SagaIds : Holdings[h] = 0
      BY <2>1
    <3> QED
      BY <3>1, SagasAssumption, SumZero
  <2>3. SumOver(Granted, Accounts) \in Nat
    BY SagasAssumption, SumNatural
  <2> QED
    BY <2>2, <2>3 DEF SagaInit, Budget
<1> QED
  BY <1>2, <1>3, <1>4 DEF SagaInv

\* What a step takes from one place it puts in another.
LEMMA BudgetMoves ==
  ASSUME SagaTypeOK, SagaTypeOK', Budget, NEW g \in SagaIds, NEW d \in Int,
         \A h \in SagaIds \ {g} : stack'[h] = stack[h] /\ receipts'[h] = receipts[h],
         SumOver(remaining', Accounts) = SumOver(remaining, Accounts) + d,
         Units(stack'[g]) + receipts'[g] + forfeited' + d
           = Units(stack[g]) + receipts[g] + forfeited
  PROVE  Budget'
<1>1. /\ Holdings = HoldingsOf(stack, receipts) /\ Holdings' = HoldingsOf(stack', receipts')
      /\ stack \in [SagaIds -> Seq(Steps)] /\ receipts \in [SagaIds -> Nat]
      /\ stack' \in [SagaIds -> Seq(Steps)] /\ receipts' \in [SagaIds -> Nat]
  BY DEF Holdings, HoldingsOf, SagaTypeOK
<1>2. SumOver(Holdings', SagaIds)
        = SumOver(Holdings, SagaIds)
            + ((Units(stack'[g]) + receipts'[g]) - (Units(stack[g]) + receipts[g]))
  BY <1>1, HoldingsOfOne
<1>3. /\ Units(stack[g]) \in Nat /\ SumOver(Holdings, SagaIds) \in Nat
      /\ Units(stack'[g]) \in Nat
      /\ SumOver(remaining, Accounts) \in Nat /\ SumOver(Granted, Accounts) \in Nat
      /\ receipts[g] \in Nat /\ receipts'[g] \in Nat
      /\ forfeited \in Nat /\ forfeited' \in Nat
  BY <1>1, HoldingsTyped, SagasAssumption, SumNatural DEF SagaTypeOK
<1>4. SumOver(remaining, Accounts) + SumOver(Holdings, SagaIds) + forfeited
        = SumOver(Granted, Accounts)
  BY DEF Budget
<1> DEFINE u == Units(stack[g])
           v == Units(stack'[g])
           H == SumOver(Holdings, SagaIds)
           K == SumOver(Holdings', SagaIds)
           R == SumOver(remaining, Accounts)
           Q == SumOver(remaining', Accounts)
<1>5. K = H + ((v + receipts'[g]) - (u + receipts[g])) /\ Q = R + d
      /\ v + receipts'[g] + forfeited' + d = u + receipts[g] + forfeited
  BY <1>2
<1> HIDE DEF u, v, H, K, R, Q
<1>6. Q + K + forfeited' = R + H + forfeited
  BY <1>3, <1>5 DEF u, v, H, R
<1> QED
  BY <1>4, <1>6 DEF Budget, H, K, R, Q

LEMMA TryStepInv == \A g \in SagaIds : SagaInv /\ TryStep(g) => SagaInv'
<1> SUFFICES ASSUME NEW g \in SagaIds, SagaInv, TryStep(g) PROVE SagaInv'
  OBVIOUS
<1> USE DEF SagaInv
<1>0. /\ stack[g] \in Seq(Steps) /\ Len(stack[g]) \in Nat
      /\ Plan[g] \in Seq(Steps) /\ Len(Plan[g]) \in Nat
      /\ phase[g] = "forward" /\ Len(stack[g]) < Len(Plan[g])
      /\ receipts' = receipts /\ forfeited' = forfeited
      /\ Begins(stack[g], Plan[g]) /\ receipts[g] = 0
  BY SagasAssumption, LenProperties DEF TryStep, SagaTypeOK, PhaseHolds
<1>1. CASE phase' = [phase EXCEPT ![g] = "aborting"] /\ UNCHANGED <<remaining, stack>>
  <2>1. SagaTypeOK'
    BY <1>0, <1>1 DEF SagaTypeOK, Phases
  <2>2. \A h \in SagaIds : PhaseHolds(h)'
    BY <1>0, <1>1 DEF SagaTypeOK, PhaseHolds
  <2>3. Budget'
    BY <1>0, <1>1 DEF Budget, Holdings
  <2> QED
    BY <2>1, <2>2, <2>3
<1>2. CASE phase' # [phase EXCEPT ![g] = "aborting"] \/ ~ UNCHANGED <<remaining, stack>>
  <2> DEFINE step == NextStep(g)
  <2>1. /\ step.units <= remaining[step.account]
        /\ remaining' = [remaining EXCEPT ![step.account] = remaining[step.account] - step.units]
        /\ stack' = [stack EXCEPT ![g] = Append(stack[g], step)]
        /\ phase' = phase
    BY <1>2 DEF TryStep, Kept
  <2>2. step \in Steps /\ step = Plan[g][Len(stack[g]) + 1]
    BY <1>0, ElementOfSeq DEF NextStep
  <2>3. step.account \in Accounts /\ step.units \in Nat
    BY <2>2 DEF Steps
  <2> HIDE DEF step
  <2>4. /\ remaining[step.account] - step.units \in Nat
        /\ remaining[step.account] \in Nat
        /\ remaining' \in [Accounts -> Nat]
    BY <2>1, <2>3 DEF SagaTypeOK
  <2>5. /\ Append(stack[g], step) \in Seq(Steps)
        /\ Units(Append(stack[g], step)) = Units(stack[g]) + step.units
        /\ Len(Append(stack[g], step)) = Len(stack[g]) + 1
        /\ \A i \in 1 .. Len(stack[g]) : Append(stack[g], step)[i] = stack[g][i]
        /\ Append(stack[g], step)[Len(stack[g]) + 1] = step
    BY <1>0, <2>2, UnitsAppend, AppendProperties
  <2>6. /\ stack' \in [SagaIds -> Seq(Steps)]
        /\ stack'[g] = Append(stack[g], step)
        /\ \A h \in SagaIds \ {g} : stack'[h] = stack[h]
    BY <2>1, <2>5 DEF SagaTypeOK
  <2>7. SagaTypeOK'
    BY <1>0, <2>1, <2>4, <2>6 DEF SagaTypeOK
  <2>8. ASSUME NEW h \in SagaIds PROVE PhaseHolds(h)'
    <3>1. CASE h # g
      BY <1>0, <2>1, <2>6, <3>1 DEF PhaseHolds
    <3>2. CASE h = g
      <4>1. Begins(Append(stack[g], step), Plan[g])
        <5>1. ASSUME NEW i \in 1 .. Len(stack[g]) + 1 PROVE Append(stack[g], step)[i] = Plan[g][i]
          <6>1. CASE i = Len(stack[g]) + 1
            BY <2>2, <2>5, <6>1
          <6>2. CASE i \in 1 .. Len(stack[g])
            BY <1>0, <2>5, <6>2 DEF Begins
          <6> QED
            BY <1>0, <6>1, <6>2
        <5> QED
          BY <1>0, <2>5, <5>1 DEF Begins
      <4> QED
        BY <1>0, <2>1, <2>6, <3>2, <4>1 DEF PhaseHolds
    <3> QED
      BY <3>1, <3>2
  <2>9. Budget'
    <3>1. SumOver(remaining', Accounts) = SumOver(remaining, Accounts) + (0 - step.units)
      <4>1. SumOver(remaining', Accounts)
              = SumOver(remaining, Accounts)
                  + ((remaining[step.account] - step.units) - remaining[step.account])
        BY <2>1, <2>3, <2>4, RemainingOfOne DEF SagaTypeOK
      <4>2. SumOver(remaining, Accounts) \in Nat
        BY SagasAssumption, SumNatural DEF SagaTypeOK
      <4> QED
        BY <2>3, <2>4, <4>1, <4>2
    <3>2. Units(stack[g]) \in Nat /\ receipts[g] \in Nat /\ forfeited \in Nat
      BY <1>0, UnitsSum DEF SagaTypeOK
    <3>3. Units(stack'[g]) + receipts'[g] + forfeited' + (0 - step.units)
            = Units(stack[g]) + receipts[g] + forfeited
      BY <1>0, <2>3, <2>5, <2>6, <3>2
    <3>4. \A h \in SagaIds \ {g} : stack'[h] = stack[h] /\ receipts'[h] = receipts[h]
      BY <1>0, <2>6
    <3>5. 0 - step.units \in Int
      BY <2>3
    <3> QED
      BY <2>7, <3>1, <3>3, <3>4, <3>5, BudgetMoves
  <2> QED
    BY <2>7, <2>8, <2>9
<1> QED
  BY <1>1, <1>2

LEMMA CommitSagaInv == \A g \in SagaIds : SagaInv /\ CommitSaga(g) => SagaInv'
<1> SUFFICES ASSUME NEW g \in SagaIds, SagaInv, CommitSaga(g) PROVE SagaInv'
  OBVIOUS
<1> USE DEF SagaInv
<1>1. /\ phase[g] = "forward" /\ Len(stack[g]) = Len(Plan[g])
      /\ phase' = [phase EXCEPT ![g] = "committed"]
      /\ UNCHANGED <<remaining, stack, receipts, forfeited>>
  BY DEF CommitSaga
<1>2. SagaTypeOK'
  BY <1>1 DEF SagaTypeOK, Phases
<1>3. Budget'
  BY <1>1 DEF Budget, Holdings
<1>4. stack[g] = Plan[g] /\ receipts[g] = 0
  <2>1. Begins(stack[g], Plan[g]) /\ receipts[g] = 0
    BY <1>1 DEF PhaseHolds
  <2>2. stack[g] \in Seq(Steps) /\ Plan[g] \in Seq(Steps)
    BY SagasAssumption DEF SagaTypeOK
  <2> QED
    BY <1>1, <2>1, <2>2, SeqEqual DEF Begins
<1>5. Units(Plan[g]) \in Nat
  BY SagasAssumption, UnitsSum
<1>6. \A h \in SagaIds : PhaseHolds(h)'
  BY <1>1, <1>4, <1>5 DEF SagaTypeOK, PhaseHolds
<1> QED
  BY <1>2, <1>3, <1>6

LEMMA SpendInv == \A g \in SagaIds : SagaInv /\ Spend(g) => SagaInv'
<1> SUFFICES ASSUME NEW g \in SagaIds, SagaInv, Spend(g) PROVE SagaInv'
  OBVIOUS
<1> USE DEF SagaInv
<1>1. stack[g] \in Seq(Steps) /\ stack[g] # <<>> /\ phase[g] = "committed"
      /\ UNCHANGED <<remaining, phase, forfeited>>
  BY DEF Spend, SagaTypeOK
<1> DEFINE took == stack[g]
<1>2. PICK amount \in 1 .. Last(took).units :
        /\ receipts' = [receipts EXCEPT ![g] = receipts[g] + amount]
        /\ stack' = [stack EXCEPT ![g] =
             IF amount = Last(took).units THEN Front(took) ELSE Reduced(took, amount)]
  BY DEF Spend
<1>3. /\ Last(took) = took[Len(took)] /\ Last(took).units \in Nat
      /\ Front(took) \in Seq(Steps) /\ Units(Front(took)) \in Nat /\ Units(took) \in Nat
      /\ Units(took) = Units(Front(took)) + Last(took).units
  BY <1>1, FrontAndLast, UnitsSum DEF Steps
<1> DEFINE rest == stack'[g]
<1>4. rest \in Seq(Steps) /\ Units(rest) = Units(took) - amount
  <2>1. CASE amount = Last(took).units
    BY <1>2, <1>3, <2>1 DEF SagaTypeOK
  <2>2. CASE amount # Last(took).units
    <3>1. rest = Reduced(took, amount)
      BY <1>2, <2>2 DEF SagaTypeOK
    <3>2. amount \in Nat /\ amount <= Last(took).units
      BY <1>3
    <3> QED
      BY <1>1, <3>1, <3>2, UnitsSpent
  <2> QED
    BY <2>1, <2>2
<1> HIDE DEF rest
<1>5. /\ stack' \in [SagaIds -> Seq(Steps)] /\ receipts' \in [SagaIds -> Nat]
      /\ receipts'[g] = receipts[g] + amount /\ receipts[g] \in Nat /\ amount \in Nat
      /\ \A h \in SagaIds \ {g} : stack'[h] = stack[h] /\ receipts'[h] = receipts[h]
  <2>1. amount \in Nat
    BY <1>3
  <2>2. /\ receipts \in [SagaIds -> Nat] /\ stack \in [SagaIds -> Seq(Steps)]
        /\ stack' = [stack EXCEPT ![g] = rest]
    BY <1>2 DEF SagaTypeOK, rest
  <2>3. receipts[g] \in Nat /\ receipts[g] + amount \in Nat
    BY <2>1, <2>2
  <2>4. /\ receipts' \in [SagaIds -> Nat] /\ receipts'[g] = receipts[g] + amount
        /\ \A h \in SagaIds \ {g} : receipts'[h] = receipts[h]
    BY <1>2, <2>2, <2>3
  <2>5. /\ stack' \in [SagaIds -> Seq(Steps)]
        /\ \A h \in SagaIds \ {g} : stack'[h] = stack[h]
    BY <1>4, <2>2
  <2> QED
    BY <2>1, <2>3, <2>4, <2>5
<1>6. SagaTypeOK'
  BY <1>1, <1>5 DEF SagaTypeOK
<1>7. Units(rest) + receipts'[g] = Units(took) + receipts[g] /\ Units(rest) \in Nat
  BY <1>3, <1>4, <1>5, UnitsSum
<1>8. \A h \in SagaIds : PhaseHolds(h)'
  <2>1. receipts'[g] + Units(stack'[g]) = Units(Plan[g])
    <3>1. receipts[g] + Units(stack[g]) = Units(Plan[g])
      BY <1>1 DEF PhaseHolds
    <3> QED
      BY <1>3, <1>5, <1>7, <3>1 DEF rest
  <2> QED
    BY <1>1, <1>5, <2>1 DEF PhaseHolds
<1>9. Budget'
  <2>1. forfeited' = forfeited /\ forfeited \in Nat /\ remaining' = remaining
        /\ SumOver(remaining, Accounts) \in Nat /\ 0 \in Int
    BY <1>1, SagasAssumption, SumNatural DEF SagaTypeOK
  <2>2. Units(stack'[g]) + receipts'[g] + forfeited' + 0
          = Units(stack[g]) + receipts[g] + forfeited
    BY <1>3, <1>5, <1>7, <2>1 DEF rest
  <2>3. SumOver(remaining', Accounts) = SumOver(remaining, Accounts) + 0
    BY <2>1
  <2> QED
    BY <1>5, <1>6, <2>1, <2>2, <2>3, BudgetMoves
<1> QED
  BY <1>6, <1>8, <1>9

LEMMA CompensateNextInv == \A g \in SagaIds : SagaInv /\ CompensateNext(g) => SagaInv'
<1> SUFFICES ASSUME NEW g \in SagaIds, SagaInv, CompensateNext(g) PROVE SagaInv'
  OBVIOUS
<1> USE DEF SagaInv
<1> DEFINE took == stack[g]
           step == Last(took)
<1>1. /\ took \in Seq(Steps) /\ took # <<>> /\ phase[g] = "aborting"
      /\ remaining' = [remaining EXCEPT ![step.account] = remaining[step.account] + step.units]
      /\ stack' = [stack EXCEPT ![g] = Front(took)]
      /\ UNCHANGED <<phase, receipts, forfeited>>
  BY DEF CompensateNext, LatestFirst, SagaTypeOK
<1>2. /\ Front(took) \in Seq(Steps) /\ step \in Steps
      /\ Len(took) \in Nat \ {0} /\ Len(Front(took)) = Len(took) - 1
      /\ \A i \in 1 .. Len(took) - 1 : Front(took)[i] = took[i]
      /\ Units(took) = Units(Front(took)) + step.units
      /\ Units(Front(took)) \in Nat
  BY <1>1, FrontAndLast, UnitsSum
<1>3. step.account \in Accounts /\ step.units \in Nat
  BY <1>2 DEF Steps
<1> HIDE DEF took, step
<1>4. remaining[step.account] \in Nat /\ remaining[step.account] + step.units \in Nat
  BY <1>3 DEF SagaTypeOK
<1>5. /\ remaining' \in [Accounts -> Nat] /\ stack' \in [SagaIds -> Seq(Steps)]
      /\ stack'[g] = Front(took)
      /\ \A h \in SagaIds \ {g} : stack'[h] = stack[h] /\ receipts'[h] = receipts[h]
  BY <1>1, <1>2, <1>4 DEF SagaTypeOK
<1>6. SagaTypeOK'
  BY <1>1, <1>5 DEF SagaTypeOK
<1>7. \A h \in SagaIds : PhaseHolds(h)'
  <2>1. Begins(took, Plan[g]) /\ receipts[g] = 0
    BY <1>1 DEF PhaseHolds, took
  <2>2. Plan[g] \in Seq(Steps) /\ Len(Plan[g]) \in Nat
    BY SagasAssumption, LenProperties
  <2>3. Begins(Front(took), Plan[g])
    BY <1>2, <2>1, <2>2 DEF Begins
  <2> QED
    BY <1>1, <1>5, <2>1, <2>3 DEF PhaseHolds
<1>8. Budget'
  <2>1. SumOver(remaining', Accounts) = SumOver(remaining, Accounts) + step.units
    <3>1. SumOver(remaining', Accounts)
            = SumOver(remaining, Accounts)
                + ((remaining[step.account] + step.units) - remaining[step.account])
      BY <1>1, <1>3, <1>4, RemainingOfOne DEF SagaTypeOK
    <3>2. SumOver(remaining, Accounts) \in Nat
      BY SagasAssumption, SumNatural DEF SagaTypeOK
    <3> QED
      BY <1>3, <1>4, <3>1, <3>2
  <2>2. receipts' = receipts /\ forfeited' = forfeited /\ receipts[g] \in Nat /\ forfeited \in Nat
    BY <1>1 DEF SagaTypeOK
  <2>3. Units(stack'[g]) + receipts'[g] + forfeited' + step.units
          = Units(stack[g]) + receipts[g] + forfeited
    BY <1>2, <1>3, <1>5, <2>2 DEF took
  <2>4. step.units \in Int
    BY <1>3
  <2> QED
    BY <1>5, <1>6, <2>1, <2>3, <2>4, BudgetMoves
<1> QED
  BY <1>6, <1>7, <1>8

LEMMA DoneInv == \A g \in SagaIds : SagaInv /\ Done(g) => SagaInv'
<1> SUFFICES ASSUME NEW g \in SagaIds, SagaInv, Done(g) PROVE SagaInv'
  OBVIOUS
<1> USE DEF SagaInv
<1>1. /\ phase[g] = "aborting" /\ stack[g] = <<>>
      /\ phase' = [phase EXCEPT ![g] = "compensated"]
      /\ UNCHANGED <<remaining, stack, receipts, forfeited>>
  BY DEF Done, Unwound
<1>2. SagaTypeOK' /\ Budget'
  BY <1>1 DEF SagaTypeOK, Phases, Budget, Holdings
<1>3. \A h \in SagaIds : PhaseHolds(h)'
  BY <1>1 DEF SagaTypeOK, PhaseHolds
<1> QED
  BY <1>2, <1>3

LEMMA DropSagaInv == \A g \in SagaIds : SagaInv /\ DropSaga(g) => SagaInv'
<1> SUFFICES ASSUME NEW g \in SagaIds, SagaInv, DropSaga(g) PROVE SagaInv'
  OBVIOUS
<1> USE DEF SagaInv
<1>1. /\ forfeited' = forfeited + Units(stack[g])
      /\ stack' = [stack EXCEPT ![g] = <<>>]
      /\ phase' = [phase EXCEPT ![g] = "dropped"]
      /\ UNCHANGED <<remaining, receipts>>
  BY DEF DropSaga
<1>2. stack[g] \in Seq(Steps) /\ Units(stack[g]) \in Nat /\ <<>> \in Seq(Steps)
  BY UnitsSum DEF SagaTypeOK
<1>3. /\ stack' \in [SagaIds -> Seq(Steps)] /\ stack'[g] = <<>>
      /\ \A h \in SagaIds \ {g} : stack'[h] = stack[h] /\ receipts'[h] = receipts[h]
  BY <1>1, <1>2 DEF SagaTypeOK
<1>4. SagaTypeOK'
  BY <1>1, <1>2, <1>3 DEF SagaTypeOK, Phases
<1>5. \A h \in SagaIds : PhaseHolds(h)'
  BY <1>1, <1>3 DEF SagaTypeOK, PhaseHolds
<1>6. Budget'
  <2>1. /\ remaining' = remaining /\ SumOver(remaining, Accounts) \in Nat /\ 0 \in Int
        /\ receipts' = receipts /\ receipts[g] \in Nat /\ forfeited \in Nat
    BY <1>1, SagasAssumption, SumNatural DEF SagaTypeOK
  <2>2. Units(stack'[g]) + receipts'[g] + forfeited' + 0
          = Units(stack[g]) + receipts[g] + forfeited
    BY <1>1, <1>2, <1>3, <2>1, UnitsEmpty
  <2>3. SumOver(remaining', Accounts) = SumOver(remaining, Accounts) + 0
    BY <2>1
  <2> QED
    BY <1>3, <1>4, <2>1, <2>2, <2>3, BudgetMoves
<1> QED
  BY <1>4, <1>5, <1>6

LEMMA SagaNextInv == SagaInv /\ [SagaNext]_sagaVars => SagaInv'
<1> SUFFICES ASSUME SagaInv, [SagaNext]_sagaVars PROVE SagaInv'
  OBVIOUS
<1>1. CASE SagaNext
  BY <1>1, TryStepInv, CommitSagaInv, SpendInv, CompensateNextInv, DoneInv, DropSagaInv
     DEF SagaNext
<1>2. CASE UNCHANGED sagaVars
  BY <1>2 DEF sagaVars, SagaInv, SagaTypeOK, PhaseHolds, Budget, Holdings
<1> QED
  BY <1>1, <1>2

LEMMA SagaInvariant == SagaSpec => []SagaInv
  BY SagaInitInv, SagaNextInv, PTL DEF SagaSpec

\* split, spend and merge (escrow.rs:160-201): for any sagas, plans and accounts, units
\* are neither made nor lost.
THEOREM BudgetIsConserved == SagaSpec => []CapacityIsConserved
<1>1. ASSUME SagaInv PROVE CapacityIsConserved
  <2>1. DOMAIN remaining = Accounts /\ DOMAIN Holdings = SagaIds /\ DOMAIN Granted = Accounts
    BY <1>1, SagasAssumption DEF SagaInv, SagaTypeOK, Holdings
  <2>2. /\ SumFunction(remaining) = SumOver(remaining, Accounts)
        /\ SumFunction(Holdings) = SumOver(Holdings, SagaIds)
        /\ SumFunction(Granted) = SumOver(Granted, Accounts)
    BY <2>1, SumFunctionIsSum
  <2> QED
    BY <1>1, <2>2 DEF SagaInv, Budget, CapacityIsConserved
<1> QED
  BY <1>1, SagaInvariant, PTL

\* try_step, compensate_next, done and commit (saga.rs:169-235): for any plans and shares,
\* what is in effect begins the plan, a compensated saga has no effect and a committed
\* one all of them.
THEOREM SagasAreWhole == SagaSpec => []SagaIsWhole
<1>1. ASSUME SagaInv PROVE SagaIsWhole
  <2> USE <1>1 DEF SagaInv
  <2> SUFFICES ASSUME NEW g \in SagaIds
               PROVE  /\ phase[g] \in {"forward", "aborting"} => IsPrefix(stack[g], Plan[g])
                      /\ phase[g] = "compensated" => stack[g] = <<>> /\ receipts[g] = 0
                      /\ phase[g] = "committed" => receipts[g] + Units(stack[g]) = Units(Plan[g])
    BY DEF SagaIsWhole
  <2>1. stack[g] \in Seq(Steps) /\ Plan[g] \in Seq(Steps)
    BY SagasAssumption DEF SagaTypeOK
  <2>2. Begins(stack[g], Plan[g]) => IsPrefix(stack[g], Plan[g])
    BY <2>1, PrefixByItems DEF Begins
  <2> QED
    BY <2>2 DEF PhaseHolds
<1> QED
  BY <1>1, SagaInvariant, PTL

-----------------------------------------------------------------------------
(* Compaction under barriers.                                              *)

RetentionTypeOK ==
  /\ applied \in [Nodes -> Nat]
  /\ floor \in [Nodes -> Nat]
  /\ reports \subseteq Nodes \X Nat
  /\ DOMAIN acks \subseteq Nodes /\ \A n \in DOMAIN acks : acks[n] \in Nat
  /\ stable \subseteq Nat

\* A watermark is true when it is sent and stays so: nobody unapplies a position.
WatermarksHold ==
  /\ \A report \in reports : report[2] <= applied[report[1]]
  /\ \A n \in DOMAIN acks : acks[n] <= applied[n]

\* A certified frontier is below every member, and floors are certified frontiers.
FrontiersHold ==
  \A m \in Roster :
    /\ \A upto \in stable : upto <= applied[m]
    /\ \A n \in Nodes : floor[n] <= applied[m]

RetentionInv == RetentionTypeOK /\ WatermarksHold /\ FrontiersHold

LEMMA FrontierIsLeast ==
  ASSUME RetentionTypeOK, Unanimous
  PROVE  Frontier \in Nat /\ \A n \in Roster : Frontier <= acks[n]
<1> DEFINE S == {acks[n] : n \in Roster}
<1>1. S \in SUBSET Nat /\ S # {}
  BY RetentionAssumption DEF RetentionTypeOK, Unanimous
<1>2. \E x \in S : \A y \in S : x <= y
  BY <1>1, LeastMember
<1>3. Frontier \in S /\ \A y \in S : Frontier <= y
  BY <1>2 DEF Frontier, Min
<1> QED
  BY <1>1, <1>3

LEMMA RetentionInitInv == RetentionInit => RetentionInv
  BY RetentionAssumption DEF RetentionInit, RetentionInv, RetentionTypeOK, WatermarksHold,
     FrontiersHold, Nodes

LEMMA RetentionNextInv == RetentionInv /\ [RetentionNext]_retentionVars => RetentionInv'
<1> SUFFICES ASSUME RetentionInv, [RetentionNext]_retentionVars PROVE RetentionInv'
  OBVIOUS
<1> USE DEF RetentionInv
<1> Roster \subseteq Nodes
  BY DEF Nodes
<1>1. ASSUME NEW n \in Nodes, Apply(n) PROVE RetentionInv'
  <2>1. /\ applied' = [applied EXCEPT ![n] = @ + 1]
        /\ UNCHANGED <<floor, reports, acks, stable>>
    BY <1>1 DEF Apply
  <2>2. applied' \in [Nodes -> Nat] /\ \A m \in Nodes : applied[m] <= applied'[m]
    BY <2>1 DEF RetentionTypeOK
  <2>3. RetentionTypeOK'
    BY <2>1, <2>2 DEF RetentionTypeOK
  <2>4. WatermarksHold'
    BY <2>1, <2>2 DEF RetentionTypeOK, WatermarksHold
  <2>5. FrontiersHold'
    BY <2>1, <2>2 DEF RetentionTypeOK, FrontiersHold
  <2> QED
    BY <2>3, <2>4, <2>5
<1>2. ASSUME NEW n \in Nodes, Report(n) PROVE RetentionInv'
  BY <1>2 DEF Report, RetentionTypeOK, WatermarksHold, FrontiersHold
<1>3. ASSUME NEW n \in Nodes, Compact(n) PROVE RetentionInv'
  BY <1>3 DEF Compact, Cut, RetentionTypeOK, WatermarksHold, FrontiersHold
<1>4. CASE Open
  BY <1>4 DEF Open, RetentionTypeOK, WatermarksHold, FrontiersHold
<1>5. CASE Ack
  <2>1. PICK report \in reports :
          acks' = [m \in DOMAIN acks \cup {report[1]} |->
                     IF m = report[1]
                       THEN IF report[1] \in DOMAIN acks /\ acks[report[1]] > report[2]
                              THEN acks[report[1]] ELSE report[2]
                       ELSE acks[m]]
    BY <1>5 DEF Ack
  <2>2. UNCHANGED <<applied, floor, reports, stable>>
    BY <1>5 DEF Ack
  <2>3. report[1] \in Nodes /\ report[2] \in Nat /\ report[2] <= applied[report[1]]
    BY DEF RetentionTypeOK, WatermarksHold
  <2>4. DOMAIN acks' = DOMAIN acks \cup {report[1]}
    BY <2>1
  <2>5. \A m \in DOMAIN acks' : acks'[m] \in Nat /\ acks'[m] <= applied[m]
    BY <2>1, <2>3, <2>4 DEF RetentionTypeOK, WatermarksHold
  <2> QED
    BY <2>2, <2>3, <2>4, <2>5 DEF RetentionTypeOK, WatermarksHold, FrontiersHold
<1>6. CASE Seal
  <2>1. /\ stable' = stable \/ (Unanimous /\ stable' = stable \cup {Frontier})
        /\ acks' = [n \in {} |-> 0]
        /\ UNCHANGED <<applied, floor, reports>>
    BY <1>6 DEF Seal
  <2>2. Unanimous => Frontier \in Nat /\ \A m \in Roster : Frontier <= applied[m]
    <3> SUFFICES ASSUME Unanimous, NEW m \in Roster
                 PROVE  Frontier \in Nat /\ Frontier <= applied[m]
      BY RetentionAssumption
    <3>1. Frontier \in Nat /\ Frontier <= acks[m]
      BY FrontierIsLeast
    <3>2. acks[m] \in Nat /\ acks[m] <= applied[m] /\ applied[m] \in Nat
      BY DEF Unanimous, RetentionTypeOK, WatermarksHold
    <3> QED
      BY <3>1, <3>2
  <2>3. stable' \subseteq Nat /\ \A m \in Roster : \A upto \in stable' : upto <= applied[m]
    BY <2>1, <2>2 DEF RetentionTypeOK, FrontiersHold
  <2> QED
    BY <2>1, <2>3 DEF RetentionTypeOK, WatermarksHold, FrontiersHold
<1>7. CASE UNCHANGED retentionVars
  BY <1>7 DEF retentionVars, RetentionTypeOK, WatermarksHold, FrontiersHold
<1> QED
  BY <1>1, <1>2, <1>3, <1>4, <1>5, <1>6, <1>7 DEF RetentionNext

\* seal (stability.rs:176-182) with compact (compaction.rs:167-170): for any roster,
\* whatever is delayed, repeated or sealed long ago, no node has forgotten the
\* position that a member of the roster needs next.
THEOREM NothingNeededIsForgotten == RetentionSpec => []NoOneStranded
<1>1. ASSUME RetentionInv PROVE NoOneStranded
  BY <1>1 DEF RetentionInv, RetentionTypeOK, FrontiersHold, NoOneStranded, Readable, Nodes
<1>2. RetentionSpec => []RetentionInv
  BY RetentionInitInv, RetentionNextInv, PTL DEF RetentionSpec
<1> QED
  BY <1>1, <1>2, PTL

-----------------------------------------------------------------------------
(* Replicas and Calm.                                                      *)
(*                                                                         *)
(* What a replica knows is not what it has delivered, so the invariant     *)
(* relates both to its clock and to its value: Truthful says that messages *)
(* tell their past as it was, Informed that clock and counter count what   *)
(* is known and that the value is between its heads and all of it.  Under  *)
(* a total order more is needed, that a version is a function of how many  *)
(* messages came (Replays).                                                *)

\* Pipelines of labelled operations.
LeveledOps(names) == [name : names, level : {"Free", "Coordinated"}]

\* it runs the operations one by one, as far as the n-th.
IsRun(it, ops, n) ==
  it = [k \in 0 .. n |-> IF k = 0 THEN Start ELSE Then(it[k - 1], ops[k])]

LEMMA RunExists ==
  ASSUME NEW ops, NEW n \in Nat
  PROVE  \E it : IsRun(it, ops, n)
<1> DEFINE T == {m \in Nat : \E it : IsRun(it, ops, m)}
<1>1. 0 \in T
  <2> DEFINE it == [k \in 0 .. 0 |-> Start]
  <2>1. it = [k \in 0 .. 0 |-> IF k = 0 THEN Start ELSE Then(it[k - 1], ops[k])]
    OBVIOUS
  <2> QED
    BY <2>1 DEF IsRun
<1>2. ASSUME NEW m \in T PROVE m + 1 \in T
  <2>1. PICK it : IsRun(it, ops, m)
    OBVIOUS
  <2> DEFINE jt == [k \in 0 .. (m + 1) |-> IF k <= m THEN it[k] ELSE Then(it[m], ops[m + 1])]
  <2>2. ASSUME NEW k \in 0 .. (m + 1)
        PROVE  jt[k] = IF k = 0 THEN Start ELSE Then(jt[k - 1], ops[k])
    <3>1. CASE k = 0
      BY <2>1, <3>1 DEF IsRun
    <3>2. CASE k \in 1 .. m
      <4>1. it[k] = Then(it[k - 1], ops[k])
        BY <2>1, <3>2 DEF IsRun
      <4>2. jt[k] = it[k] /\ jt[k - 1] = it[k - 1]
        BY <3>2
      <4> QED
        BY <3>2, <4>1, <4>2
    <3>3. CASE k = m + 1
      <4>1. jt[m + 1] = Then(it[m], ops[m + 1]) /\ jt[m] = it[m] /\ (m + 1) - 1 = m /\ m + 1 # 0
        OBVIOUS
      <4> QED
        BY <3>3, <4>1
    <3> QED
      BY <3>1, <3>2, <3>3
  <2>3. jt = [k \in 0 .. (m + 1) |-> jt[k]]
    OBVIOUS
  <2> HIDE DEF jt
  <2>4. jt = [k \in 0 .. (m + 1) |-> IF k = 0 THEN Start ELSE Then(jt[k - 1], ops[k])]
    BY <2>2, <2>3
  <2> QED
    BY <2>4 DEF IsRun
<1>3. T = Nat
  BY <1>1, <1>2, Descent
<1> QED
  BY <1>3

\* Pipeline::then (calm.rs:179-190): a pipeline of any length is coordination-free
\* exactly when every one of its operations is declared monotone, and it lists the
\* operations in the order of their composition.
THEOREM OneCoordinatedStepIsEnough ==
  ASSUME NEW names, NEW ops \in Seq(LeveledOps(names))
  PROVE  /\ CoordinationFree(Pipeline(ops)) <=> \A i \in 1 .. Len(ops) : ops[i].level = "Free"
         /\ Pipeline(ops).steps \in Seq(names) /\ Len(Pipeline(ops).steps) = Len(ops)
         /\ \A i \in 1 .. Len(ops) : Pipeline(ops).steps[i] = ops[i].name
<1> DEFINE n == Len(ops)
           upTo == CHOOSE it : IsRun(it, ops, n)
<1>1. n \in Nat /\ \A i \in 1 .. n : ops[i] \in LeveledOps(names)
  BY LenProperties, ElementOfSeq
<1>2. IsRun(upTo, ops, n)
  BY <1>1, RunExists
<1>3. Pipeline(ops) = upTo[n]
  BY DEF Pipeline, IsRun
<1> HIDE DEF upTo
<1>4. /\ upTo[0] = Start
      /\ \A k \in 1 .. n : upTo[k] = Then(upTo[k - 1], ops[k])
  BY <1>1, <1>2 DEF IsRun
<1> DEFINE Right(k) ==
             /\ upTo[k].level \in {"Free", "Coordinated"}
             /\ CoordinationFree(upTo[k]) <=> \A i \in 1 .. k : ops[i].level = "Free"
             /\ upTo[k].steps \in Seq(names) /\ Len(upTo[k].steps) = k
             /\ \A i \in 1 .. k : upTo[k].steps[i] = ops[i].name
           T == {k \in Nat : k <= n => Right(k)}
<1>5. 0 \in T
  <2>1. upTo[0].steps = <<>> /\ upTo[0].level = "Free"
    BY <1>4 DEF Start
  <2>2. <<>> \in Seq(names) /\ Len(<<>>) = 0 /\ 1 .. 0 = {}
    OBVIOUS
  <2> QED
    BY <2>1, <2>2 DEF CoordinationFree
<1>6. ASSUME NEW k \in T PROVE k + 1 \in T
  <2> SUFFICES ASSUME k + 1 <= n PROVE Right(k + 1)
    OBVIOUS
  <2>1. /\ k \in Nat /\ k + 1 \in 1 .. n /\ (k + 1) - 1 = k /\ Right(k)
        /\ ops[k + 1] \in LeveledOps(names)
    BY <1>1
  <2>2. upTo[k + 1] = Then(upTo[k], ops[k + 1])
    BY <1>4, <2>1
  <2>3. /\ upTo[k + 1].steps = Append(upTo[k].steps, ops[k + 1].name)
        /\ upTo[k + 1].level = JoinLevel(upTo[k].level, ops[k + 1].level)
    BY <2>2 DEF Then
  <2>4. /\ ops[k + 1].level \in {"Free", "Coordinated"} /\ ops[k + 1].name \in names
    BY <2>1 DEF LeveledOps
  <2>5. CoordinationFree(upTo[k + 1]) <=> \A i \in 1 .. (k + 1) : ops[i].level = "Free"
    <3>1. CoordinationFree(upTo[k + 1])
            <=> CoordinationFree(upTo[k]) /\ ops[k + 1].level = "Free"
      BY <2>1, <2>3, <2>4 DEF CoordinationFree, JoinLevel
    <3>2. (\A i \in 1 .. (k + 1) : ops[i].level = "Free")
            <=> (\A i \in 1 .. k : ops[i].level = "Free") /\ ops[k + 1].level = "Free"
      BY <2>1
    <3> QED
      BY <2>1, <3>1, <3>2
  <2>6. /\ upTo[k + 1].steps \in Seq(names) /\ Len(upTo[k + 1].steps) = k + 1
        /\ \A i \in 1 .. (k + 1) : upTo[k + 1].steps[i] = ops[i].name
    BY <2>1, <2>3, <2>4, AppendProperties
  <2>7. upTo[k + 1].level \in {"Free", "Coordinated"}
    BY <2>3 DEF JoinLevel
  <2> QED
    BY <2>5, <2>6, <2>7
<1>7. T = Nat
  BY <1>5, <1>6, Descent
<1>8. Right(n)
  BY <1>1, <1>7
<1> QED
  BY <1>3, <1>8

-----------------------------------------------------------------------------
Places   == Procs \X (Nat \ {0})
Vectors  == [Procs -> Nat]
Versions == [clock : Vectors, value : SUBSET Places]

\* The writes that a vector clock counts.
Counted(c) == {w \in Places : w[2] <= c[w[1]]}

LEMMA CountedOrder ==
  ASSUME NEW c \in Vectors, NEW d \in Vectors
  PROVE  /\ (Counted(c) \subseteq Counted(d)) <=> (\A p \in Procs : c[p] <= d[p])
         /\ Counted(c) = Counted(d) => c = d
<1>1. ASSUME NEW a \in Vectors, NEW b \in Vectors, Counted(a) \subseteq Counted(b), NEW p \in Procs
      PROVE  a[p] <= b[p]
  <2>1. a[p] \in Nat /\ b[p] \in Nat
    BY DEF Vectors
  <2>2. CASE a[p] = 0
    BY <2>1, <2>2
  <2>3. CASE a[p] # 0
    <3>1. <<p, a[p]>> \in Counted(a)
      BY <2>1, <2>3 DEF Counted, Places
    <3>2. <<p, a[p]>> \in Counted(b)
      BY <1>1, <3>1
    <3> QED
      BY <3>2 DEF Counted
  <2> QED
    BY <2>2, <2>3
<1>2. ASSUME \A p \in Procs : c[p] <= d[p] PROVE Counted(c) \subseteq Counted(d)
  <2> SUFFICES ASSUME NEW w \in Counted(c) PROVE w \in Counted(d)
    OBVIOUS
  <2>1. /\ w \in Places /\ w[1] \in Procs /\ w[2] \in Nat /\ w[2] <= c[w[1]]
        /\ c[w[1]] \in Nat /\ d[w[1]] \in Nat
    BY DEF Counted, Places, Vectors
  <2> QED
    BY <1>2, <2>1 DEF Counted
<1>3. ASSUME Counted(c) = Counted(d) PROVE c = d
  <2>1. \A p \in Procs : c[p] <= d[p] /\ d[p] <= c[p]
    BY <1>1, <1>3
  <2>2. \A p \in Procs : c[p] = d[p]
    BY <2>1 DEF Vectors
  <2> QED
    BY <2>2 DEF Vectors
<1> QED
  BY <1>1, <1>2, <1>3

LEMMA CountedMerge ==
  ASSUME NEW c \in Vectors, NEW d \in Vectors
  PROVE  /\ Merge(c, d) \in Vectors /\ Counted(Merge(c, d)) = Counted(c) \cup Counted(d)
         /\ JoinCounts(c, d) = Merge(c, d)
<1>1. /\ DOMAIN c = Procs /\ \A p \in Procs : c[p] \in Nat /\ d[p] \in Nat
  BY DEF Vectors
<1>2. Merge(c, d) = [p \in Procs |-> IF c[p] > d[p] THEN c[p] ELSE d[p]]
  BY <1>1 DEF Merge
<1>3. JoinCounts(c, d) = [p \in Procs |-> IF d[p] > c[p] THEN d[p] ELSE c[p]]
  BY <1>1 DEF JoinCounts
<1>4. Merge(c, d) \in Vectors
  BY <1>1, <1>2 DEF Vectors
<1>5. \A p \in Procs : Merge(c, d)[p] = JoinCounts(c, d)[p]
  BY <1>1, <1>2, <1>3
<1>6. JoinCounts(c, d) = Merge(c, d)
  BY <1>2, <1>3, <1>5
<1>7. ASSUME NEW w \in Places
      PROVE  w \in Counted(Merge(c, d)) <=> w \in Counted(c) \/ w \in Counted(d)
  <2>1. w[1] \in Procs /\ w[2] \in Nat /\ c[w[1]] \in Nat /\ d[w[1]] \in Nat
    BY <1>1 DEF Places
  <2>2. Merge(c, d)[w[1]] = IF c[w[1]] > d[w[1]] THEN c[w[1]] ELSE d[w[1]]
    BY <1>2, <2>1
  <2>3. w[2] <= Merge(c, d)[w[1]] <=> w[2] <= c[w[1]] \/ w[2] <= d[w[1]]
    BY <2>1, <2>2
  <2> QED
    BY <2>3 DEF Counted
<1> QED
  BY <1>4, <1>6, <1>7 DEF Counted

LEMMA CountedTick ==
  ASSUME NEW c \in Vectors, NEW p \in Procs
  PROVE  /\ Tick(c, p) \in Vectors /\ Increment(c, p) = Tick(c, p)
         /\ Counted(Tick(c, p)) = Counted(c) \cup {<<p, c[p] + 1>>}
<1>1. DOMAIN c = Procs /\ \A q \in Procs : c[q] \in Nat
  BY DEF Vectors
<1>2. Tick(c, p) = [q \in Procs |-> IF q = p THEN c[p] + 1 ELSE c[q]]
  BY <1>1 DEF Tick
<1>3. Tick(c, p) \in Vectors /\ Increment(c, p) = Tick(c, p)
  BY <1>1, <1>2 DEF Vectors, Increment, Tick
<1>4. ASSUME NEW w \in Places
      PROVE  w \in Counted(Tick(c, p)) <=> w \in Counted(c) \/ w = <<p, c[p] + 1>>
  <2>1. w[1] \in Procs /\ w[2] \in Nat /\ w = <<w[1], w[2]>> /\ c[w[1]] \in Nat /\ c[p] \in Nat
    BY <1>1 DEF Places
  <2>2. Tick(c, p)[w[1]] = IF w[1] = p THEN c[p] + 1 ELSE c[w[1]]
    BY <1>2, <2>1
  <2>3. w[2] <= Tick(c, p)[w[1]] <=> w[2] <= c[w[1]] \/ (w[1] = p /\ w[2] = c[p] + 1)
    BY <2>1, <2>2
  <2> QED
    BY <2>1, <2>3 DEF Counted
<1>5. <<p, c[p] + 1>> \in Places
  BY <1>1 DEF Places
<1> QED
  BY <1>3, <1>4, <1>5 DEF Counted

\* The counter's value is the number of the writes that it counts.
LEMMA CountedCardinality ==
  ASSUME NEW c \in Vectors
  PROVE  Cardinality(Counted(c)) = CounterValue(c)
<1> DEFINE Of(S) == {w \in Counted(c) : w[1] \in S}
           T == {n \in Nat : \A S \in SUBSET Procs : Cardinality(S) <= n =>
                   IsFiniteSet(Of(S)) /\ Cardinality(Of(S)) = SumOver(c, S)}
<1>0. /\ DOMAIN c = Procs /\ \A q \in Procs : c[q] \in Nat /\ c[q] \in Int
      /\ IsFiniteSet(Procs)
      /\ \A S \in SUBSET Procs : IsFiniteSet(S) /\ Cardinality(S) \in Nat
  BY ReplicasAssumption, FS_Subset, FS_CardinalityType DEF Vectors
<1>1. Of({}) = {} /\ IsFiniteSet({}) /\ Cardinality({}) = 0 /\ SumOver(c, {}) = 0
  BY FS_EmptySet, SumEmpty
<1>2. 0 \in T
  BY <1>0, <1>1, FS_EmptySet
<1>3. ASSUME NEW n \in T PROVE n + 1 \in T
  <2>1. ASSUME NEW S \in SUBSET Procs, Cardinality(S) <= n + 1, NEW p \in S
        PROVE  IsFiniteSet(Of(S)) /\ Cardinality(Of(S)) = SumOver(c, S)
    <3> DEFINE R == S \ {p}
               Slot == Of({p})
    <3>1. R \in SUBSET Procs /\ Cardinality(R) <= n
      BY <1>0, <2>1, SmallerByOne
    <3>2. IsFiniteSet(Of(R)) /\ Cardinality(Of(R)) = SumOver(c, R)
      BY <3>1
    <3>3. IsFiniteSet(Slot) /\ Cardinality(Slot) = c[p]
      <4> DEFINE f == [k \in 1 .. c[p] |-> <<p, k>>]
      <4>1. p \in Procs /\ c[p] \in Nat
        BY <1>0
      <4>2. Slot = {<<p, k>> : k \in 1 .. c[p]}
        <5>1. ASSUME NEW w \in Slot PROVE w \in {<<p, k>> : k \in 1 .. c[p]}
          BY <4>1 DEF Counted, Places
        <5>2. ASSUME NEW k \in 1 .. c[p] PROVE <<p, k>> \in Slot
          BY <4>1 DEF Counted, Places
        <5> QED
          BY <5>1, <5>2
      <4> HIDE DEF Slot
      <4>3. f \in Bijection(1 .. c[p], Slot)
        BY <4>2 DEF Bijection, Injection, Surjection, IsInjective
      <4>4. IsFiniteSet(1 .. c[p]) /\ Cardinality(1 .. c[p]) = c[p]
        <5>1. 1 \in Int /\ c[p] \in Int /\ (IF 1 > c[p] THEN 0 ELSE c[p] - 1 + 1) = c[p]
          BY <4>1
        <5> QED
          BY <5>1, FS_Interval
      <4> QED
        BY <4>3, <4>4, FS_Bijection DEF ExistsBijection
    <3>4. Of(S) = Of(R) \cup Slot /\ Of(R) \cap Slot = {}
      OBVIOUS
    <3>5. IsFiniteSet(Of(S))
          /\ Cardinality(Of(S)) = Cardinality(Of(R)) + Cardinality(Slot) - Cardinality(Of(R) \cap Slot)
      BY <3>2, <3>3, <3>4, FS_Union
    <3>6. Cardinality(Of(R) \cap Slot) = 0
      BY <3>4, <1>1
    <3>7. SumOver(c, S) = c[p] + SumOver(c, R)
      BY <1>0, SumRemove
    <3>8. SumOver(c, R) \in Int /\ c[p] \in Int
      BY <1>0, SumTyped
    <3> HIDE DEF Of, R, Slot
    <3> QED
      BY <3>2, <3>3, <3>5, <3>6, <3>7, <3>8
  <2>2. ASSUME NEW S \in SUBSET Procs, S = {}
        PROVE  IsFiniteSet(Of(S)) /\ Cardinality(Of(S)) = SumOver(c, S)
    BY <1>1, <2>2
  <2> QED
    BY <2>1, <2>2
<1>4. T = Nat
  BY <1>2, <1>3, Descent
<1>5. Cardinality(Procs) \in T
  BY <1>0, <1>4
<1>6. Cardinality(Of(Procs)) = SumOver(c, Procs)
  BY <1>0, <1>5
<1>7. Of(Procs) = Counted(c)
  BY DEF Counted, Places
<1> QED
  BY <1>0, <1>6, <1>7, SumFunctionIsSum DEF CounterValue

\* take_dominant and merge_concurrent: one of the two or both, and no write is forgotten.
LEMMA ResolvedCounts ==
  ASSUME NEW v \in Versions, NEW w \in Versions
  PROVE  /\ Resolved(v, w) \in Versions
         /\ Counted(Resolved(v, w).clock) = Counted(v.clock) \cup Counted(w.clock)
         /\ \/ Resolved(v, w) = v /\ Counted(w.clock) \subseteq Counted(v.clock)
            \/ Resolved(v, w) = w /\ Counted(v.clock) \subseteq Counted(w.clock)
            \/ Resolved(v, w).value = v.value \cup w.value
<1>1. /\ v.clock \in Vectors /\ w.clock \in Vectors /\ DOMAIN v.clock = Procs
      /\ v.value \in SUBSET Places /\ w.value \in SUBSET Places
      /\ \A p \in Procs : v.clock[p] \in Nat /\ w.clock[p] \in Nat
  BY DEF Versions, Vectors
<1> DEFINE le == \A p \in Procs : v.clock[p] <= w.clock[p]
           ge == \A p \in Procs : v.clock[p] >= w.clock[p]
<1>2. Compare(v.clock, w.clock) =
        CASE le /\ ge -> "Equal" [] le /\ ~ ge -> "Before"
          [] ~ le /\ ge -> "After" [] ~ le /\ ~ ge -> "Concurrent"
  BY <1>1 DEF Compare
<1>3. CASE ge
  <2>1. Compare(v.clock, w.clock) \in {"After", "Equal"}
    BY <1>2, <1>3
  <2>2. Resolved(v, w) = v
    BY <2>1 DEF Resolved
  <2>3. \A p \in Procs : w.clock[p] <= v.clock[p]
    BY <1>1, <1>3
  <2>4. Counted(w.clock) \subseteq Counted(v.clock)
    BY <1>1, <2>3, CountedOrder
  <2> QED
    BY <2>2, <2>4
<1>4. CASE le /\ ~ ge
  <2>1. Compare(v.clock, w.clock) = "Before"
    BY <1>2, <1>4
  <2>2. Resolved(v, w) = w
    BY <2>1 DEF Resolved
  <2>3. Counted(v.clock) \subseteq Counted(w.clock)
    BY <1>1, <1>4, CountedOrder
  <2> QED
    BY <2>2, <2>3
<1>5. CASE ~ le /\ ~ ge
  <2>1. Compare(v.clock, w.clock) = "Concurrent"
    BY <1>2, <1>5
  <2>2. Resolved(v, w) = [clock |-> Merge(v.clock, w.clock), value |-> v.value \cup w.value]
    BY <2>1 DEF Resolved, MergeConcurrent, Join
  <2> QED
    BY <1>1, <2>2, CountedMerge DEF Versions
<1> QED
  BY <1>3, <1>4, <1>5

-----------------------------------------------------------------------------
Ids(S) == {m.id : m \in S}

\* The writes of ids with all that came before them, and those of ids that nothing of
\* ids came after, among the messages S.
Causes(S, ids) == ids \cup UNION {m.past : m \in {n \in S : n.id \in ids}}
Tops(S, ids)   == {id \in ids : \A m \in S : m.id \in ids => id \notin m.past}

\* Of every write there is one message.
Single(S) == \A m, n \in S : m.id = n.id => m = n

\* One message more.
Extends(S, T, new) == T = S \cup {new} /\ new.id \notin Ids(S)

LEMMA CausesStay ==
  ASSUME NEW S, NEW T, NEW new, Extends(S, T, new), NEW ids, ids \subseteq Ids(S)
  PROVE  Causes(T, ids) = Causes(S, ids)
<1>1. T = S \cup {new} /\ new.id \notin Ids(S)
  BY DEF Extends
<1>2. {n \in T : n.id \in ids} = {n \in S : n.id \in ids}
  BY <1>1
<1> QED
  BY <1>2 DEF Causes

LEMMA TopsStay ==
  ASSUME NEW S, NEW T, NEW new, Extends(S, T, new), NEW ids, ids \subseteq Ids(S)
  PROVE  Tops(T, ids) = Tops(S, ids)
<1>1. T = S \cup {new} /\ new.id \notin Ids(S)
  BY DEF Extends
<1> QED
  BY <1>1 DEF Tops

LEMMA CausesGrow ==
  ASSUME NEW S, NEW T, NEW new, Extends(S, T, new), NEW ids, ids \subseteq Ids(S)
  PROVE  Causes(T, ids \cup {new.id}) = Causes(S, ids) \cup {new.id} \cup new.past
<1>1. T = S \cup {new} /\ new.id \notin Ids(S)
  BY DEF Extends
<1>2. {n \in T : n.id \in ids \cup {new.id}} = {n \in S : n.id \in ids} \cup {new}
  BY <1>1 DEF Ids
<1> QED
  BY <1>2 DEF Causes

LEMMA CausesTake ==
  ASSUME NEW S, Single(S), NEW m \in S, NEW ids
  PROVE  Causes(S, ids \cup {m.id}) = Causes(S, ids) \cup {m.id} \cup m.past
<1>1. {n \in S : n.id \in ids \cup {m.id}} = {n \in S : n.id \in ids} \cup {m}
  BY DEF Single
<1> QED
  BY <1>1 DEF Causes

Orderly(S, m) ==
  /\ m.past \subseteq Ids(S) /\ m.id \notin m.past
  /\ \A n \in S : n.id \in m.past => n.past \subseteq m.past /\ n.pos < m.pos

\* With the causes of orderly messages come the causes of the causes.
LEMMA CausesAreClosed ==
  ASSUME NEW S, Single(S), \A m \in S : Orderly(S, m), NEW ids \in SUBSET Ids(S)
  PROVE  /\ Causes(S, ids) \subseteq Ids(S)
         /\ \A n \in S : n.id \in Causes(S, ids) => n.past \subseteq Causes(S, ids)
<1>1. \A m \in S : m.past \subseteq Ids(S)
  BY DEF Orderly
<1>2. Causes(S, ids) \subseteq Ids(S)
  BY <1>1 DEF Causes
<1>3. ASSUME NEW n \in S, n.id \in Causes(S, ids) PROVE n.past \subseteq Causes(S, ids)
  <2>1. CASE n.id \in ids
    BY <2>1 DEF Causes
  <2>2. CASE n.id \notin ids
    <3>1. PICK m \in S : m.id \in ids /\ n.id \in m.past
      BY <1>3, <2>2 DEF Causes
    <3>2. n.past \subseteq m.past
      BY <3>1 DEF Orderly
    <3>3. m.past \subseteq Causes(S, ids)
      BY <3>1 DEF Causes
    <3> QED
      BY <3>2, <3>3
  <2> QED
    BY <2>1, <2>2
<1> QED
  BY <1>2, <1>3

\* Of some messages one comes last.
LEMMA LastMessage ==
  ASSUME NEW S, \A m \in S : m.pos \in Nat, NEW N \in Nat, \A m \in S : m.pos < N, S # {}
  PROVE  \E m \in S : \A n \in S : n.pos <= m.pos
<1> DEFINE T == {N - m.pos : m \in S}
<1>1. T \in SUBSET Nat /\ T # {}
  OBVIOUS
<1>2. PICK x \in T : \A y \in T : x <= y
  BY <1>1, LeastMember
<1>3. PICK m \in S : x = N - m.pos
  OBVIOUS
<1>4. ASSUME NEW n \in S PROVE n.pos <= m.pos
  <2>1. N - n.pos \in T
    OBVIOUS
  <2>2. N - m.pos <= N - n.pos
    BY <1>2, <1>3, <2>1
  <2>3. m.pos \in Nat /\ n.pos \in Nat
    OBVIOUS
  <2> QED
    BY <2>2, <2>3
<1> QED
  BY <1>4

\* Msg::new and Join::new (causal.rs:131-168): a message that declares the latest
\* causes only stands for all that it knows.
LEMMA TopsStandForAll ==
  ASSUME NEW S, \A m \in S : m.pos \in Nat, NEW N \in Nat, \A m \in S : m.pos < N,
         \A m \in S : Orderly(S, m), NEW ids \in SUBSET Ids(S),
         \A n \in S : n.id \in ids => n.past \subseteq ids
  PROVE  ids \subseteq Causes(S, Tops(S, ids))
<1> SUFFICES ASSUME NEW w \in ids, w \notin Tops(S, ids) PROVE w \in Causes(S, Tops(S, ids))
  BY DEF Causes
<1> DEFINE After == {m \in S : m.id \in ids /\ w \in m.past}
<1>1. After # {}
  BY DEF Tops
<1>2. PICK m \in After : \A n \in After : n.pos <= m.pos
  <2>1. (\A n \in After : n.pos \in Nat) /\ (\A n \in After : n.pos < N)
    OBVIOUS
  <2> HIDE DEF After
  <2> QED
    BY <1>1, <2>1, LastMessage
<1>3. ASSUME NEW n \in S, n.id \in ids, m.id \in n.past PROVE FALSE
  <2>1. m \in S /\ w \in m.past /\ m.past \subseteq n.past /\ m.pos < n.pos
    BY <1>3 DEF Orderly
  <2>2. n \in After
    BY <1>3, <2>1
  <2>3. n.pos <= m.pos /\ n.pos \in Nat /\ m.pos \in Nat
    BY <1>2, <2>2
  <2> QED
    BY <2>1, <2>3
<1>4. m.id \in Tops(S, ids)
  BY <1>3 DEF Tops
<1> QED
  BY <1>4 DEF Causes

-----------------------------------------------------------------------------
Messages ==
  [id : Places, clock : Vectors, value : SUBSET Places, counts : Vectors,
   preds : SUBSET Places, pos : Nat, past : SUBSET Places]

ReplicaTypeOK ==
  /\ order \in Orders /\ program \in {Pipeline(ops) : ops \in Programs}
  /\ sent \in SUBSET Messages /\ IsFiniteSet(sent)
  /\ delivered \in [Procs -> SUBSET Places]
  /\ latest \in [Procs -> Versions] /\ version \in [Procs -> Versions]
  /\ counter \in [Procs -> Vectors]

\* Values only grow.
Gathering == CoordinationFree(program)

Positioned ==
  /\ Single(sent)
  /\ \A m \in sent : m.pos < Cardinality(sent)
  /\ \A m, n \in sent : m.pos = n.pos => m = n

Numbered ==
  \A p \in Procs : IsFiniteSet(Own(p)) /\ Own(p) = {p} \X (1 .. Cardinality(Own(p)))

\* What a message says of the writes before it is true.
Truthful(m) ==
  /\ Orderly(sent, m)
  /\ m.past \cup {m.id} = Counted(m.clock) /\ m.counts = m.clock
  /\ m.preds = Tops(sent, m.past)
  /\ m.id \in m.value /\ m.value \subseteq m.past \cup {m.id}
  /\ Gathering => m.value = m.past \cup {m.id}

Knows(p) == Causes(sent, delivered[p])

\* What a replica knows of, its clock counts and its version holds.
Informed(p) ==
  /\ delivered[p] \subseteq Ids(sent)
  /\ Own(p) \cup Knows(p) = Counted(latest[p].clock) /\ counter[p] = latest[p].clock
  /\ latest[p].value \subseteq Own(p) \cup Knows(p)
  /\ Gathering => latest[p].value = Own(p) \cup Knows(p)
  /\ \A m \in sent : m.id[1] = p => m.past \subseteq Own(p) \cup Knows(p)
  /\ Knows(p) = Counted(version[p].clock)
  /\ Tops(sent, Knows(p)) \subseteq version[p].value /\ version[p].value \subseteq Knows(p)
  /\ Gathering => version[p].value = Knows(p)
  /\ order # "total" => Own(p) \subseteq delivered[p]
  /\ order \in {"causal", "total"} => Knows(p) = delivered[p]

\* Under a total order what has been delivered is a prefix of it.
Prefixed(p) ==
  /\ Cardinality(delivered[p]) <= Cardinality(sent)
  /\ delivered[p] = Ids({m \in sent : m.pos < Cardinality(delivered[p])})

Received(m) == [clock |-> m.clock, value |-> m.value]

\* The versions there are under a total order, by the number of deliveries.
Replays(f) ==
  /\ \A p \in Procs : version[p] = f[Cardinality(delivered[p])]
  /\ \A m \in sent : f[m.pos + 1] = Resolved(f[m.pos], Received(m))

Grounded ==
  /\ ReplicaTypeOK /\ Positioned /\ Numbered
  /\ \A m \in sent : Truthful(m)
  /\ \A p \in Procs : Informed(p)

ReplicaInv ==
  /\ Grounded
  /\ order = "total" => (\A p \in Procs : Prefixed(p)) /\ \E f : Replays(f)

LEMMA ReplicasInit == ReplicaInit => ReplicaInv
<1> SUFFICES ASSUME ReplicaInit PROVE ReplicaInv
  OBVIOUS
<1> DEFINE zero == [p \in Procs |-> 0]
           blank == [clock |-> zero, value |-> {}]
<1>1. /\ sent = {} /\ delivered = [p \in Procs |-> {}]
      /\ latest = [p \in Procs |-> blank] /\ counter = [p \in Procs |-> zero]
      /\ version = [p \in Procs |-> blank]
      /\ order \in Orders /\ program \in {Pipeline(ops) : ops \in Programs}
  BY DEF ReplicaInit, Zero, NewCounter
<1>2. zero \in Vectors /\ blank \in Versions /\ Counted(zero) = {}
  BY DEF Vectors, Versions, Counted, Places
<1>3. /\ IsFiniteSet({}) /\ Cardinality({}) = 0 /\ 1 .. 0 = {}
      /\ \A p \in Procs : Own(p) = {} /\ Knows(p) = {} /\ delivered[p] = {}
  BY <1>1, FS_EmptySet DEF Own, Knows, Causes
<1>4. ReplicaTypeOK
  BY <1>1, <1>2, <1>3 DEF ReplicaTypeOK
<1>5. Positioned /\ Numbered /\ \A m \in sent : Truthful(m)
  BY <1>1, <1>3 DEF Positioned, Numbered, Single
<1>6. ASSUME NEW p \in Procs PROVE Informed(p)
  BY <1>1, <1>2, <1>3 DEF Informed, Tops
<1>7. ASSUME NEW p \in Procs PROVE Prefixed(p)
  BY <1>1, <1>3 DEF Prefixed, Ids
<1>8. \E f : Replays(f)
  <2> DEFINE f == [n \in Nat |-> blank]
  <2>1. f[0] = blank
    OBVIOUS
  <2> HIDE DEF f
  <2>2. Replays(f)
    BY <1>1, <1>3, <2>1 DEF Replays
  <2> QED
    BY <2>2
<1> QED
  BY <1>4, <1>5, <1>6, <1>7, <1>8 DEF ReplicaInv, Grounded

\* On messages that are orderly, the operators of Replicas are those above.
LEMMA ClosedIsCauses ==
  ASSUME Positioned, NEW ids \in SUBSET Ids(sent)
  PROVE  Closed(ids) = Causes(sent, ids) /\ Heads(ids) = Tops(sent, ids)
<1>1. ASSUME NEW m \in sent PROVE Message(m.id) = m
  BY DEF Message, Positioned, Single
<1>2. ASSUME NEW w \in ids PROVE \E m \in sent : m.id = w /\ Message(w) = m
  BY <1>1 DEF Ids
<1>3. {Message(w).past : w \in ids} = {m.past : m \in {n \in sent : n.id \in ids}}
  BY <1>1, <1>2
<1>4. Closed(ids) = Causes(sent, ids)
  BY <1>3 DEF Closed, Causes
<1>5. ASSUME NEW w \in ids
      PROVE  (\A other \in ids : w \notin Message(other).past)
               <=> (\A m \in sent : m.id \in ids => w \notin m.past)
  BY <1>1, <1>2
<1> QED
  BY <1>4, <1>5 DEF Heads, Tops

\* A program that may be deployed without a coordinator has no step that replaces.
LEMMA FreeProgramsInsert ==
  ASSUME ReplicaTypeOK, CoordinationFree(program), NEW before, NEW id
  PROVE  Written(before, id) = before \cup {id}
<1> DEFINE names == {"insert", "overwrite"}
<1>1. PICK ops \in Programs : program = Pipeline(ops)
  BY DEF ReplicaTypeOK
<1>2. Insert \in LeveledOps(names) /\ Overwrite \in LeveledOps(names)
  BY DEF Insert, Overwrite, Monotone, Coordinated, LeveledOps
<1>3. ops \in Seq({Insert, Overwrite}) /\ ops \in Seq(LeveledOps(names))
  BY <1>1, <1>2, ReplicasAssumption
<1>4. /\ \A i \in 1 .. Len(ops) : ops[i].level = "Free" /\ program.steps[i] = ops[i].name
      /\ program.steps \in Seq(names) /\ Len(program.steps) = Len(ops)
  BY <1>1, <1>3, OneCoordinatedStepIsEnough
<1>5. DOMAIN program.steps = 1 .. Len(ops)
  BY <1>4, LenProperties
<1>6. ASSUME NEW i \in 1 .. Len(ops) PROVE program.steps[i] # Overwrite.name
  <2>1. ops[i] \in {Insert, Overwrite} /\ ops[i].level = "Free" /\ program.steps[i] = ops[i].name
    BY <1>3, <1>4, ElementOfSeq
  <2> QED
    BY <2>1 DEF Insert, Overwrite, Monotone, Coordinated
<1> QED
  BY <1>5, <1>6 DEF Written

\* The number of a write that a replica makes is the next of its clock.
LEMMA OwnNumber ==
  ASSUME Grounded, NEW p \in Procs
  PROVE  /\ latest[p].clock[p] = Cardinality(Own(p)) /\ Cardinality(Own(p)) \in Nat
         /\ \A w \in Ids(sent) : w[1] = p => w \in Own(p)
         /\ <<p, Cardinality(Own(p)) + 1>> \in Places \ Ids(sent)
<1> DEFINE k == Cardinality(Own(p))
           c == latest[p].clock
<1>1. /\ k \in Nat /\ IsFiniteSet(Own(p)) /\ Own(p) = {p} \X (1 .. k)
      /\ c[p] \in Nat /\ Own(p) \cup Knows(p) = Counted(c)
      /\ delivered[p] \in SUBSET Ids(sent) /\ sent \in SUBSET Messages
      /\ Single(sent) /\ \A m \in sent : Orderly(sent, m)
  BY FS_CardinalityType
     DEF Grounded, Numbered, ReplicaTypeOK, Versions, Vectors, Informed, Positioned, Truthful
<1>2. \A w \in Ids(sent) : w[1] = p => w \in Own(p)
  BY DEF Ids, Own
<1>3. Knows(p) \subseteq Ids(sent)
  BY <1>1, CausesAreClosed DEF Knows
<1>4. \A n \in Nat \ {0} : <<p, n>> \in Counted(c) <=> <<p, n>> \in Own(p)
  BY <1>1, <1>2, <1>3
<1>5. \A n \in Nat \ {0} : <<p, n>> \in Own(p) <=> n <= k
  BY <1>1
<1>6. \A n \in Nat \ {0} : <<p, n>> \in Counted(c) <=> n <= c[p]
  BY DEF Counted, Places
<1>7. \A n \in Nat \ {0} : n <= c[p] <=> n <= k
  BY <1>4, <1>5, <1>6
<1>8. c[p] = k
  <2>1. CASE c[p] < k
    <3>1. k \in Nat \ {0}
      BY <1>1, <2>1
    <3> QED
      BY <1>1, <1>7, <2>1, <3>1
  <2>2. CASE k < c[p]
    <3>1. c[p] \in Nat \ {0}
      BY <1>1, <2>2
    <3> QED
      BY <1>1, <1>7, <2>2, <3>1
  <2> QED
    BY <1>1, <2>1, <2>2
<1>9. <<p, k + 1>> \in Places /\ <<p, k + 1>> \notin Ids(sent)
  <2>1. k + 1 \in Nat \ {0} /\ ~ (k + 1 <= k)
    BY <1>1
  <2>2. <<p, k + 1>> \notin Own(p)
    BY <1>5, <2>1
  <2> QED
    BY <1>2, <2>1, <2>2 DEF Places
<1> QED
  BY <1>1, <1>2, <1>8, <1>9

\* The message of a write by p, in the state it is written in.
New(p) ==
  LET id   == <<p, Cardinality(Own(p)) + 1>>
      past == Own(p) \cup Knows(p)
      ticked == Tick(latest[p].clock, p)
  IN  [id |-> id, clock |-> ticked, value |-> Written(latest[p].value, id), counts |-> ticked,
       preds |-> Tops(sent, past), pos |-> Cardinality(sent), past |-> past]

\* What is known of p's own writes, before they are delivered, is known.
LEMMA PastOfWrite ==
  ASSUME Grounded, NEW p \in Procs
  PROVE  /\ Own(p) \cup Knows(p) \in SUBSET Ids(sent)
         /\ Closed(delivered[p] \cup Own(p)) = Own(p) \cup Knows(p)
         /\ Heads(Own(p) \cup Knows(p)) = Tops(sent, Own(p) \cup Knows(p))
         /\ \A n \in sent : n.id \in Own(p) \cup Knows(p) => n.past \subseteq Own(p) \cup Knows(p)
<1> DEFINE ids == delivered[p] \cup Own(p)
<1>1. /\ Positioned /\ Single(sent) /\ \A m \in sent : Orderly(sent, m)
      /\ delivered[p] \in SUBSET Ids(sent)
      /\ \A m \in sent : m.id[1] = p => m.past \subseteq Own(p) \cup Knows(p)
  BY DEF Grounded, Positioned, Truthful, Informed
<1>2. Own(p) \in SUBSET Ids(sent) /\ \A m \in sent : m.id \in Own(p) => m.id[1] = p
  BY DEF Own, Ids
<1>3. ids \in SUBSET Ids(sent)
  BY <1>1, <1>2
<1>4. Causes(sent, ids) = Own(p) \cup Knows(p)
  <2>1. Own(p) \cup Knows(p) \subseteq Causes(sent, ids)
    BY DEF Knows, Causes
  <2>2. ASSUME NEW m \in sent, m.id \in ids PROVE m.past \subseteq Own(p) \cup Knows(p)
    <3>1. CASE m.id \in Own(p)
      BY <1>1, <1>2, <3>1
    <3>2. CASE m.id \in delivered[p]
      BY <3>2 DEF Knows, Causes
    <3> QED
      BY <2>2, <3>1, <3>2
  <2>3. ids \subseteq Own(p) \cup Knows(p)
    BY DEF Knows, Causes
  <2>4. Causes(sent, ids) \subseteq Own(p) \cup Knows(p)
    BY <2>2, <2>3 DEF Causes
  <2> QED
    BY <2>1, <2>4
<1> HIDE DEF ids
<1>5. /\ Causes(sent, ids) \subseteq Ids(sent)
      /\ \A n \in sent : n.id \in Causes(sent, ids) => n.past \subseteq Causes(sent, ids)
  BY <1>1, <1>3, CausesAreClosed
<1>6. Closed(ids) = Causes(sent, ids)
  BY <1>1, <1>3, ClosedIsCauses
<1>7. Heads(Causes(sent, ids)) = Tops(sent, Causes(sent, ids))
  BY <1>1, <1>5, ClosedIsCauses
<1> QED
  BY <1>4, <1>5, <1>6, <1>7 DEF ids

LEMMA WriteStep ==
  ASSUME Grounded, NEW p \in Procs, Write(p)
  PROVE  /\ sent' = sent \cup {New(p)}
         /\ latest' = [latest EXCEPT ![p] = Received(New(p))]
         /\ counter' = [counter EXCEPT ![p] = New(p).clock]
         /\ order' = order /\ program' = program
         /\ \/ order = "total" /\ delivered' = delivered /\ version' = version
            \/ /\ order # "total"
               /\ delivered' = [delivered EXCEPT ![p] = @ \cup {New(p).id}]
               /\ version' = [version EXCEPT ![p] = Received(New(p))]
<1>1. /\ Closed(delivered[p] \cup Own(p)) = Own(p) \cup Knows(p)
      /\ Heads(Own(p) \cup Knows(p)) = Tops(sent, Own(p) \cup Knows(p))
  BY PastOfWrite
<1>2. /\ counter[p] = latest[p].clock /\ latest[p].clock \in Vectors
  BY DEF Grounded, Informed, ReplicaTypeOK, Versions
<1>3. Increment(counter[p], p) = Tick(latest[p].clock, p)
  BY <1>2, CountedTick
<1> QED
  BY <1>1, <1>3 DEF Write, Basis, New, Assign, Received

LEMMA NewFacts ==
  ASSUME Grounded, NEW p \in Procs
  PROVE  /\ New(p) \in Messages /\ New(p).id \notin Ids(sent) /\ New(p).id[1] = p
         /\ New(p).id = <<p, Cardinality(Own(p)) + 1>> /\ New(p).pos = Cardinality(sent)
         /\ New(p).past = Own(p) \cup Knows(p) /\ New(p).past \subseteq Ids(sent)
         /\ New(p).clock \in Vectors /\ New(p).counts = New(p).clock
         /\ New(p).past \cup {New(p).id} = Counted(New(p).clock)
         /\ New(p).preds = Tops(sent, New(p).past)
         /\ New(p).id \in New(p).value /\ New(p).value \subseteq New(p).past \cup {New(p).id}
         /\ Gathering => New(p).value = New(p).past \cup {New(p).id}
<1> DEFINE id == <<p, Cardinality(Own(p)) + 1>>
           past == Own(p) \cup Knows(p)
           ticked == Tick(latest[p].clock, p)
           written == Written(latest[p].value, id)
<1>1. /\ id \in Places /\ id \notin Ids(sent) /\ id[1] = p
      /\ latest[p].clock[p] = Cardinality(Own(p))
  BY OwnNumber
<1>2. past \subseteq Ids(sent)
  BY PastOfWrite
<1>3. /\ latest[p].clock \in Vectors /\ past = Counted(latest[p].clock)
      /\ latest[p].value \subseteq past
      /\ Gathering => latest[p].value = past
      /\ sent \in SUBSET Messages /\ IsFiniteSet(sent) /\ ReplicaTypeOK
  BY DEF Grounded, Informed, ReplicaTypeOK, Versions
<1>4. ticked \in Vectors /\ Counted(ticked) = past \cup {id}
  BY <1>1, <1>3, CountedTick
<1>5. id \in written /\ written \subseteq past \cup {id}
  BY <1>3 DEF Written
<1>6. Gathering => written = past \cup {id}
  BY <1>3, FreeProgramsInsert DEF Gathering
<1>7. Ids(sent) \subseteq Places
  BY <1>3 DEF Messages, Ids
<1>8. past \in SUBSET Places /\ written \in SUBSET Places /\ Tops(sent, past) \in SUBSET Places
  BY <1>1, <1>2, <1>5, <1>7 DEF Tops
<1>9. Cardinality(sent) \in Nat
  BY <1>3, FS_CardinalityType
<1>10. New(p) = [id |-> id, clock |-> ticked, value |-> written, counts |-> ticked,
                 preds |-> Tops(sent, past), pos |-> Cardinality(sent), past |-> past]
  BY DEF New
<1> HIDE DEF id, past, ticked, written
<1>11. New(p) \in Messages
  BY <1>1, <1>4, <1>8, <1>9, <1>10 DEF Messages
<1> QED
  BY <1>1, <1>2, <1>4, <1>5, <1>6, <1>10, <1>11 DEF id, past, ticked, written

LEMMA WriteKeepsMessages ==
  ASSUME Grounded, NEW p \in Procs, Write(p)
  PROVE  /\ ReplicaTypeOK' /\ Positioned' /\ Numbered' /\ (\A m \in sent : Truthful(m))'
         /\ Own(p)' = Own(p) \cup {New(p).id} /\ \A q \in Procs \ {p} : Own(q)' = Own(q)
         /\ Cardinality(sent') = Cardinality(sent) + 1
<1> DEFINE k == Cardinality(Own(p))
<1>0. PICK new : new = New(p)
  OBVIOUS
<1>1. /\ sent' = sent \cup {new} /\ order' = order /\ program' = program
      /\ latest' = [latest EXCEPT ![p] = Received(new)]
      /\ counter' = [counter EXCEPT ![p] = new.clock]
      /\ \/ order = "total" /\ delivered' = delivered /\ version' = version
         \/ /\ order # "total"
            /\ delivered' = [delivered EXCEPT ![p] = @ \cup {new.id}]
            /\ version' = [version EXCEPT ![p] = Received(new)]
  BY <1>0, WriteStep
<1>2. /\ new \in Messages /\ new.id \notin Ids(sent) /\ new.id[1] = p /\ new.id = <<p, k + 1>>
      /\ new.pos = Cardinality(sent) /\ new.past = Own(p) \cup Knows(p)
      /\ new.past \subseteq Ids(sent) /\ new.clock \in Vectors /\ new.counts = new.clock
      /\ new.past \cup {new.id} = Counted(new.clock) /\ new.preds = Tops(sent, new.past)
      /\ new.id \in new.value /\ new.value \subseteq new.past \cup {new.id}
      /\ Gathering => new.value = new.past \cup {new.id}
  BY <1>0, NewFacts
<1>3. /\ ReplicaTypeOK /\ Positioned /\ Numbered /\ \A m \in sent : Truthful(m)
      /\ \A q \in Procs : Informed(q)
  BY DEF Grounded
<1>4. new \notin sent /\ Cardinality(sent') = Cardinality(sent) + 1 /\ IsFiniteSet(sent')
      /\ Cardinality(sent) \in Nat
  BY <1>1, <1>2, <1>3, FS_AddElement, FS_CardinalityType DEF Ids, ReplicaTypeOK
<1>5. ReplicaTypeOK'
  <2>1. Received(new) \in Versions /\ new.id \in Places
    BY <1>2 DEF Messages, Received, Versions
  <2> QED
    BY <1>1, <1>2, <1>3, <1>4, <2>1 DEF ReplicaTypeOK
<1>6. Positioned'
  <2>1. \A m \in sent : m.pos \in Nat /\ m.pos < Cardinality(sent) /\ m.id \in Ids(sent)
    BY <1>3 DEF Positioned, ReplicaTypeOK, Messages, Ids
  <2>2. \A m \in sent : m.pos # new.pos /\ m.id # new.id
    BY <1>2, <1>4, <2>1
  <2>3. Single(sent')
    BY <1>1, <1>3, <2>2 DEF Positioned, Single
  <2>4. \A m, n \in sent' : m.pos = n.pos => m = n
    BY <1>1, <1>3, <2>2 DEF Positioned
  <2>5. \A m \in sent' : m.pos < Cardinality(sent')
    BY <1>1, <1>2, <1>4, <2>1
  <2> QED
    BY <2>3, <2>4, <2>5 DEF Positioned
<1>7. /\ Own(p)' = Own(p) \cup {new.id} /\ \A q \in Procs \ {p} : Own(q)' = Own(q)
  BY <1>1, <1>2 DEF Own
<1>8. Numbered'
  <2>1. IsFiniteSet(Own(p)) /\ Own(p) = {p} \X (1 .. k) /\ k \in Nat /\ new.id \notin Own(p)
    BY <1>2, <1>3, FS_CardinalityType DEF Numbered, Own, Ids
  <2>2. IsFiniteSet(Own(p)') /\ Cardinality(Own(p)') = k + 1
    <3>1. /\ IsFiniteSet(Own(p) \cup {new.id})
          /\ Cardinality(Own(p) \cup {new.id}) = Cardinality(Own(p)) + 1
      BY <2>1, FS_AddElement
    <3> QED
      BY <1>7, <3>1
  <2>3. Own(p)' = {p} \X (1 .. (k + 1))
    <3>1. 1 .. (k + 1) = (1 .. k) \cup {k + 1}
      BY <2>1
    <3> QED
      BY <1>2, <1>7, <2>1, <3>1
  <2>4. \A q \in Procs \ {p} : IsFiniteSet(Own(q)') /\ Own(q)' = {q} \X (1 .. Cardinality(Own(q)'))
    BY <1>3, <1>7 DEF Numbered
  <2> QED
    BY <2>2, <2>3, <2>4 DEF Numbered
<1>9. ASSUME NEW m \in sent PROVE Truthful(m)'
  <2>1. Truthful(m) /\ m.past \in SUBSET Ids(sent)
    BY <1>3 DEF Truthful, Orderly
  <2>2. Tops(sent', m.past) = Tops(sent, m.past)
    <3>1. new.id \notin Ids(sent) /\ m.past \subseteq Ids(sent)
      BY <1>2, <2>1
    <3>2. Extends(sent, sent', new)
      BY <1>1, <3>1 DEF Extends
    <3> QED
      BY <3>1, <3>2, TopsStay
  <2>3. Orderly(sent', m)
    BY <1>1, <1>2, <2>1 DEF Truthful, Orderly, Ids
  <2> QED
    BY <1>1, <2>1, <2>2, <2>3 DEF Truthful, Gathering
<1>10. Truthful(new)'
  <2>1. Tops(sent', new.past) = Tops(sent, new.past)
    <3>1. new.id \notin Ids(sent) /\ new.past \subseteq Ids(sent)
      BY <1>2
    <3>2. Extends(sent, sent', new)
      BY <1>1, <3>1 DEF Extends
    <3> QED
      BY <3>1, <3>2, TopsStay
  <2>2. Orderly(sent', new)
    <3>1. \A n \in sent : n.id \in new.past => n.past \subseteq new.past
      BY <1>2, PastOfWrite
    <3>2. new.id \notin new.past /\ new.past \subseteq Ids(sent')
      BY <1>1, <1>2 DEF Ids
    <3>3. \A n \in sent : n.pos < new.pos
      BY <1>2, <1>3 DEF Positioned
    <3> QED
      BY <1>1, <3>1, <3>2, <3>3 DEF Orderly
  <2>3. Gathering' <=> Gathering
    BY <1>1 DEF Gathering
  <2> QED
    BY <1>2, <2>1, <2>2, <2>3 DEF Truthful
<1> QED
  BY <1>0, <1>1, <1>4, <1>5, <1>6, <1>7, <1>8, <1>9, <1>10

LEMMA WriteKeepsReplicas ==
  ASSUME Grounded, NEW p \in Procs, Write(p), NEW q \in Procs
  PROVE  Informed(q)'
<1>0. PICK new : new = New(p)
  OBVIOUS
<1>1. /\ sent' = sent \cup {new} /\ order' = order /\ program' = program
      /\ latest' = [latest EXCEPT ![p] = Received(new)]
      /\ counter' = [counter EXCEPT ![p] = new.clock]
      /\ \/ order = "total" /\ delivered' = delivered /\ version' = version
         \/ /\ order # "total"
            /\ delivered' = [delivered EXCEPT ![p] = @ \cup {new.id}]
            /\ version' = [version EXCEPT ![p] = Received(new)]
  BY <1>0, WriteStep
<1>2. /\ new.id \notin Ids(sent) /\ new.id[1] = p /\ new.past = Own(p) \cup Knows(p)
      /\ new.past \subseteq Ids(sent) /\ new.past \cup {new.id} = Counted(new.clock)
      /\ new.id \in new.value /\ new.value \subseteq new.past \cup {new.id}
      /\ Gathering => new.value = new.past \cup {new.id}
  BY <1>0, NewFacts
<1>3. Own(p)' = Own(p) \cup {new.id} /\ \A r \in Procs \ {p} : Own(r)' = Own(r)
  BY <1>0, WriteKeepsMessages
<1>4. /\ Informed(p) /\ Informed(q) /\ ReplicaTypeOK
      /\ delivered[p] \in SUBSET Ids(sent) /\ delivered[q] \in SUBSET Ids(sent)
      /\ Ids(sent) \subseteq Ids(sent') /\ new.id \in Ids(sent')
  BY <1>1 DEF Grounded, Informed, Ids
<1>5. Gathering' <=> Gathering
  BY <1>1 DEF Gathering
<1>6. Extends(sent, sent', new)
  BY <1>1, <1>2 DEF Extends
<1>7. Knows(p) \subseteq Ids(sent) /\ Knows(q) \subseteq Ids(sent)
  BY <1>4, CausesAreClosed DEF Knows, Grounded, Positioned, Truthful
<1>8. CASE q # p
  <2>1. /\ delivered'[q] = delivered[q] /\ version'[q] = version[q] /\ Own(q)' = Own(q)
        /\ latest'[q] = latest[q] /\ counter'[q] = counter[q]
    BY <1>1, <1>3, <1>8, <1>4 DEF ReplicaTypeOK
  <2>2. Knows(q)' = Knows(q) /\ Tops(sent', Knows(q)) = Tops(sent, Knows(q))
    <3>1. delivered[q] \subseteq Ids(sent)
      BY <1>4
    <3>2. Causes(sent', delivered[q]) = Causes(sent, delivered[q])
      BY <1>6, <3>1, CausesStay
    <3>3. Tops(sent', Knows(q)) = Tops(sent, Knows(q))
      BY <1>6, <1>7, TopsStay
    <3> QED
      BY <2>1, <3>2, <3>3 DEF Knows
  <2>3. \A m \in sent' : m.id[1] = q => m.past \subseteq Own(q) \cup Knows(q)
    BY <1>1, <1>2, <1>4, <1>8 DEF Informed
  <2> QED
    BY <1>1, <1>4, <1>5, <2>1, <2>2, <2>3 DEF Informed
<1>9. CASE q = p /\ order = "total"
  <2>1. /\ delivered' = delivered /\ version' = version /\ counter'[p] = new.clock
        /\ latest'[p].clock = new.clock /\ latest'[p].value = new.value
    BY <1>1, <1>4, <1>9 DEF ReplicaTypeOK, Received
  <2>2. Knows(p)' = Knows(p) /\ Tops(sent', Knows(p)) = Tops(sent, Knows(p))
    <3>1. delivered[p] \subseteq Ids(sent)
      BY <1>4
    <3>2. Causes(sent', delivered[p]) = Causes(sent, delivered[p])
      BY <1>6, <3>1, CausesStay
    <3>3. Tops(sent', Knows(p)) = Tops(sent, Knows(p))
      BY <1>6, <1>7, TopsStay
    <3> QED
      BY <2>1, <3>2, <3>3 DEF Knows
  <2>3. \A m \in sent' : m.id[1] = p => m.past \subseteq Own(p)' \cup Knows(p)
    BY <1>1, <1>2, <1>3, <1>4 DEF Informed
  <2>4. /\ Own(p)' \cup Knows(p) = Counted(new.clock)
        /\ new.value \subseteq Own(p)' \cup Knows(p)
        /\ Gathering => new.value = Own(p)' \cup Knows(p)
    BY <1>2, <1>3
  <2> QED
    BY <1>1, <1>4, <1>5, <1>9, <2>1, <2>2, <2>3, <2>4 DEF Informed
<1>10. CASE q = p /\ order # "total"
  <2>1. /\ delivered'[p] = delivered[p] \cup {new.id} /\ version'[p] = Received(new)
        /\ latest'[p] = Received(new) /\ counter'[p] = new.clock
    BY <1>1, <1>4, <1>10 DEF ReplicaTypeOK
  <2>2. Own(p) \subseteq delivered[p] /\ delivered[p] \subseteq Knows(p) /\ new.past = Knows(p)
    BY <1>2, <1>4, <1>10 DEF Informed, Knows, Causes
  <2>3. Knows(p)' = Knows(p) \cup {new.id}
    <3>1. delivered[p] \subseteq Ids(sent)
      BY <1>4
    <3>2. Causes(sent', delivered[p] \cup {new.id})
            = Causes(sent, delivered[p]) \cup {new.id} \cup new.past
      BY <1>6, <3>1, CausesGrow
    <3> QED
      BY <2>1, <2>2, <3>2 DEF Knows
  <2>4. Tops(sent', Knows(p)') \subseteq {new.id}
    <3>1. new \in sent' /\ new.id \in Knows(p)'
      BY <1>1, <2>3
    <3>2. \A w \in Tops(sent', Knows(p)') : w \in Knows(p)' /\ w \notin new.past
      BY <3>1 DEF Tops
    <3> QED
      BY <2>2, <2>3, <3>2
  <2>5. Gathering => new.value = Knows(p)'
    BY <1>2, <2>2, <2>3
  <2>6. order \in {"causal", "total"} => Knows(p)' = delivered'[p]
    BY <1>4, <2>1, <2>3 DEF Informed
  <2>7. \A m \in sent' : m.id[1] = p => m.past \subseteq Own(p)' \cup Knows(p)'
    BY <1>1, <1>2, <1>3, <1>4, <2>3 DEF Informed
  <2>8. /\ version'[p].clock = new.clock /\ version'[p].value = new.value
        /\ latest'[p].clock = new.clock /\ latest'[p].value = new.value
    BY <2>1 DEF Received
  <2>9. /\ Own(p)' \cup Knows(p)' = Counted(new.clock) /\ Knows(p)' = Counted(new.clock)
        /\ Own(p)' \subseteq delivered'[p] /\ delivered'[p] \subseteq Ids(sent')
        /\ Own(p)' \cup Knows(p)' = Knows(p)'
    BY <1>2, <1>3, <1>4, <2>1, <2>2, <2>3
  <2>10. Tops(sent', Knows(p)') \subseteq new.value /\ new.value \subseteq Knows(p)'
    BY <1>2, <2>2, <2>3, <2>4
  <2> QED
    BY <1>1, <1>5, <1>10, <2>1, <2>5, <2>6, <2>7, <2>8, <2>9, <2>10 DEF Informed
<1> QED
  BY <1>8, <1>9, <1>10

\* What a delivery needs to know: the message is in order where there is one.
LEMMA CausesComeFirst ==
  ASSUME Grounded, order = "total" => \A p \in Procs : Prefixed(p),
         NEW p \in Procs, NEW m \in sent, MayDeliver(p, m), order \in {"causal", "total"}
  PROVE  m.past \subseteq delivered[p]
<1>1. /\ Single(sent) /\ sent \in SUBSET Messages /\ Truthful(m) /\ Orderly(sent, m)
      /\ \A n \in sent : Orderly(sent, n) /\ n.pos < Cardinality(sent) /\ n.pos \in Nat
      /\ Cardinality(sent) \in Nat /\ Knows(p) = delivered[p]
  BY FS_CardinalityType
     DEF Grounded, Positioned, ReplicaTypeOK, Messages, Truthful, Informed
<1>2. CASE order = "causal"
  <2>1. m.preds \subseteq delivered[p] /\ m.preds = Tops(sent, m.past)
    BY <1>1, <1>2 DEF MayDeliver, CausesDelivered, Truthful
  <2>2. m.past \in SUBSET Ids(sent) /\ \A n \in sent : n.id \in m.past => n.past \subseteq m.past
    BY <1>1 DEF Orderly
  <2>3. m.past \subseteq Causes(sent, Tops(sent, m.past))
    BY <1>1, <2>2, TopsStandForAll
  <2>4. Causes(sent, Tops(sent, m.past)) \subseteq Causes(sent, delivered[p])
    BY <2>1 DEF Causes
  <2> QED
    BY <1>1, <2>3, <2>4 DEF Knows
<1>3. CASE order = "total"
  <2>1. m.pos = Cardinality(delivered[p])
    BY <1>3 DEF MayDeliver, AtCursor
  <2>2. delivered[p] = Ids({n \in sent : n.pos < m.pos})
    BY <1>3, <2>1 DEF Prefixed
  <2>3. \A n \in sent : n.id \in m.past => n.pos < m.pos
    BY <1>1 DEF Orderly
  <2> QED
    BY <1>1, <2>2, <2>3 DEF Ids, Orderly
<1> QED
  BY <1>2, <1>3

LEMMA DeliverKeepsMessages ==
  ASSUME Grounded, NEW p \in Procs, NEW m \in sent, Deliver(p, m)
  PROVE  ReplicaTypeOK' /\ Positioned' /\ Numbered' /\ (\A n \in sent : Truthful(n))'
<1>1. /\ sent' = sent /\ order' = order /\ program' = program
      /\ delivered' = [delivered EXCEPT ![p] = @ \cup {m.id}]
      /\ latest' = [latest EXCEPT ![p] = Resolved(latest[p], Received(m))]
      /\ counter' = [counter EXCEPT ![p] = JoinCounts(counter[p], m.counts)]
      /\ version' = [version EXCEPT ![p] = Resolved(version[p], Received(m))]
  BY DEF Deliver, Received
<1>2. /\ ReplicaTypeOK /\ Positioned /\ Numbered /\ \A n \in sent : Truthful(n)
      /\ m.id \in Places /\ m.clock \in Vectors /\ m.counts \in Vectors /\ Received(m) \in Versions
      /\ latest[p] \in Versions /\ counter[p] \in Vectors /\ version[p] \in Versions
  BY DEF Grounded, ReplicaTypeOK, Messages, Received, Versions
<1>3. /\ JoinCounts(counter[p], m.counts) \in Vectors
      /\ Resolved(latest[p], Received(m)) \in Versions
      /\ Resolved(version[p], Received(m)) \in Versions
  BY <1>2, CountedMerge, ResolvedCounts
<1>4. ReplicaTypeOK'
  BY <1>1, <1>2, <1>3 DEF ReplicaTypeOK
<1>5. Positioned' /\ Numbered'
  BY <1>1, <1>2 DEF Positioned, Numbered, Own
<1>6. ASSUME NEW n \in sent PROVE Truthful(n)'
  BY <1>1, <1>2 DEF Truthful, Gathering
<1> QED
  BY <1>1, <1>4, <1>5, <1>6

LEMMA DeliverKeepsReplicas ==
  ASSUME Grounded, order = "total" => \A p \in Procs : Prefixed(p),
         NEW p \in Procs, NEW m \in sent, Deliver(p, m), NEW q \in Procs
  PROVE  Informed(q)'
<1>1. /\ sent' = sent /\ order' = order /\ program' = program
      /\ delivered' = [delivered EXCEPT ![p] = @ \cup {m.id}]
      /\ latest' = [latest EXCEPT ![p] = Resolved(latest[p], Received(m))]
      /\ counter' = [counter EXCEPT ![p] = JoinCounts(counter[p], m.counts)]
      /\ version' = [version EXCEPT ![p] = Resolved(version[p], Received(m))]
      /\ MayDeliver(p, m)
  BY DEF Deliver, Received
<1>2. /\ ReplicaTypeOK /\ Single(sent) /\ Truthful(m) /\ Informed(p) /\ Informed(q)
      /\ m.id \in Ids(sent) /\ m.clock \in Vectors /\ Received(m) \in Versions
      /\ latest[p] \in Versions /\ version[p] \in Versions
  BY DEF Grounded, ReplicaTypeOK, Positioned, Messages, Received, Versions, Ids
<1>3. Own(p)' = Own(p) /\ Own(q)' = Own(q) /\ (Gathering' <=> Gathering)
  BY <1>1 DEF Own, Gathering
<1>4. CASE q # p
  <2>1. /\ delivered'[q] = delivered[q] /\ version'[q] = version[q]
        /\ latest'[q] = latest[q] /\ counter'[q] = counter[q]
    BY <1>1, <1>2, <1>4 DEF ReplicaTypeOK
  <2>2. Knows(q)' = Knows(q)
    BY <1>1, <2>1 DEF Knows
  <2> QED
    BY <1>1, <1>2, <1>3, <2>1, <2>2 DEF Informed
<1>5. CASE q = p
  <2> DEFINE learnt == m.past \cup {m.id}
             next == Resolved(version[p], Received(m))
             last == Resolved(latest[p], Received(m))
  <2>1. /\ delivered'[p] = delivered[p] \cup {m.id} /\ version'[p] = next
        /\ latest'[p] = last
        /\ counter'[p] = JoinCounts(counter[p], m.counts)
    BY <1>1, <1>2 DEF ReplicaTypeOK
  <2>2. Knows(p)' = Knows(p) \cup learnt
    BY <1>1, <1>2, <2>1, CausesTake DEF Knows
  <2>3. /\ learnt = Counted(m.clock) /\ m.counts = m.clock /\ counter[p] = latest[p].clock
        /\ m.id \in m.value /\ m.value \subseteq learnt /\ m.id \notin m.past
        /\ Gathering => m.value = learnt
    BY <1>2 DEF Truthful, Informed, Orderly
  <2>4. /\ counter'[p] = last.clock /\ Own(p) \cup Knows(p)' = Counted(last.clock)
        /\ last.value \subseteq Own(p) \cup Knows(p)'
        /\ Gathering => last.value = Own(p) \cup Knows(p)'
    <3>1. /\ Received(m).clock = m.clock /\ Received(m).value = m.value
          /\ latest[p].clock \in Vectors
      BY <1>2 DEF Received, Versions
    <3>2. /\ JoinCounts(latest[p].clock, m.clock) \in Vectors
          /\ Counted(JoinCounts(latest[p].clock, m.clock))
               = Counted(latest[p].clock) \cup Counted(m.clock)
      BY <1>2, <3>1, CountedMerge
    <3>3. /\ last \in Versions
          /\ Counted(last.clock) = Counted(latest[p].clock) \cup Counted(Received(m).clock)
          /\ \/ last = latest[p] /\ Counted(Received(m).clock) \subseteq Counted(latest[p].clock)
             \/ last = Received(m) /\ Counted(latest[p].clock) \subseteq Counted(Received(m).clock)
             \/ last.value = latest[p].value \cup Received(m).value
      BY <1>2, ResolvedCounts
    <3>4. /\ Own(p) \cup Knows(p) = Counted(latest[p].clock)
          /\ latest[p].value \subseteq Own(p) \cup Knows(p)
          /\ Gathering => latest[p].value = Own(p) \cup Knows(p)
      BY <1>2 DEF Informed
    <3>5. Own(p) \cup Knows(p)' = Own(p) \cup Knows(p) \cup learnt
      BY <2>2
    <3> HIDE DEF learnt, last
    <3>6. last.clock \in Vectors
      BY <3>3 DEF Versions
    <3>7. Counted(JoinCounts(latest[p].clock, m.clock)) = Counted(last.clock)
      BY <3>1, <3>2, <3>3
    <3>8. JoinCounts(latest[p].clock, m.clock) = last.clock
      BY <3>2, <3>6, <3>7, CountedOrder
    <3>9. counter'[p] = last.clock
      BY <2>1, <2>3, <3>8
    <3>10. Own(p) \cup Knows(p)' = Counted(last.clock)
      BY <2>3, <3>1, <3>3, <3>4, <3>5
    <3> QED
      BY <2>3, <3>1, <3>3, <3>4, <3>5, <3>9, <3>10
  <2>5. Tops(sent, learnt) \subseteq {m.id}
    BY DEF Tops
  <2>6. /\ Knows(p)' = Counted(next.clock)
        /\ Tops(sent, Knows(p)') \subseteq next.value /\ next.value \subseteq Knows(p)'
        /\ Gathering => next.value = Knows(p)'
    <3>1. /\ Counted(next.clock) = Counted(version[p].clock) \cup Counted(Received(m).clock)
          /\ \/ next = version[p] /\ Counted(Received(m).clock) \subseteq Counted(version[p].clock)
             \/ next = Received(m) /\ Counted(version[p].clock) \subseteq Counted(Received(m).clock)
             \/ next.value = version[p].value \cup Received(m).value
      BY <1>2, ResolvedCounts
    <3>2. /\ Received(m).clock = m.clock /\ Received(m).value = m.value
          /\ Counted(version[p].clock) = Knows(p)
          /\ Tops(sent, Knows(p)) \subseteq version[p].value /\ version[p].value \subseteq Knows(p)
          /\ Gathering => version[p].value = Knows(p)
      BY <1>2 DEF Informed, Received
    <3>3. Knows(p)' = Counted(next.clock)
      BY <2>2, <2>3, <3>1, <3>2
    <3> HIDE DEF learnt, next
    <3>4. CASE next = version[p] /\ Counted(Received(m).clock) \subseteq Counted(version[p].clock)
      <4>1. Knows(p)' = Knows(p)
        BY <2>2, <2>3, <3>2, <3>4
      <4> QED
        BY <3>2, <3>3, <3>4, <4>1
    <3>5. CASE next = Received(m) /\ Counted(version[p].clock) \subseteq Counted(Received(m).clock)
      <4>1. Knows(p)' = learnt
        BY <2>2, <2>3, <3>2, <3>5
      <4> QED
        BY <2>3, <2>5, <3>2, <3>3, <3>5, <4>1
    <3>6. CASE next.value = version[p].value \cup Received(m).value
      <4>1. Tops(sent, Knows(p) \cup learnt) \subseteq Tops(sent, Knows(p)) \cup Tops(sent, learnt)
        BY DEF Tops
      <4> QED
        BY <2>2, <2>3, <2>5, <3>2, <3>3, <3>6, <4>1
    <3> QED
      BY <3>1, <3>4, <3>5, <3>6
  <2>7. order \in {"causal", "total"} => Knows(p)' = delivered'[p]
    BY <1>1, <1>2, <2>1, <2>2, CausesComeFirst DEF Informed
  <2>8. \A n \in sent : n.id[1] = p => n.past \subseteq Own(p) \cup Knows(p)'
    BY <1>2, <2>2 DEF Informed
  <2>9. /\ delivered'[p] \subseteq Ids(sent)
        /\ order # "total" => Own(p) \subseteq delivered'[p]
    BY <1>2, <2>1 DEF Informed
  <2> QED
    BY <1>1, <1>3, <1>5, <2>1, <2>4, <2>6, <2>7, <2>8, <2>9 DEF Informed
<1> QED
  BY <1>4, <1>5

LEMMA DeliveredCount ==
  ASSUME Grounded, NEW p \in Procs
  PROVE  IsFiniteSet(delivered[p]) /\ Cardinality(delivered[p]) \in Nat
<1>1. IsFiniteSet(sent) /\ delivered[p] \subseteq Ids(sent)
  BY DEF Grounded, ReplicaTypeOK, Informed
<1>2. IsFiniteSet(Ids(sent))
  <2> DEFINE f == [m \in sent |-> m.id]
  <2>1. f \in Surjection(sent, Ids(sent))
    BY DEF Surjection, Ids
  <2> QED
    BY <1>1, <2>1, FS_Surjection
<1> QED
  BY <1>1, <1>2, FS_Subset, FS_CardinalityType

LEMMA WriteKeepsOrder ==
  ASSUME ReplicaInv, order = "total", NEW p \in Procs, Write(p)
  PROVE  (\A q \in Procs : Prefixed(q))' /\ \E f : Replays(f)'
<1> DEFINE N == Cardinality(sent)
           At(q) == Cardinality(delivered[q])
<1>0. PICK new : new = New(p)
  OBVIOUS
<1>1. /\ Grounded /\ \A q \in Procs : Prefixed(q)
      /\ \A q \in Procs : At(q) \in Nat /\ At(q) <= N
  BY DeliveredCount DEF ReplicaInv, Prefixed
<1>2. /\ sent' = sent \cup {new} /\ delivered' = delivered /\ version' = version /\ new.pos = N
      /\ Cardinality(sent') = N + 1
  BY <1>0, <1>1, WriteStep, NewFacts, WriteKeepsMessages
<1>3. /\ N \in Nat /\ \A m \in sent : m.pos \in Nat /\ m.pos < N
  BY <1>1, FS_CardinalityType DEF Grounded, ReplicaTypeOK, Messages, Positioned
<1>4. ASSUME NEW q \in Procs PROVE Prefixed(q)'
  <2>1. {m \in sent' : m.pos < At(q)} = {m \in sent : m.pos < At(q)}
    BY <1>1, <1>2, <1>3
  <2>2. At(q) <= Cardinality(sent')
    BY <1>1, <1>2, <1>3
  <2> QED
    BY <1>1, <1>2, <2>1, <2>2 DEF Prefixed
<1>5. PICK f : Replays(f)
  BY DEF ReplicaInv
<1> DEFINE last == Resolved(f[N], Received(new))
<1>6. PICK g : g[N + 1] = last /\ \A n \in 0 .. N : g[n] = f[n]
  <2> DEFINE h == [n \in 0 .. (N + 1) |-> IF n = N + 1 THEN last ELSE f[n]]
  <2>1. h[N + 1] = last /\ \A n \in 0 .. N : h[n] = f[n]
    BY <1>3
  <2> QED
    BY <2>1
<1>7. \A q \in Procs : version'[q] = g[Cardinality(delivered'[q])]
  BY <1>1, <1>2, <1>3, <1>5, <1>6 DEF Replays
<1>8. ASSUME NEW m \in sent PROVE g[m.pos + 1] = Resolved(g[m.pos], Received(m))
  <2>1. m.pos \in 0 .. N /\ m.pos + 1 \in 0 .. N
    BY <1>3
  <2>2. f[m.pos + 1] = Resolved(f[m.pos], Received(m))
    BY <1>5 DEF Replays
  <2> QED
    BY <1>6, <2>1, <2>2
<1>9. g[new.pos + 1] = Resolved(g[new.pos], Received(new))
  <2>1. N \in 0 .. N
    BY <1>3
  <2> QED
    BY <1>2, <1>6, <2>1
<1>10. Replays(g)'
  BY <1>2, <1>7, <1>8, <1>9 DEF Replays
<1> QED
  BY <1>4, <1>10

LEMMA DeliverKeepsOrder ==
  ASSUME ReplicaInv, order = "total", NEW p \in Procs, NEW m \in sent, Deliver(p, m)
  PROVE  (\A q \in Procs : Prefixed(q))' /\ \E f : Replays(f)'
<1> DEFINE k == Cardinality(delivered[p])
<1>1. /\ Grounded /\ \A q \in Procs : Prefixed(q)
      /\ IsFiniteSet(delivered[p]) /\ k \in Nat
      /\ delivered[p] = Ids({n \in sent : n.pos < k})
  BY DeliveredCount DEF ReplicaInv, Prefixed
<1>2. /\ sent' = sent /\ m.pos = k
      /\ delivered' = [delivered EXCEPT ![p] = @ \cup {m.id}]
      /\ version' = [version EXCEPT ![p] = Resolved(version[p], Received(m))]
  BY DEF Deliver, MayDeliver, AtCursor, Received
<1>3. /\ \A n \in sent : n.pos \in Nat /\ n.pos < Cardinality(sent)
      /\ Single(sent) /\ \A n \in sent : n.pos = m.pos => n = m
      /\ DOMAIN delivered = Procs /\ DOMAIN version = Procs /\ Cardinality(sent) \in Nat
  BY <1>1, FS_CardinalityType DEF Grounded, ReplicaTypeOK, Messages, Positioned
<1>4. /\ delivered'[p] = delivered[p] \cup {m.id} /\ version'[p] = Resolved(version[p], Received(m))
      /\ \A q \in Procs \ {p} : delivered'[q] = delivered[q] /\ version'[q] = version[q]
  BY <1>2, <1>3
<1>5. m.id \notin delivered[p]
  <2> SUFFICES ASSUME m.id \in delivered[p] PROVE FALSE
    OBVIOUS
  <2>1. PICK n \in sent : n.id = m.id /\ n.pos < k
    BY <1>1 DEF Ids
  <2>2. n = m
    BY <1>3, <2>1 DEF Single
  <2>3. ~ (k < k)
    BY <1>1
  <2> QED
    BY <1>2, <2>1, <2>2, <2>3
<1>6. Cardinality(delivered'[p]) = k + 1
  BY <1>1, <1>4, <1>5, FS_AddElement
<1>7. Prefixed(p)'
  <2> HIDE DEF k
  <2>0. \A n \in sent : n.pos < k + 1 <=> n.pos < k \/ n = m
    <3>1. \A n \in sent : n.pos \in Nat /\ (n.pos = k <=> n = m)
      BY <1>2, <1>3
    <3>2. \A x \in Nat : x < k + 1 <=> x < k \/ x = k
      BY <1>1
    <3> QED
      BY <3>1, <3>2
  <2>1. {n \in sent : n.pos < k + 1} = {n \in sent : n.pos < k} \cup {m}
    BY <2>0
  <2>2. Ids({n \in sent : n.pos < k + 1}) = delivered[p] \cup {m.id}
    BY <1>1, <2>1 DEF Ids
  <2>3. k + 1 <= Cardinality(sent)
    <3>1. k < Cardinality(sent) /\ Cardinality(sent) \in Nat
      BY <1>2, <1>3
    <3> QED
      BY <1>1, <3>1
  <2> QED
    BY <1>2, <1>4, <1>6, <2>2, <2>3 DEF Prefixed
<1>8. ASSUME NEW q \in Procs \ {p} PROVE Prefixed(q)'
  BY <1>1, <1>2, <1>4 DEF Prefixed
<1>9. PICK f : Replays(f)
  BY DEF ReplicaInv
<1>10. version'[p] = f[k + 1]
  BY <1>2, <1>4, <1>9 DEF Replays
<1>11. Replays(f)'
  BY <1>2, <1>4, <1>6, <1>9, <1>10 DEF Replays
<1> QED
  BY <1>7, <1>8, <1>11

LEMMA ReplicaInvHolds == ReplicaSpec => []ReplicaInv
<1>1. ReplicaInit => ReplicaInv
  BY ReplicasInit
<1>2. ReplicaInv /\ [ReplicaNext]_replicaVars => ReplicaInv'
  <2> SUFFICES ASSUME ReplicaInv, [ReplicaNext]_replicaVars PROVE ReplicaInv'
    OBVIOUS
  <2>1. Grounded /\ (order = "total" => \A p \in Procs : Prefixed(p))
    BY DEF ReplicaInv
  <2>2. ASSUME NEW p \in Procs, Write(p) PROVE ReplicaInv'
    <3>1. Grounded'
      BY <2>1, <2>2, WriteKeepsMessages, WriteKeepsReplicas DEF Grounded
    <3>2. order' = order
      BY <2>2 DEF Write
    <3> QED
      BY <2>2, <3>1, <3>2, WriteKeepsOrder DEF ReplicaInv
  <2>3. ASSUME NEW p \in Procs, NEW m \in sent, Deliver(p, m) PROVE ReplicaInv'
    <3>1. Grounded'
      BY <2>1, <2>3, DeliverKeepsMessages, DeliverKeepsReplicas DEF Grounded
    <3>2. order' = order
      BY <2>3 DEF Deliver
    <3> QED
      BY <2>3, <3>1, <3>2, DeliverKeepsOrder DEF ReplicaInv
  <2>4. CASE UNCHANGED replicaVars
    <3>1. /\ sent' = sent /\ order' = order /\ program' = program /\ delivered' = delivered
          /\ latest' = latest /\ version' = version /\ counter' = counter
      BY <2>4 DEF replicaVars
    <3>2. Grounded'
      BY <2>1, <3>1
         DEF Grounded, ReplicaTypeOK, Positioned, Numbered, Own, Truthful, Gathering, Informed, Knows
    <3>3. /\ \A p \in Procs : Prefixed(p)' <=> Prefixed(p)
          /\ \A f : Replays(f)' <=> Replays(f)
      BY <3>1 DEF Prefixed, Replays
    <3> QED
      BY <3>1, <3>2, <3>3 DEF ReplicaInv
  <2> QED
    BY <2>2, <2>3, <2>4 DEF ReplicaNext
<1> QED
  BY <1>1, <1>2, PTL DEF ReplicaSpec

LEMMA KnownIsKnows ==
  ASSUME Grounded, NEW p \in Procs
  PROVE  Known(p) = Knows(p) /\ Heads(Known(p)) = Tops(sent, Knows(p))
<1>1. Positioned /\ Single(sent) /\ delivered[p] \in SUBSET Ids(sent)
  BY DEF Grounded, Positioned, Informed
<1>2. Known(p) = Knows(p)
  BY <1>1, ClosedIsCauses DEF Known, Knows
<1>3. Knows(p) \in SUBSET Ids(sent)
  BY <1>1, CausesAreClosed DEF Knows, Grounded, Truthful
<1> QED
  BY <1>1, <1>2, <1>3, ClosedIsCauses

\* Under the causal order, where a message declares only its latest causes
\* (causal.rs:131-173), and under the order of one sequencer (total_order.rs:118-122),
\* no replica ever has a write without all that came before it.
THEOREM EffectsFollowTheirCauses == ReplicaSpec => []NoEffectBeforeCause
<1>1. ReplicaInv => NoEffectBeforeCause
  <2> SUFFICES ASSUME ReplicaInv, order \in {"causal", "total"}, NEW p \in Procs
               PROVE  Known(p) = delivered[p]
    BY DEF NoEffectBeforeCause
  <2> QED
    BY KnownIsKnows DEF ReplicaInv, Grounded, Informed
<1> QED
  BY <1>1, ReplicaInvHolds, PTL

\* vclock.rs:249-270 and crdt.rs:144-155: under every order, with copies in any number
\* and writes made upon writes that are still on their way, no write a replica knows is
\* lost but to one that knew it, none at all if the program replaces nothing, and each
\* is counted once.
THEOREM NoUpdateIsLost == ReplicaSpec => []NoLostUpdate
<1>1. ReplicaInv => NoLostUpdate
  <2> SUFFICES ASSUME ReplicaInv, NEW p \in Procs
               PROVE  /\ CounterValue(counter[p]) = Cardinality(Known(p) \cup Own(p))
                      /\ Heads(Known(p)) \subseteq version[p].value
                      /\ version[p].value \subseteq Known(p)
                      /\ CoordinationFree(program) => Known(p) \subseteq version[p].value
    BY DEF NoLostUpdate
  <2>1. Known(p) = Knows(p) /\ Heads(Known(p)) = Tops(sent, Knows(p))
    BY KnownIsKnows DEF ReplicaInv
  <2>2. /\ Own(p) \cup Knows(p) = Counted(counter[p]) /\ counter[p] \in Vectors
        /\ Tops(sent, Knows(p)) \subseteq version[p].value /\ version[p].value \subseteq Knows(p)
        /\ CoordinationFree(program) => version[p].value = Knows(p)
    BY DEF ReplicaInv, Grounded, Informed, ReplicaTypeOK, Gathering
  <2>3. Known(p) \cup Own(p) = Counted(counter[p])
    BY <2>1, <2>2
  <2> QED
    BY <2>1, <2>2, <2>3, CountedCardinality
<1> QED
  BY <1>1, ReplicaInvHolds, PTL

\* crdt.rs:13-14, calm.rs:198-203 and total_order.rs: replicas that know the same writes
\* hold the same value, whatever came when, if the program needs no coordination or if
\* one order is followed; and then what one has delivered begins what another has.
THEOREM ReplicasConverge == ReplicaSpec => []Converges
<1>1. ReplicaInv => Converges
  <2> SUFFICES ASSUME ReplicaInv, NEW p \in Procs, NEW q \in Procs
               PROVE  /\ CoordinationFree(program) \/ order = "total" =>
                           (Known(p) = Known(q) => version[p] = version[q])
                      /\ order = "total" =>
                           delivered[p] \subseteq delivered[q] \/ delivered[q] \subseteq delivered[p]
    BY DEF Converges
  <2>1. Known(p) = Knows(p) /\ Known(q) = Knows(q)
    BY KnownIsKnows DEF ReplicaInv
  <2>2. /\ version[p] \in Versions /\ version[q] \in Versions /\ Informed(p) /\ Informed(q)
        /\ Cardinality(delivered[p]) \in Nat /\ Cardinality(delivered[q]) \in Nat
    BY DeliveredCount DEF ReplicaInv, Grounded, ReplicaTypeOK
  <2>3. ASSUME Gathering, Knows(p) = Knows(q) PROVE version[p] = version[q]
    <3>1. /\ version[p].value = version[q].value
          /\ Counted(version[p].clock) = Counted(version[q].clock)
      BY <2>2, <2>3 DEF Informed
    <3>2. version[p].clock = version[q].clock
      BY <2>2, <3>1, CountedOrder DEF Versions
    <3> QED
      BY <2>2, <3>1, <3>2 DEF Versions
  <2>4. ASSUME order = "total", Knows(p) = Knows(q) PROVE version[p] = version[q]
    <3>1. delivered[p] = delivered[q]
      BY <2>2, <2>4 DEF Informed
    <3> QED
      BY <2>4, <3>1 DEF ReplicaInv, Replays
  <2>5. ASSUME order = "total"
        PROVE  delivered[p] \subseteq delivered[q] \/ delivered[q] \subseteq delivered[p]
    <3>1. /\ delivered[p] = Ids({m \in sent : m.pos < Cardinality(delivered[p])})
          /\ delivered[q] = Ids({m \in sent : m.pos < Cardinality(delivered[q])})
      BY <2>5 DEF ReplicaInv, Prefixed
    <3>2. \A m \in sent : m.pos \in Nat
      BY DEF ReplicaInv, Grounded, ReplicaTypeOK, Messages
    <3>3. ASSUME NEW a \in Nat, NEW b \in Nat, a <= b
          PROVE  Ids({m \in sent : m.pos < a}) \subseteq Ids({m \in sent : m.pos < b})
      BY <3>2, <3>3 DEF Ids
    <3>4. \/ Cardinality(delivered[p]) <= Cardinality(delivered[q])
          \/ Cardinality(delivered[q]) <= Cardinality(delivered[p])
      BY <2>2
    <3> QED
      BY <2>2, <3>1, <3>3, <3>4
  <2> QED
    BY <2>1, <2>3, <2>4, <2>5 DEF Gathering
<1> QED
  BY <1>1, ReplicaInvHolds, PTL

-----------------------------------------------------------------------------
\* Membership tokens.  A pile is a finite bag.
Pile(B) == IsFiniteSet(DOMAIN B) /\ \A x \in DOMAIN B : B[x] \in Nat \ {0}

One(x, kind) == IF x \in kind THEN 1 ELSE 0

LEMMA CopiesAreSummed ==
  ASSUME NEW B, NEW kind
  PROVE  Copies(B, kind) = SumOver(B, DOMAIN B \cap kind)
BY SumIsFold DEF Copies, BagToSet

LEMMA CopiesTyped ==
  ASSUME NEW B, Pile(B), NEW kind
  PROVE  Copies(B, kind) \in Nat
<1>1. IsFiniteSet(DOMAIN B \cap kind) /\ \A x \in DOMAIN B \cap kind : B[x] \in Nat
  BY FS_Subset, DOMAIN B \cap kind \subseteq DOMAIN B DEF Pile
<1> QED
  BY <1>1, SumNatural, CopiesAreSummed

LEMMA EmptyPile ==
  /\ Pile(EmptyBag) /\ DOMAIN EmptyBag = {}
  /\ \A kind : Copies(EmptyBag, kind) = 0
<1>1. DOMAIN EmptyBag = {}
  BY DEF EmptyBag, SetToBag
<1>2. Pile(EmptyBag)
  BY <1>1, FS_EmptySet DEF Pile
<1>3. ASSUME NEW kind PROVE Copies(EmptyBag, kind) = 0
  <2>1. DOMAIN EmptyBag \cap kind = {}
    BY <1>1
  <2> QED
    BY <2>1, SumEmpty, CopiesAreSummed
<1> QED
  BY <1>1, <1>2, <1>3

LEMMA AddedPile ==
  ASSUME NEW B, Pile(B), NEW x
  PROVE  Pile(With(B, x)) /\ DOMAIN With(B, x) = DOMAIN B \cup {x}
<1>1. DOMAIN With(B, x) = DOMAIN B \cup {x}
  BY DEF With, SetToBag, (+)
<1>2. IsFiniteSet(DOMAIN With(B, x))
  BY <1>1, FS_AddElement DEF Pile
<1>3. ASSUME NEW y \in DOMAIN With(B, x) PROVE With(B, x)[y] \in Nat \ {0}
  BY <1>1, <1>3 DEF With, SetToBag, (+), Pile
<1> QED
  BY <1>1, <1>2, <1>3 DEF Pile

LEMMA AddedCopies ==
  ASSUME NEW B, Pile(B), NEW x, NEW kind
  PROVE  Copies(With(B, x), kind) = Copies(B, kind) + One(x, kind)
<1> DEFINE C == With(B, x)
           S == DOMAIN B \cap kind
<1>0. /\ IsFiniteSet(S) /\ \A y \in S : B[y] \in Int
      /\ Copies(B, kind) = SumOver(B, S) /\ Copies(C, kind) = SumOver(C, DOMAIN C \cap kind)
      /\ Copies(B, kind) \in Nat
  BY FS_Subset, S \subseteq DOMAIN B, CopiesAreSummed, CopiesTyped DEF Pile
<1>1. DOMAIN C = DOMAIN B \cup {x} /\ \A y \in DOMAIN C : C[y] \in Int
  <2>1. Pile(C) /\ DOMAIN C = DOMAIN B \cup {x}
    BY AddedPile
  <2> QED
    BY <2>1 DEF Pile
<1>2. \A y \in DOMAIN B \ {x} : C[y] = B[y]
  BY DEF With, SetToBag, (+), Pile
<1> HIDE DEF C
<1>3. CASE x \notin kind
  <2>1. DOMAIN C \cap kind = S /\ \A y \in S : B[y] \in Int /\ B[y] = C[y]
    BY <1>0, <1>1, <1>2, <1>3
  <2>2. SumOver(B, S) = SumOver(C, S)
    BY <2>1, <1>0, SumSame
  <2> QED
    BY <2>1, <2>2, <1>0, <1>3 DEF One, C
<1>4. CASE x \in kind /\ x \in DOMAIN B
  <2>1. DOMAIN C \cap kind = S /\ x \in S /\ C[x] = B[x] + 1
    BY <1>1, <1>4 DEF With, SetToBag, (+), C
  <2>2. \A y \in S : B[y] \in Int /\ C[y] \in Int
    BY <1>0, <1>1
  <2>3. \A y \in S \ {x} : C[y] = B[y]
    BY <1>2
  <2>4. SumOver(C, S) = SumOver(B, S) + (C[x] - B[x])
    BY <2>1, <2>2, <2>3, <1>0, SumUpdate
  <2>5. B[x] \in Int /\ SumOver(B, S) \in Int
    BY <2>1, <2>2, <1>0, SumTyped
  <2>6. SumOver(C, S) = SumOver(B, S) + 1
    BY <2>1, <2>4, <2>5
  <2> QED
    BY <2>1, <2>6, <1>0, <1>4 DEF One, C
<1>5. CASE x \in kind /\ x \notin DOMAIN B
  <2>1. DOMAIN C \cap kind = S \cup {x} /\ x \notin S /\ C[x] = 1
    BY <1>1, <1>5 DEF With, SetToBag, (+), C
  <2>2. \A y \in S \cup {x} : C[y] \in Int
    BY <1>1, <2>1
  <2>3. \A y \in S : B[y] \in Int /\ B[y] = C[y]
    BY <1>0, <1>2, <1>5
  <2>4. SumOver(C, S \cup {x}) = C[x] + SumOver(C, S)
    BY <2>1, <2>2, <1>0, SumAdd
  <2>5. SumOver(B, S) = SumOver(C, S)
    BY <2>3, <1>0, SumSame
  <2> QED
    BY <2>1, <2>4, <2>5, <1>0, <1>5 DEF One, C
<1> QED
  BY <1>3, <1>4, <1>5

LEMMA RemovedPile ==
  ASSUME NEW B, Pile(B), NEW x \in DOMAIN B
  PROVE  /\ Pile(Without(B, x)) /\ DOMAIN Without(B, x) \subseteq DOMAIN B
         /\ DOMAIN B \ {x} \subseteq DOMAIN Without(B, x)
<1>1. /\ DOMAIN Without(B, x) \subseteq DOMAIN B
      /\ DOMAIN B \ {x} \subseteq DOMAIN Without(B, x)
  BY DEF Without, SetToBag, (-), Pile
<1>2. IsFiniteSet(DOMAIN Without(B, x))
  BY <1>1, FS_Subset DEF Pile
<1>3. ASSUME NEW y \in DOMAIN Without(B, x) PROVE Without(B, x)[y] \in Nat \ {0}
  <2>1. B[x] \in Nat \ {0} /\ y \in DOMAIN B /\ B[y] \in Nat \ {0}
    BY <1>1, <1>3 DEF Pile
  <2>2. CASE B[x] = 1
    BY <2>1, <2>2, <1>3 DEF Without, SetToBag, (-)
  <2>3. CASE B[x] # 1
    BY <2>1, <2>3, <1>3 DEF Without, SetToBag, (-)
  <2> QED
    BY <2>2, <2>3
<1> QED
  BY <1>1, <1>2, <1>3 DEF Pile

LEMMA RemovedCopies ==
  ASSUME NEW B, Pile(B), NEW x \in DOMAIN B, NEW kind
  PROVE  Copies(B, kind) = Copies(Without(B, x), kind) + One(x, kind)
<1> DEFINE C == Without(B, x)
           S == DOMAIN B \cap kind
<1>0. /\ IsFiniteSet(S) /\ \A y \in S : B[y] \in Int
      /\ Copies(B, kind) = SumOver(B, S) /\ Copies(C, kind) = SumOver(C, DOMAIN C \cap kind)
      /\ Copies(C, kind) \in Nat
      /\ B[x] \in Nat \ {0}
  BY FS_Subset, S \subseteq DOMAIN B, CopiesAreSummed, CopiesTyped, RemovedPile DEF Pile
<1>1. /\ DOMAIN C \subseteq DOMAIN B /\ DOMAIN B \ {x} \subseteq DOMAIN C
      /\ \A y \in DOMAIN C : C[y] \in Int
  BY RemovedPile DEF Pile
<1>2. \A y \in DOMAIN B \ {x} : C[y] = B[y]
  BY DEF Without, SetToBag, (-), Pile
<1>3. B[x] = 1 => x \notin DOMAIN C
  BY <1>0 DEF Without, SetToBag, (-)
<1>4. B[x] # 1 => x \in DOMAIN C /\ C[x] = B[x] - 1
  BY <1>0 DEF Without, SetToBag, (-)
<1> HIDE DEF C
<1>5. CASE x \notin kind
  <2>1. DOMAIN C \cap kind = S /\ \A y \in S : B[y] \in Int /\ B[y] = C[y]
    BY <1>0, <1>1, <1>2, <1>5
  <2>2. SumOver(B, S) = SumOver(C, S)
    BY <2>1, <1>0, SumSame
  <2>3. Copies(C, kind) = SumOver(C, S)
    BY <2>1, <1>0
  <2>4. Copies(B, kind) = Copies(C, kind)
    BY <2>2, <2>3, <1>0
  <2> QED
    BY <2>4, <1>0, <1>5 DEF One, C
<1>6. CASE x \in kind /\ B[x] # 1
  <2>1. DOMAIN C \cap kind = S /\ x \in S /\ C[x] = B[x] - 1
    BY <1>1, <1>4, <1>6
  <2>2. \A y \in S : B[y] \in Int /\ C[y] \in Int
    BY <1>0, <1>1, <2>1
  <2>3. \A y \in S \ {x} : C[y] = B[y]
    BY <1>2
  <2>4. SumOver(C, S) = SumOver(B, S) + (C[x] - B[x])
    BY <2>1, <2>2, <2>3, <1>0, SumUpdate
  <2>5. SumOver(B, S) \in Int
    BY <2>2, <1>0, SumTyped
  <2>6. SumOver(B, S) = SumOver(C, S) + 1
    BY <2>1, <2>4, <2>5, <1>0
  <2> QED
    BY <2>1, <2>6, <1>0, <1>6 DEF One, C
<1>7. CASE x \in kind /\ B[x] = 1
  <2>1. DOMAIN C \cap kind = S \ {x} /\ x \in S
    BY <1>1, <1>3, <1>7
  <2>2. SumOver(B, S) = B[x] + SumOver(B, S \ {x})
    BY <2>1, <1>0, SumRemove
  <2>3. IsFiniteSet(S \ {x}) /\ \A y \in S \ {x} : B[y] \in Int /\ B[y] = C[y]
    BY <1>0, <1>2, FS_Subset, S \ {x} \subseteq S
  <2>4. SumOver(B, S \ {x}) = SumOver(C, S \ {x})
    BY <2>3, SumSame
  <2>5. SumOver(B, S) = Copies(C, kind) + 1
    BY <2>1, <2>2, <2>4, <1>0, <1>7
  <2> QED
    BY <2>5, <1>0, <1>7 DEF One, C
<1> QED
  BY <1>5, <1>6, <1>7

LEMMA OneIsNat ==
  ASSUME NEW x, NEW kind
  PROVE  One(x, kind) \in Nat
BY DEF One

\* What a split does to the copies of any kind, and a merge.
LEMMA SplitCopies ==
  ASSUME NEW B, Pile(B), NEW x \in DOMAIN B, NEW y, NEW z, NEW kind
  PROVE  LET C == With(With(Without(B, x), y), z)
         IN  Copies(B, kind) + One(y, kind) + One(z, kind) = Copies(C, kind) + One(x, kind)
<1> DEFINE D == Without(B, x)
           E == With(D, y)
<1>1. Pile(D) /\ Copies(B, kind) = Copies(D, kind) + One(x, kind)
  BY RemovedPile, RemovedCopies
<1> HIDE DEF D
<1>2. Pile(E) /\ Copies(E, kind) = Copies(D, kind) + One(y, kind)
  BY <1>1, AddedPile, AddedCopies
<1> HIDE DEF E
<1>3. Copies(With(E, z), kind) = Copies(E, kind) + One(z, kind)
  BY <1>2, AddedCopies
<1>4. Copies(D, kind) \in Nat /\ Copies(E, kind) \in Nat
  BY <1>1, <1>2, CopiesTyped
<1> QED
  BY <1>1, <1>2, <1>3, <1>4, OneIsNat DEF D, E

LEMMA MergeCopies ==
  ASSUME NEW B, Pile(B), NEW x \in DOMAIN B, NEW y \in DOMAIN Without(B, x), NEW z, NEW kind
  PROVE  LET C == With(Without(Without(B, x), y), z)
         IN  Copies(B, kind) + One(z, kind) = Copies(C, kind) + One(x, kind) + One(y, kind)
<1> DEFINE D == Without(B, x)
           E == Without(D, y)
<1>1. Pile(D) /\ Copies(B, kind) = Copies(D, kind) + One(x, kind)
  BY RemovedPile, RemovedCopies
<1>0. y \in DOMAIN D
  OBVIOUS
<1> HIDE DEF D
<1>2. Pile(E) /\ Copies(D, kind) = Copies(E, kind) + One(y, kind)
  BY <1>0, <1>1, RemovedPile, RemovedCopies
<1> HIDE DEF E
<1>3. Copies(With(E, z), kind) = Copies(E, kind) + One(z, kind)
  BY <1>2, AddedCopies
<1>4. Copies(D, kind) \in Nat /\ Copies(E, kind) \in Nat
  BY <1>1, <1>2, CopiesTyped
<1> QED
  BY <1>1, <1>2, <1>3, <1>4, OneIsNat DEF D, E

-----------------------------------------------------------------------------
\* The tokens that the program can hold: a half has no member of the other side.
Proper ==
  {t \in [epoch : Epochs, set : {"All", "Lo", "Hi"}, members : SUBSET UNION Memberships] :
     /\ t.set = "Lo" => t.members \subseteq LowMembers
     /\ t.set = "Hi" => t.members \cap LowMembers = {}}

HasMember(e, n) == {t \in Proper : t.epoch = e /\ n \in t.members}

Covers(e, side) == {t \in Proper : t.epoch = e /\ t.set \in {"All", side}}

Kinds == {HasMember(e, n) : e \in Epochs, n \in UNION Memberships}
           \cup {Covers(e, side) : e \in Epochs, side \in {"Lo", "Hi"}}

TokensAreProper ==
  /\ Pile(held) /\ DOMAIN held \subseteq Proper
  /\ Pile(minted) /\ DOMAIN minted \subseteq Proper
  /\ Pile(dropped) /\ DOMAIN dropped \subseteq Proper

Balanced(kind) == Copies(held, kind) + Copies(dropped, kind) = Copies(minted, kind)

TokensInv == TokensAreProper /\ \A kind \in Kinds : Balanced(kind)

LEMMA AddedProper ==
  ASSUME NEW B, Pile(B), DOMAIN B \subseteq Proper, NEW x \in Proper
  PROVE  Pile(With(B, x)) /\ DOMAIN With(B, x) \subseteq Proper
<1>1. Pile(With(B, x)) /\ DOMAIN With(B, x) = DOMAIN B \cup {x}
  BY AddedPile
<1> QED
  BY <1>1

LEMMA RemovedProper ==
  ASSUME NEW B, Pile(B), DOMAIN B \subseteq Proper, NEW x \in DOMAIN B
  PROVE  Pile(Without(B, x)) /\ DOMAIN Without(B, x) \subseteq Proper
<1>1. Pile(Without(B, x)) /\ DOMAIN Without(B, x) \subseteq DOMAIN B
  BY RemovedPile
<1> QED
  BY <1>1

\* A kind has as many of the halves as of the whole.
LEMMA HalvesOfWhole ==
  ASSUME NEW t \in Proper, t.set = "All"
  PROVE  LET lo == Token(t.epoch, "Lo", Halves(t.members).lo)
             hi == Token(t.epoch, "Hi", Halves(t.members).hi)
         IN  /\ lo \in Proper /\ hi \in Proper
             /\ \A kind \in Kinds : One(t, kind) = One(lo, kind) + One(hi, kind)
<1> DEFINE lo == Token(t.epoch, "Lo", Halves(t.members).lo)
           hi == Token(t.epoch, "Hi", Halves(t.members).hi)
<1>1. /\ lo.epoch = t.epoch /\ lo.set = "Lo" /\ lo.members = t.members \cap LowMembers
      /\ hi.epoch = t.epoch /\ hi.set = "Hi" /\ hi.members = t.members \ LowMembers
  BY DEF Token, Halves
<1>2. lo \in Proper /\ hi \in Proper
  BY DEF Token, Halves, Proper
<1> HIDE DEF lo, hi
<1>3. ASSUME NEW e \in Epochs, NEW n \in UNION Memberships
      PROVE  One(t, HasMember(e, n)) = One(lo, HasMember(e, n)) + One(hi, HasMember(e, n))
  BY <1>1, <1>2 DEF One, HasMember
<1>4. ASSUME NEW e \in Epochs, NEW side \in {"Lo", "Hi"}
      PROVE  One(t, Covers(e, side)) = One(lo, Covers(e, side)) + One(hi, Covers(e, side))
  BY <1>1, <1>2 DEF One, Covers
<1>5. ASSUME NEW kind \in Kinds PROVE One(t, kind) = One(lo, kind) + One(hi, kind)
  BY <1>3, <1>4 DEF Kinds
<1> QED
  BY <1>2, <1>5 DEF lo, hi

LEMMA WholeOfHalves ==
  ASSUME NEW t \in Proper, NEW u \in Proper, Mergeable(t, u)
  PROVE  LET whole == Token(t.epoch, "All", t.members \cup u.members)
         IN  /\ whole \in Proper
             /\ \A kind \in Kinds : One(whole, kind) = One(t, kind) + One(u, kind)
<1> DEFINE whole == Token(t.epoch, "All", t.members \cup u.members)
<1>1. /\ whole.epoch = t.epoch /\ whole.set = "All" /\ whole.members = t.members \cup u.members
      /\ u.epoch = t.epoch
  BY DEF Token, Mergeable
<1>2. whole \in Proper
  BY DEF Token, Proper
<1>3. \/ t.set = "Lo" /\ u.set = "Hi"
      \/ t.set = "Hi" /\ u.set = "Lo"
  <2>1. <<t.set, u.set>> = <<"Lo", "Hi">> \/ <<t.set, u.set>> = <<"Hi", "Lo">>
    BY DEF Mergeable, ComplementOf
  <2> QED
    BY <2>1
<1> HIDE DEF whole
<1>4. \A n : ~ (n \in t.members /\ n \in u.members)
  BY <1>3 DEF Proper
<1>5. ASSUME NEW e \in Epochs, NEW n \in UNION Memberships
      PROVE  One(whole, HasMember(e, n)) = One(t, HasMember(e, n)) + One(u, HasMember(e, n))
  BY <1>1, <1>2, <1>4 DEF One, HasMember
<1>6. ASSUME NEW e \in Epochs, NEW side \in {"Lo", "Hi"}
      PROVE  One(whole, Covers(e, side)) = One(t, Covers(e, side)) + One(u, Covers(e, side))
  BY <1>1, <1>2, <1>3 DEF One, Covers
<1>7. ASSUME NEW kind \in Kinds PROVE One(whole, kind) = One(t, kind) + One(u, kind)
  BY <1>5, <1>6 DEF Kinds
<1> QED
  BY <1>2, <1>7 DEF whole

LEMMA TokensInit_Inv == TokensInit => TokensInv
<1> SUFFICES ASSUME TokensInit PROVE TokensInv
  OBVIOUS
<1>1. TokensAreProper
  BY EmptyPile DEF TokensInit, TokensAreProper
<1>2. \A kind \in Kinds : Balanced(kind)
  BY EmptyPile DEF TokensInit, Balanced
<1> QED
  BY <1>1, <1>2 DEF TokensInv

LEMMA TokensNext_Inv == TokensInv /\ [TokensNext]_tokenVars => TokensInv'
<1> SUFFICES ASSUME TokensInv, [TokensNext]_tokenVars PROVE TokensInv'
  OBVIOUS
<1>0. /\ Pile(held) /\ Pile(minted) /\ Pile(dropped)
      /\ DOMAIN held \subseteq Proper /\ DOMAIN minted \subseteq Proper
      /\ DOMAIN dropped \subseteq Proper
      /\ \A kind \in Kinds : Balanced(kind)
  BY DEF TokensInv, TokensAreProper
<1>typed. \A kind : /\ Copies(held, kind) \in Nat /\ Copies(minted, kind) \in Nat
                    /\ Copies(dropped, kind) \in Nat
  BY <1>0, CopiesTyped
<1>1. CASE Genesis
  <2>1. PICK e \in Epochs, members \in Memberships :
          /\ held' = With(held, Token(e, "All", members))
          /\ minted' = With(minted, Token(e, "All", members)) /\ dropped' = dropped
    BY <1>1 DEF Genesis
  <2>2. Token(e, "All", members) \in Proper
    BY DEF Token, Proper
  <2>3. TokensAreProper'
    <3> DEFINE whole == Token(e, "All", members)
    <3>1. /\ Pile(With(held, whole)) /\ DOMAIN With(held, whole) \subseteq Proper
          /\ Pile(With(minted, whole)) /\ DOMAIN With(minted, whole) \subseteq Proper
      BY <1>0, <2>2, AddedProper
    <3> QED
      BY <1>0, <2>1, <3>1 DEF TokensAreProper
  <2>4. ASSUME NEW kind \in Kinds PROVE Balanced(kind)'
    <3>1. /\ Copies(held', kind) = Copies(held, kind) + One(Token(e, "All", members), kind)
          /\ Copies(minted', kind) = Copies(minted, kind) + One(Token(e, "All", members), kind)
      BY <1>0, <2>1, AddedCopies
    <3> QED
      BY <1>0, <1>typed, <2>1, <3>1, OneIsNat DEF Balanced
  <2> QED
    BY <2>3, <2>4 DEF TokensInv
<1>2. CASE Split
  <2>1. PICK whole \in DOMAIN held :
          /\ whole.set = "All"
          /\ held' = With(With(Without(held, whole),
                               Token(whole.epoch, "Lo", Halves(whole.members).lo)),
                          Token(whole.epoch, "Hi", Halves(whole.members).hi))
          /\ minted' = minted /\ dropped' = dropped
    BY <1>2 DEF Split, BagToSet
  <2> DEFINE lo == Token(whole.epoch, "Lo", Halves(whole.members).lo)
             hi == Token(whole.epoch, "Hi", Halves(whole.members).hi)
  <2>2. /\ lo \in Proper /\ hi \in Proper
        /\ \A kind \in Kinds : One(whole, kind) = One(lo, kind) + One(hi, kind)
    BY <1>0, <2>1, HalvesOfWhole
  <2>3. held' = With(With(Without(held, whole), lo), hi)
    BY <2>1
  <2> HIDE DEF lo, hi
  <2>4. TokensAreProper'
    <3>1. Pile(Without(held, whole)) /\ DOMAIN Without(held, whole) \subseteq Proper
      BY <1>0, RemovedProper
    <3>2. /\ Pile(With(Without(held, whole), lo))
          /\ DOMAIN With(Without(held, whole), lo) \subseteq Proper
      BY <2>2, <3>1, AddedProper
    <3>3. /\ Pile(With(With(Without(held, whole), lo), hi))
          /\ DOMAIN With(With(Without(held, whole), lo), hi) \subseteq Proper
      BY <2>2, <3>2, AddedProper
    <3> QED
      BY <1>0, <2>1, <2>3, <3>3 DEF TokensAreProper
  <2>5. ASSUME NEW kind \in Kinds PROVE Balanced(kind)'
    <3>1. Copies(held, kind) + One(lo, kind) + One(hi, kind)
            = Copies(held', kind) + One(whole, kind)
      BY <1>0, <2>3, SplitCopies
    <3>2. Copies(held', kind) \in Nat
      BY <2>4, CopiesTyped DEF TokensAreProper
    <3>3. Copies(held', kind) = Copies(held, kind)
      BY <1>typed, <2>2, <3>1, <3>2, OneIsNat
    <3> QED
      BY <1>0, <2>1, <3>3 DEF Balanced
  <2> QED
    BY <2>4, <2>5 DEF TokensInv
<1>3. CASE MergeTokens
  <2>1. PICK t \in DOMAIN held, u \in DOMAIN held :
          /\ Mergeable(t, u) /\ u \in DOMAIN Without(held, t)
          /\ held' = With(Without(Without(held, t), u),
                          Token(t.epoch, "All", t.members \cup u.members))
          /\ minted' = minted /\ dropped' = dropped
    BY <1>3 DEF MergeTokens, BagToSet, BagIn
  <2> DEFINE whole == Token(t.epoch, "All", t.members \cup u.members)
  <2>2. /\ whole \in Proper
        /\ \A kind \in Kinds : One(whole, kind) = One(t, kind) + One(u, kind)
    BY <1>0, <2>1, WholeOfHalves
  <2>3. held' = With(Without(Without(held, t), u), whole)
    BY <2>1
  <2> HIDE DEF whole
  <2>4. TokensAreProper'
    <3>1. Pile(Without(held, t)) /\ DOMAIN Without(held, t) \subseteq Proper
      BY <1>0, RemovedProper
    <3>2. /\ Pile(Without(Without(held, t), u))
          /\ DOMAIN Without(Without(held, t), u) \subseteq Proper
      BY <2>1, <3>1, RemovedProper
    <3>3. /\ Pile(With(Without(Without(held, t), u), whole))
          /\ DOMAIN With(Without(Without(held, t), u), whole) \subseteq Proper
      BY <2>2, <3>2, AddedProper
    <3> QED
      BY <1>0, <2>1, <2>3, <3>3 DEF TokensAreProper
  <2>5. ASSUME NEW kind \in Kinds PROVE Balanced(kind)'
    <3>1. Copies(held, kind) + One(whole, kind)
            = Copies(held', kind) + One(t, kind) + One(u, kind)
      BY <1>0, <2>1, <2>3, MergeCopies
    <3>2. Copies(held', kind) \in Nat
      BY <2>4, CopiesTyped DEF TokensAreProper
    <3>3. Copies(held', kind) = Copies(held, kind)
      BY <1>typed, <2>2, <3>1, <3>2, OneIsNat
    <3> QED
      BY <1>0, <2>1, <3>3 DEF Balanced
  <2> QED
    BY <2>4, <2>5 DEF TokensInv
<1>4. CASE DropToken
  <2>1. PICK t \in DOMAIN held :
          held' = Without(held, t) /\ dropped' = With(dropped, t) /\ minted' = minted
    BY <1>4 DEF DropToken, BagToSet
  <2>2. TokensAreProper'
    <3>1. /\ Pile(Without(held, t)) /\ DOMAIN Without(held, t) \subseteq Proper
          /\ Pile(With(dropped, t)) /\ DOMAIN With(dropped, t) \subseteq Proper
      BY <1>0, AddedProper, RemovedProper, t \in Proper
    <3> QED
      BY <1>0, <2>1, <3>1 DEF TokensAreProper
  <2>3. ASSUME NEW kind \in Kinds PROVE Balanced(kind)'
    <3>1. /\ Copies(held, kind) = Copies(held', kind) + One(t, kind)
          /\ Copies(dropped', kind) = Copies(dropped, kind) + One(t, kind)
      BY <1>0, <2>1, AddedCopies, RemovedCopies
    <3>2. Copies(held', kind) \in Nat
      BY <2>2, CopiesTyped DEF TokensAreProper
    <3> QED
      BY <1>0, <1>typed, <2>1, <3>1, <3>2, OneIsNat DEF Balanced
  <2> QED
    BY <2>2, <2>3 DEF TokensInv
<1>5. CASE UNCHANGED tokenVars
  BY <1>5 DEF tokenVars, TokensInv, TokensAreProper, Balanced
<1> QED
  BY <1>1, <1>2, <1>3, <1>4, <1>5 DEF TokensNext

LEMMA BalancedIsConserved == TokensInv => MembersAreConserved
<1> SUFFICES ASSUME TokensInv PROVE MembersAreConserved
  OBVIOUS
<1> DEFINE all == UNION {BagToSet(bag) : bag \in {held, minted, dropped}}
<1>1. /\ DOMAIN held \subseteq all /\ DOMAIN held \subseteq Proper
      /\ DOMAIN minted \subseteq all /\ DOMAIN minted \subseteq Proper
      /\ DOMAIN dropped \subseteq all /\ DOMAIN dropped \subseteq Proper
  BY DEF TokensInv, TokensAreProper, BagToSet
<1> HIDE DEF all
<1>2. ASSUME NEW e \in Epochs, NEW n \in UNION Memberships
      PROVE  LET kind == {t \in all : t.epoch = e /\ n \in t.members}
             IN  Copies(held, kind) + Copies(dropped, kind) = Copies(minted, kind)
  <2> DEFINE kind == {t \in all : t.epoch = e /\ n \in t.members}
  <2>1. /\ DOMAIN held \cap kind = DOMAIN held \cap HasMember(e, n)
        /\ DOMAIN minted \cap kind = DOMAIN minted \cap HasMember(e, n)
        /\ DOMAIN dropped \cap kind = DOMAIN dropped \cap HasMember(e, n)
    BY <1>1 DEF HasMember
  <2>2. Balanced(HasMember(e, n))
    BY DEF TokensInv, Kinds
  <2> QED
    BY <2>1, <2>2 DEF Balanced, Copies, BagToSet
<1>3. ASSUME NEW e \in Epochs, NEW side \in {"Lo", "Hi"}
      PROVE  LET kind == {t \in all : t.epoch = e /\ t.set \in {"All", side}}
             IN  Copies(held, kind) + Copies(dropped, kind) = Copies(minted, kind)
  <2> DEFINE kind == {t \in all : t.epoch = e /\ t.set \in {"All", side}}
  <2>1. /\ DOMAIN held \cap kind = DOMAIN held \cap Covers(e, side)
        /\ DOMAIN minted \cap kind = DOMAIN minted \cap Covers(e, side)
        /\ DOMAIN dropped \cap kind = DOMAIN dropped \cap Covers(e, side)
    BY <1>1 DEF Covers
  <2>2. Balanced(Covers(e, side))
    BY DEF TokensInv, Kinds
  <2> QED
    BY <2>1, <2>2 DEF Balanced, Copies, BagToSet
<1> QED
  BY <1>2, <1>3 DEF MembersAreConserved, all

\* split and merge (lib.rs:834-863): however the tokens of an epoch are split, merged
\* across wholes and dropped, its members are in as many tokens as were minted with
\* them, and each whole is still one whole or one half on either side.
THEOREM TokensConserveMembers == TokensSpec => []MembersAreConserved
<1> QED
  BY TokensInit_Inv, TokensNext_Inv, BalancedIsConserved, PTL DEF TokensSpec
=============================================================================
