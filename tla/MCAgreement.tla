----------------------------- MODULE MCAgreement -----------------------------
(* Instances of AtomicCommit, Sagas, Replicas, Values and Tokens, each       *)
(* behaviour about one of the five: three participants and a shard that      *)
(* votes without having been declared; three sagas that want more from two   *)
(* accounts than those have; three replicas; three nodes that propose        *)
(* different values, with callers whose merge functions keep all laws or     *)
(* some of them; tokens of two epochs and memberships that differ.           *)
EXTENDS AtomicCommit, Sagas, Replicas, Values, Tokens

CONSTANTS s1, s2, s3, x, g1, g2, g3, a1, a2, a, b, c

Want(from, n) == [account |-> from, units |-> n]

MCPlan == (g1 :> <<Want(a1, 2), Want(a2, 1)>>) @@ (g2 :> <<Want(a2, 2), Want(a1, 1)>>)
            @@ (g3 :> <<Want(a1, 1), Want(a2, 1), Want(a1, 1)>>)
MCGranted == (a1 :> 3) @@ (a2 :> 2)

MCMemberships == {{a, b, c}, {b}}

MCPrograms == {<<Insert>>, <<Overwrite, Insert>>}

MCProposal == (a :> 0) @@ (b :> 1) @@ (c :> 2)

Table(Op(_, _)) == [p \in (0 .. 2) \X (0 .. 2) |-> Op(p[1], p[2])]

Greater(m, n) == IF m < n THEN n ELSE m
First(m, n)   == m
Beats(m, n)   == IF m = (n + 1) % 3 THEN m ELSE IF n = (m + 1) % 3 THEN n ELSE m
MCMerges == {Table(Greater), Table(First), Table(Beats)}

VARIABLE part

allVars == <<part, vars, sagaVars, replicaVars, valueVars, tokenVars>>

AllInit ==
  /\ part \in {"commit", "saga", "replicas", "values", "tokens"}
  /\ Init /\ SagaInit /\ ReplicaInit /\ ValuesInit /\ TokensInit
  /\ part # "commit" => tally = "ballot"
  /\ part # "replicas" => order = "none" /\ program = Pipeline(<<Insert>>)
  /\ part # "values" => law.merge = Table(Greater) /\ law.samples = {0}

InCommit(A) ==
  part = "commit" /\ A /\ UNCHANGED <<part, sagaVars, replicaVars, valueVars, tokenVars>>
InSaga(A) ==
  part = "saga" /\ A /\ UNCHANGED <<part, vars, replicaVars, valueVars, tokenVars>>
InReplicas(A) ==
  part = "replicas" /\ A /\ UNCHANGED <<part, vars, sagaVars, valueVars, tokenVars>>
InValues(A) ==
  part = "values" /\ A /\ UNCHANGED <<part, vars, sagaVars, replicaVars, tokenVars>>
InTokens(A) ==
  part = "tokens" /\ A /\ UNCHANGED <<part, vars, sagaVars, replicaVars, valueVars>>

AllNext ==
  \/ InCommit(Next) \/ InSaga(SagaNext) \/ InReplicas(ReplicaNext)
  \/ InValues(ValuesNext) \/ InTokens(TokensNext)

\* Coordinator and participants go on as long as they live; no vote need ever arrive.
AllSpec ==
  /\ AllInit /\ [][AllNext]_allVars
  /\ WF_allVars(InCommit(Discard \/ Resolve))
  /\ \A s \in Shards :
       /\ WF_allVars(InCommit(VoteYes(s) \/ VoteNo(s)))
       /\ WF_allVars(InCommit(Tell(s))) /\ WF_allVars(InCommit(Decide(s)))

\* A shard in doubt gets its decision, or its coordinator is dead (the block that
\* twophase.rs describes): nobody is left waiting by one that lives.
DoubtEnds == part = "commit" => <>(~ alive \/ \A s \in Declared : state[s] \in Final)

=============================================================================
