-------------------------------- MODULE Calm --------------------------------
(* The coordination classifier (calm.rs): an operation is declared to be     *)
(* monotone or to need coordination, and a pipeline of operations is as      *)
(* coordinated as any of them.  Levels are types in the code and the level   *)
(* of a pipeline is computed by the compiler; here both are values.  That an *)
(* operation is what its label says is the caller's word.                    *)
EXTENDS Sequences, Naturals

\* Mutant: the level of the last step is the level of the whole.
JoinLatest(level, other) == other

\* JoinLevel::Out, the join of Free < Coordinated.
JoinLevel(level, other) ==
  IF "Coordinated" \in {level, other} THEN "Coordinated" ELSE "Free"

\* Op::monotone and Op::coordinated.
Monotone(name)    == [name |-> name, level |-> "Free"]
Coordinated(name) == [name |-> name, level |-> "Coordinated"]

\* Pipeline::start.
Start == [steps |-> <<>>, level |-> "Free"]

\* Pipeline::then.
Then(pipeline, op) ==
  [steps |-> Append(pipeline.steps, op.name), level |-> JoinLevel(pipeline.level, op.level)]

\* The operations of a sequence, one after the other.
Pipeline(ops) ==
  LET upTo[n \in 0 .. Len(ops)] == IF n = 0 THEN Start ELSE Then(upTo[n - 1], ops[n])
  IN  upTo[Len(ops)]

\* What deploy_coordinator_free takes.
CoordinationFree(pipeline) == pipeline.level = "Free"
=============================================================================
