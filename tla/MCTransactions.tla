--------------------------- MODULE MCTransactions ---------------------------
(* Instances of Transactions and of Channels, each behaviour about one of   *)
(* the two: three transactions that need two keys each, in a ring or around *)
(* one key they all need, and a stream of two messages.                      *)
EXTENDS Transactions, Channels

CONSTANTS m1, m2

MCTxns == 1 .. 3
MCKeys == 0 .. 2
Ring == [t \in MCTxns |-> {t - 1, t % 3}]
Star == [t \in MCTxns |-> {0, 1 + (t % 2)}]
MCWorkloads == {Ring, Star}

VARIABLE part

Init ==
  /\ part \in {"transactions", "channel"}
  /\ TxnInit /\ ChannelInit
  /\ part = "transactions" => window = 1
  /\ part = "channel" => mode = "ordered" /\ needs = Ring

InTransactions(A) == part = "transactions" /\ A /\ UNCHANGED <<part, channelVars>>
InChannel(A)      == part = "channel" /\ A /\ UNCHANGED <<part, txnVars>>

Next == InTransactions(TxnNext) \/ InChannel(ChannelNext)

vars == <<part, txnVars, channelVars>>

\* Everybody goes on, time passes, and the detector runs again and again.  The lock
\* table is a fair one: it passes over no waiter for ever, or a victim that begins
\* again could take the same lock first each time.
TxnFair ==
  /\ \A t \in Txns :
       /\ WF_vars(InTransactions(Steps(t))) /\ SF_vars(InTransactions(Acquire(t)))
       /\ WF_vars(InTransactions(Claim(t)))
  /\ WF_vars(InTransactions(Detect)) /\ WF_vars(InTransactions(Pass))

\* Sender and process go on, a message sent again and again gets a credit at some
\* time, and of endless acknowledgements one arrives.
ChannelFair ==
  /\ WF_vars(InChannel(Grant))
  /\ \A m \in Msgs :
       /\ SF_vars(InChannel(Resend(m))) /\ SF_vars(InChannel(Retire(m)))
       /\ WF_vars(InChannel(Send(m) \/ Accept(m)))
       /\ WF_vars(InChannel(Log(m))) /\ WF_vars(InChannel(Deliver(m)))

Spec == Init /\ [][Next]_vars /\ TxnFair /\ ChannelFair

\* Locks in rank order (lockorder.rs:179-205), detected cycles whose victim starts again
\* (deadlock.rs:150-192, 254-259) and failed validations that start again (occ.rs:177-184):
\* no transaction waits for ever.
EverybodyCommits == part = "transactions" => <>AllCommitted

\* resend (at_least_once.rs:104), grant (backpressure.rs:166), send and complete
\* (send_window.rs:182-211) and log (message_log.rs:183): unless losses have used up all
\* credits, every message at last has its effect and its sender hears of it.
EffectsHappen == part = "channel" => <>AllTookEffect

=============================================================================
