------------------------------ MODULE Channels ------------------------------
(***************************************************************************)
(* One stream from a sender to a process that keeps a log.  The sender     *)
(* resends a message until it is acknowledged (at_least_once.rs), each with *)
(* a single-use capability for its effect (at_most_once.rs), with at most   *)
(* Window of them outstanding (send_window.rs) and every copy paid for with *)
(* a credit of the receiver (backpressure.rs).  The process logs a message  *)
(* before it delivers it and rebuilds its state from the log after a crash  *)
(* (message_log.rs).                                                        *)
(*                                                                         *)
(* Copies are lost, delayed and overtaken, acknowledgements too.  A copy   *)
(* that is lost takes its credit with it, and a credit that does not arrive *)
(* or is dropped is not taken back, so that fewer than Cap may be lost.     *)
(* The composition and these duties are the callers': the acknowledgement   *)
(* leaves when the message is in the log, messages are delivered in the     *)
(* order of the log (message_log.rs:117), and one capability is routed to   *)
(* the receiver for each message (at_most_once.rs:69).  The receiver's      *)
(* credit counter and the capabilities not yet used are kept where the log  *)
(* is and outlive the process; the code leaves open what becomes of them.   *)
(***************************************************************************)
EXTENDS Naturals, Sequences, SequencesExt, FiniteSetsExt

CONSTANTS
  Msgs,        \* the messages, each with an Id of its own
  WindowSizes, \* what N of send_window.rs may be
  Cap,         \* CAP of backpressure.rs
  MaxLost,     \* bounds of the runs: copies and credits lost, crashes
  MaxCrashes

ASSUME ChannelsAssumption ==
  /\ IsFiniteSet(Msgs) /\ WindowSizes \subseteq Nat \ {0}
  /\ Cap \in Nat /\ MaxLost \in 0 .. (Cap - 1) /\ MaxCrashes \in Nat

VARIABLES
  window,       \* N of the stream's Window
  free,         \* Window.free
  sending,      \* sending[m]: "unsent", "pending" or "retired"
  credits,      \* Credits in the sender's hands
  wire,         \* wire[m]: the copies of m on their way, each a Wire
  lost,         \* how many copies and credits were lost
  outstanding,  \* Receiver.outstanding
  received,     \* messages in state Received
  log,          \* the determinants logged, in their order
  state,        \* the messages the process has delivered since it started
  told,         \* the longest state that a message it sent was caused by
  token,        \* the messages whose Effect has not been applied
  fired,        \* fired[m]: how often the effect of m happened
  acks,         \* the acknowledgements on their way
  crashes

channelVars == <<window, free, sending, credits, wire, lost, outstanding, received, log, state,
                 told, token, fired, acks, crashes>>

ChannelInit ==
  /\ window \in WindowSizes /\ free = window
  /\ sending = [m \in Msgs |-> "unsent"]
  /\ credits = 0 /\ wire = [m \in Msgs |-> 0] /\ lost = 0
  /\ outstanding = 0
  /\ received = {} /\ log = <<>> /\ state = <<>> /\ told = <<>>
  /\ token = {} /\ fired = [m \in Msgs |-> 0]
  /\ acks = {} /\ crashes = 0

-----------------------------------------------------------------------------
\* Window::send: a slot, unless the window is full.  at_least_once::send makes it
\* pending and authorize mints the one capability.
Send(m) ==
  /\ sending[m] = "unsent" /\ free > 0
  /\ free' = free - 1
  /\ sending' = [sending EXCEPT ![m] = "pending"]
  /\ token' = token \cup {m}
  /\ UNCHANGED <<window, credits, wire, lost, outstanding, received, log, state, told,
                 fired, acks, crashes>>

\* Mutant: one credit more than there is room for.
RoomAndOne == outstanding <= Cap

Room == outstanding < Cap

\* Receiver::grant, and the credit gets to the sender.
Grant ==
  /\ Room
  /\ outstanding' = outstanding + 1 /\ credits' = credits + 1
  /\ UNCHANGED <<window, free, sending, wire, lost, received, log, state, told, token,
                 fired, acks, crashes>>

\* A Credit is dropped, or never gets to the sender: nothing lowers outstanding for it.
DropCredit ==
  /\ credits > 0 /\ lost < MaxLost
  /\ credits' = credits - 1 /\ lost' = lost + 1
  /\ UNCHANGED <<window, free, sending, wire, outstanding, received, log, state, told,
                 token, fired, acks, crashes>>

\* Pending::resend, of a first copy or another, on the wire for a credit: Credit::spend.
Resend(m) ==
  /\ sending[m] = "pending" /\ credits > 0
  /\ credits' = credits - 1
  /\ wire' = [wire EXCEPT ![m] = @ + 1]
  /\ UNCHANGED <<window, free, sending, lost, outstanding, received, log, state, told,
                 token, fired, acks, crashes>>

\* The network drops a WireCopy.
Lose(m) ==
  /\ wire[m] > 0 /\ lost < MaxLost
  /\ wire' = [wire EXCEPT ![m] = @ - 1] /\ lost' = lost + 1
  /\ UNCHANGED <<window, free, sending, credits, outstanding, received, log, state, told, token,
                 fired, acks, crashes>>

\* Mutants: whatever was received is acknowledged; a message is acknowledged once.
AckedAtOnce(m) == TRUE
AckedOnce(m)   == FALSE

\* A copy of a message that is in the log is acknowledged again; for another the
\* acknowledgement waits for the log.
Known(m) == m \in ToSet(log)

\* Receiver::accept drains a Wire, and WireCopy::deliver hands over what it carries.
Accept(m) ==
  /\ wire[m] > 0
  /\ wire' = [wire EXCEPT ![m] = @ - 1]
  /\ outstanding' = IF outstanding = 0 THEN 0 ELSE outstanding - 1
  /\ received' = IF m \in ToSet(log) THEN received ELSE received \cup {m}
  /\ acks' = IF Known(m) THEN acks \cup {m} ELSE acks
  /\ UNCHANGED <<window, free, sending, credits, lost, log, state, told, token, fired,
                 crashes>>

\* Msg::log: the determinant is persisted, and the acknowledgement leaves.
Log(m) ==
  /\ m \in received
  /\ received' = received \ {m}
  /\ log' = Append(log, m)
  /\ acks' = acks \cup {m}
  /\ UNCHANGED <<window, free, sending, credits, wire, lost, outstanding, state, told,
                 token, fired, crashes>>

\* Mutants: what was only received is delivered too; logged messages in any order.
DeliverableUnlogged == (ToSet(log) \cup received) \ ToSet(state)
DeliverableAnyhow == ToSet(log) \ ToSet(state)

\* What may be delivered: the next of the log, in the first run and in a replay.
Deliverable == IF Len(state) < Len(log) THEN {log[Len(state) + 1]} ELSE {}

\* Mutant: the capability is still there after its use.
SpentNever(m) == token

\* Effect::apply consumes the capability.
Spent(m) == token \ {m}

\* Msg::deliver: into the state; the effect happens if its capability is still there.
Deliver(m) ==
  /\ m \in Deliverable
  /\ state' = Append(state, m)
  /\ fired' = IF m \in token THEN [fired EXCEPT ![m] = @ + 1] ELSE fired
  /\ token' = Spent(m)
  /\ UNCHANGED <<window, free, sending, credits, wire, lost, outstanding, received, log,
                 told, acks, crashes>>

\* Msg::caused_by: a message of the process, that cites all it has delivered, is out.
\* During a replay it sends nothing that it has not sent before.
Emit ==
  /\ Len(state) > Len(told)
  /\ told' = state
  /\ UNCHANGED <<window, free, sending, credits, wire, lost, outstanding, received, log, state,
                 token, fired, acks, crashes>>

\* The process dies and starts again: what it has not logged and its state are gone, the
\* log, the credit counter and the capabilities not yet used are there.
CrashProcess ==
  /\ crashes < MaxCrashes
  /\ crashes' = crashes + 1
  /\ received' = {} /\ state' = <<>>
  /\ UNCHANGED <<window, free, sending, credits, wire, lost, outstanding, log, told, token,
                 fired, acks>>

LoseAck(m) ==
  /\ m \in acks
  /\ acks' = acks \ {m}
  /\ UNCHANGED <<window, free, sending, credits, wire, lost, outstanding, received, log, state,
                 told, token, fired, crashes>>

\* Mutant: every acknowledgement completes a slot.
MayRetireAgain(m) == sending[m] # "unsent"

MayRetire(m) == sending[m] = "pending"

\* Pending::retire with the message's own Ack, and Window::complete of its slot.
Retire(m) ==
  /\ m \in acks /\ MayRetire(m)
  /\ sending' = [sending EXCEPT ![m] = "retired"]
  /\ free' = free + 1
  /\ acks' = acks \ {m}
  /\ UNCHANGED <<window, credits, wire, lost, outstanding, received, log, state, told,
                 token, fired, crashes>>

ChannelNext ==
  \/ \E m \in Msgs :
       \/ Send(m) \/ Resend(m) \/ Lose(m) \/ Accept(m) \/ Log(m) \/ Deliver(m)
       \/ LoseAck(m) \/ Retire(m)
  \/ Grant \/ DropCredit \/ Emit \/ CrashProcess

ChannelSpec == ChannelInit /\ [][ChannelNext]_channelVars

-----------------------------------------------------------------------------
InFlight == SumFunction(wire)

\* backpressure.rs:161-188 and send_window.rs:173-211: every unit of the receiver's
\* buffer is a credit, a copy on its way or one of those lost, and there are Cap of
\* them; every slot is an unacknowledged message.  No buffer overflows and no window
\* grows, whatever is lost, repeated and acknowledged twice.
BuffersAreAccountedFor ==
  /\ outstanding = credits + InFlight + lost /\ outstanding <= Cap
  /\ free + Cardinality({m \in Msgs : sending[m] = "pending"}) = window

\* backpressure.rs:132, "spend it or drop it to release": a credit that leaves the
\* sender's hands without a copy of a message gives its slot of the buffer back.
DroppedCreditIsReleased ==
  [][credits' < credits /\ wire' = wire => outstanding' < outstanding]_channelVars

\* apply (at_most_once.rs:89), retire (at_least_once.rs:115) and log (message_log.rs:183):
\* copies, replays and crashes repeat no effect, and a message that its sender has
\* forgotten is in the log.
EffectsAreSafe ==
  \A m \in Msgs : fired[m] <= 1 /\ (sending[m] = "retired" => m \in ToSet(log))

\* log before deliver (message_log.rs:110-128, "orphan-free across a crash"): the state
\* that a message of the process told of is one it gets back to.  As long as it replays
\* it is on the way there, and then it is past it.
NoOrphans ==
  IF Len(state) < Len(told) THEN IsPrefix(state, told) /\ Len(told) <= Len(log)
                            ELSE IsPrefix(told, state)

\* Every message has had its effect, and its sender has heard of it.
AllTookEffect == \A m \in Msgs : fired[m] = 1 /\ sending[m] = "retired"

=============================================================================
