# quorum-types in TLA+

quorum-types is a Rust library of small typed certificates for distributed systems: a quorum, a
lease, a vote, a token is a value that only a run-time check can mint, and the type system sees to
it that nobody acts without one. The crate's documentation is candid about the limit of this: a type
pins down relations inside one process, and whatever depends on time, on the network, on several
processes or on a value that is copied and goes stale is left to run-time checks, to the operator, or
to the caller. Those are the parts this project models. A type error is not modelled, since no
execution has one; what a type rules out appears as an action that is not there.

The modules translate the Rust source (`src/src/*.rs`) and the two network harnesses
(`src/tests/wire_sim.rs`, `src/tests/attest_wire.rs`) that drive the library over datagrams. TLC
checks them on small instances; TLAPS proves every safety property that the runs check, for all values of the
constants.

- [Inventory](#inventory) of the system
- [Modules](#modules) and how they correspond to the code
- [Runs](#runs), bounds and fairness
- [Proofs](#proofs)
- [Three disagreements](#three-disagreements-between-docs-and-code)
- [What is not modelled, and the plan](#what-is-not-modelled-and-the-plan)

## Inventory

The library has no threads, no sockets and no clock of its own: time and votes are arguments. Its
components meet in the caller's hands, which is where concurrency, loss and staleness come in. The
crate states most of its duties of the caller as "seams"; in the models a seam is a nondeterministic
choice, or an assumption of a theorem, never something that happens to go well.

### Membership and authority

| Component | State | Operations | Hard behaviour | What makes it correct |
|---|---|---|---|---|
| `membership.rs` majority quorums | `Config<E>`: members; `Quorum<E>`: voters | `Config::new`, `certify`, `intersect` | the label `E` is the caller's, any member set may wear it | two certificates of one configuration share a member |
| `byzantine.rs` masking quorums | `BftConfig`: members, f; `ByzQuorum` | `new`, `certify`, `intersect`, `min_correct` | liars, budget at its limit, two configurations under one label | overlap of at least 2f+1; honest members reach the threshold alone |
| `attest.rs` values | `Attested`, `Committed` | `attest`, `commit_masking`, `agreement_witness` | equivocation, stale votes, ties | believed values have honest votes of this epoch; committed values are unique |
| `failover.rs` leases | `Lease`, `Leased<E>` | `genesis`, `surrender`, `reconfigure` | expiry read by two hosts at two moments | authority of two leaders is never granted for one tick |
| `reconfig.rs` leased quorums | `LeasedQuorum` | `certify`, `reconfigure` | the prior lease is a copy, perhaps superseded | one reign per epoch, one lease after the other |
| `election.rs` | `Ballot`, `Elected` | `open`, `vote`, `close` | the electorate changes under an open ballot | one leader per term |
| `reconfig_safety.rs` | `SizedConfig` | `majority`, `preserves_intersection`, `reconfigure` | safe steps that are not safe in sequence | neighbouring electorates' majorities meet |
| `flex.rs` | `ReadQuorum`, `WriteQuorum` | `certify_read`, `certify_write`, gate R+W>N | zero and unequal sizes | a read meets every write |
| `term.rs` | `Reign`, `Decree`, `Deposed` | `install`, `decree`, `superseded_by`, `commit` | an old reign's decree arrives late; two reigns of one term | what a deposed leader left is never committed |
| `lib.rs` split and merge | `Quorum<E, All/Lo/Hi>` with its members | `genesis`, `split`, `merge`, drop | several wholes of one epoch; halves of different wholes meet | no member is doubled or lost, no whole is made of nothing |
| `suspicion.rs` | `Monitor`: last heard, budget | `heard_at`, `suspect` | clocks that step back | a claim has real silence behind it |
| `detector.rs` | `Report`, `Confirmed` | `corroborate`, `close` | old claims, liars, outsiders, closing early | no live peer is confirmed; a dead one is at last |

### Transactions, channels, reads

| Component | State | Operations | Hard behaviour | What makes it correct |
|---|---|---|---|---|
| `twophase.rs` | `Participant<State>`, `Ballot`, `Decision` | `prepare`, `record`, `resolve`, `decide` | in doubt when the coordinator dies; any vote commits | no torn commit |
| `cross_shard.rs` | `AtomicCommit` barrier, `CrossCommitted` | `over`, `record`, `seal` | strangers' votes, late votes | unanimity over the declared shards |
| `fencing.rs` | `LockService.next`, `FencedStore.high_water` | `acquire`, `write` | a holder that pauses | an overtaken hold never writes again |
| `stability.rs`, `compaction.rs` | `Barrier` (acks), `Stable`, `Retained` log | `over`, `ack`, `seal`, `compact` | delayed, repeated, missing watermarks | nobody forgets what a member still needs |
| `occ.rs`, `two_phase_lock.rs`, `saga.rs`, `escrow.rs`, `commit_wait.rs` | read sets, lock phases, completed steps, shares, intervals | validate, acquire and release, step and compensate, take, wait | validate and write-back are two steps; compensation half way | serializability; all or compensated; shares are conserved |
| `lockorder.rs`, `deadlock.rs` | ranks held; wait-for graph | acquire; wait, detect | stale edges | no cycle; a cycle is found |
| `at_least_once.rs`, `fifo.rs`, `causal.rs`, `total_order.rs` | witnesses of delivery, `Sequencer.next`, `Cursor.next` | `resend`, `deliver`, `assign` | messages late, repeated, in any order | no effect before its cause; one order for all; everything is delivered |
| `at_most_once.rs`, `message_log.rs`, `backpressure.rs`, `send_window.rs`, `chain.rs` | logs, windows, credits, buffers | send, ack, log, replicate | loss, duplication, limits | delivery once, within the limits |
| `snapshot.rs`, `consistent_cut.rs`, `recovery_line.rs` | `Snapshot` (own state, channels recorded), `Cut`, `Line` | `begin`, `record_channel`, `seal`; `verify`; `from_checkpoints`, `resolve` | several initiators, messages that cross markers; rollbacks in cascades | the cut is consistent, the line the greatest |
| `session.rs`, `staleness.rs` | watermark types; `Replica.last_applied`, lease | `read`, `write`, `freshness_of`; `read_within`, `require`, `read_linearizable` | a replica that lags; the lease at the wrong end of a chain | a session's reads never go back; what a bounded or linearizable read may miss |
| `crdt.rs`, `vclock.rs` | `GSet`, `GCounter`; `VClock`, `Versioned` | `insert`, `join`; `tick`, `merge`, `compare`, `take_dominant`, `merge_concurrent` | versions that are merged and meet again | the order is happens-before; no lost update; convergence |
| `consistency.rs`, `reconcile.rs` | `Local`, `At`, `Agreed`; `Diverged`, `Reconciled` | commit, forget, detect, certify, reconcile | divergence, sampled laws | a merge is a proposal again |
| `sharding.rs` | `Partition<S>` | route and `apply` | keys at the boundary | a key has one shard |
| `calm.rs` | `Pipeline<L>`: its steps and, as a type, its level | `start`, `then`, `deploy_coordinator_free`, `deploy_with` | one coordinated step in a long pipeline of monotone ones | what deploys without coordination converges without it |

### Harnesses

`tests/wire_sim.rs` runs a leader, a candidate and a voter over simulated UDP, with a partition and a
heal: heartbeats keep the candidate quiet, silence makes it ask for votes, `LeasedQuorum::certify` and
`reconfigure` decide, the leader surrenders when its lease is over and learns of its successor.
`tests/attest_wire.rs` runs voters, one of them equivocating, and two collectors.
`tests/partition_heal.rs` is one straight-line replay with a single clock.
`tla/quorum.tla` in the repository is a model itself and not the subject of this one.

The interactions that matter: `reconfig` puts `membership` and `failover` together and `wire_sim` puts
both on a network; `election` closes a ballot against whatever `membership` configuration it is given
while `reconfig_safety` changes it; `detector` counts the claims of many `suspicion` monitors;
`attest` stands on `byzantine`; `compaction` cuts by the certificates of `stability`; `twophase` and
`cross_shard` are two tallies for one commit protocol; the parts that every process records with
`snapshot` add up to a frontier that `consistent_cut` verifies, and below which `recovery_line` need not
go; `vclock` decides what becomes of the versions that `fifo`, `causal` or `total_order` deliver, and `calm`
whether an order is needed at all; `term`
installs what `election` certifies; `fencing` guards the head of a `chain` whose replicas `session` and
`staleness` read; `saga` steps take and give back `escrow` reservations; a transaction of `occ` or
`two_phase_lock` reads and writes through `sharding`, takes its locks by `lockorder` or is watched by
`deadlock`, and stamps itself by `commit_wait`; one stream passes `send_window`, `backpressure`,
`at_least_once`, `at_most_once` and `message_log` on its way.

## Modules

| Module | Models | Built on |
|---|---|---|
| `Quorums` | the counting of `membership`, `byzantine`, `reconfig_safety` and `flex` as operators | |
| `Authority` | abstract: what a lease guard promises | |
| `WireSim` | the failover harness, `failover` and `reconfig` on one epoch change | `Quorums`, implements `Authority` |
| `Succession` | `reconfig` with any number of candidates over a chain of epochs | `Quorums`, implements `Authority` |
| `Election` | `election` while `reconfig_safety` changes the electorate | `Quorums` |
| `Terms` | `term`: reigns and decrees of the leaders elected | extends `Election` |
| `ByzVoting` | `attest` over `byzantine`, in the harness of `attest_wire` | `Quorums` |
| `Detector` | `suspicion` monitors that feed `detector` reports | `Quorums` |
| `Unanimity` | abstract: what atomic commit promises | |
| `AtomicCommit` | `twophase` and `cross_shard` as two tallies of one protocol | implements `Unanimity` |
| `Sagas` | `saga` over the reservations of `escrow` | |
| `Transactions` | `occ`, `two_phase_lock`, `lockorder`, `deadlock`, `commit_wait` on the partitions of `sharding` | |
| `Channels` | `at_least_once`, `at_most_once`, `send_window`, `backpressure`, `message_log` on one stream | |
| `Fencing` | `fencing` with clients that pause | |
| `ChainStore` | `chain`, `staleness` and `session` under fenced writes | extends `Fencing` |
| `Retention` | `stability` feeding `compaction` | |
| `Cuts`, `Snapshots` | frontiers; `snapshot`, `consistent_cut` and `recovery_line` in one execution | |
| `VClocks`, `Calm` | `vclock` and the set and counter of `crdt`; the levels and pipelines of `calm`: operators | |
| `Replicas` | replicas that run a pipeline under the delivery orders of `fifo`, `causal`, `total_order` and none | `VClocks`, `Calm` |
| `Values` | `consistency` and `reconcile` | |
| `Tokens` | `lib.rs`: wholes, halves and their members | |
| `FoundationProofs` | what all proofs rest on: the counting rules of `Quorums`, induction by least members, sums over finite sets | `Quorums` |
| `ByzVotingProofs`, `WireSimProofs`, `SuccessionProofs`, `SnapshotsProofs` | the theorems about the module of that name | the module |
| `LeadershipProofs` | the theorems about `Election`, `Terms`, `Fencing` and `ChainStore` | those |
| `AgreementProofs` | the theorems about `AtomicCommit`, `Values`, `Sagas`, `Retention`, `Replicas` with `Calm`, and `Tokens` | those |
| `RuntimeProofs` | the theorems about `Detector`, `Channels` and `Transactions` | those |
| `MCByzVoting`, `MCWireSim`, `MCElection` (over `Terms`), `MCSuccession`, `MCDetector`, `MCSnapshots` | member sets, configurations and symmetries for TLC | the module |
| `MCAgreement`, `MCStorage`, `MCTransactions` | instances of several modules, each behaviour about one of them: `part` says which, and the others stand still | the modules |

A definition whose comment begins with "Mutant" is no part of the specification. It is a form of the
definition after it with a plausible bug in it, kept to see that a property notices.

**Quorums.** A certificate is what `certify` lets through: `Certify(members, voters)` says when it
returns `Some`. A `Quorum` is then just its set of voters. `MintsOverlap` is `ByzQuorum::intersect`
and its overlap above 2f, `MinCorrect` its `saturating_sub`, and `Reconfigurable` both gates of
`SizedConfig::reconfigure`: the sizes, which the compiler checks, and the nesting, which run time does.

**WireSim.** `now` is `tick()`; `isolated` the driver's script; `net` the datagrams in flight. The
leader has its token (`Leased<0>`), the end of its sleep and `learned`; the candidate a program
counter for the await it stands in (`listen`, `poll`, `sleep`, `serve`) and the locals of its loop;
the voter whether its set holds the epoch. `Lead` and `Follow` are the two halves of the leader's loop
with their sleeps; `HearBeat`, `DropVote`, `Seek`, `Poll`, `Retry` and `Serve` the candidate's,
with `Mint` for `certify` and `reconfigure`; `Voter` is one turn of the voter. A datagram that is sent
arrives at any later moment. `network` says whether the network is lossy, for the whole execution, and
who is isolated just now; on a network without loss a timeout fires only when nothing is left to receive.

**Succession.** The harness has one candidate; the library's `reconfigure` is public and takes the prior
lease by copy. `known` and `prior` are such copies, heard at any time and used at any later one. A
reign is everything `reconfigure` returned. A candidate collects votes (`Collect`), gives up (`GiveUp`,
the polls are over) or, with a certified quorum and a lapsed prior lease, mints the next reign
(`Reconfigure`). Voters grant an epoch once, as in the harness.

**Election.** `history` is the chain of electorates, each a legal step from the one before; `view` how
far each candidate has followed it. `CastVote`, `Record` and `Close` are the voter, `Ballot::vote` and
`Ballot::close` against the configuration the candidate knows of at that moment, which is not the one
it had when it opened the ballot. `Relabel` says whether each electorate gets its own `E`.

**Terms.** `Install` takes a certificate of the election, once per leader, which is the trusted root that
`term.rs` asks for; `Stamp` is `decree`, `SupersededBy` the hearing of a higher term, which consumes the reign and
leaves its decree over. `Commit(by, under)` takes a decree and *any* reign, because the types compare the term
and nothing else. Each leader stamps one decree.

**ByzVoting.** `faces[n]` is what an honest node tells everyone; a liar tells each collector what it
likes. `Sent` is the set of all datagrams under way, those of the previous epoch included, and `Receive`
takes any of them: loss, delay, repetition and reordering are all there. `Decide` is `attest` or
`commit_masking` (chosen at `Init`), with the best supported group and ties open. Each collector has
its own configuration, also chosen at `Init`.

**Detector.** Every reading of an observer's clock may be up to `MaxLag` behind the true time, so two
readings may go backwards. `HeardAt` stamps, `Suspect` is `Monitor::suspect` returning a suspicion, whose
claim stays in `claims` for good because no message withdraws it. `Corroborate` and `Close` are those of
`Report`; `Lie` is a claim without a suspicion. The true time of the last message is kept beside the
stamp so that properties can tell silence from a clock that errs.

**AtomicCommit.** `tally` chooses `Ballot` or the barrier. A vote is a linear token: cast, under way,
recorded, gone (`VoteYes`, `Record`, `Taken`). `Ballot::resolve` commits as soon as there is any vote;
that the coordinator resolves with all declared votes or with none is the duty `twophase.rs` documents
and a guard of `Resolve` for that tally only: the barrier needs no such duty and has none.
`Crash` ends the coordinator for good, with what it recorded.

**Sagas.** The compensations still owed are a sequence of reservations, which the code keeps in the type.
`TryStep` is a step that reserves (`Reservation::split`) or fails, for want of units or for a reason of its own;
`CompensateNext` pops the latest and merges it back; `CommitSaga`, `Spend` and `Done` end a saga
(that one commits after its last step and not before is the caller's to see to: `commit` takes any depth), and
`DropSaga` is what affine types allow: the saga goes out of scope and its reservations with it.

**Transactions.** One set of variables, three disciplines (`mode`). `plan` is what a transaction has yet to lock
or read, `held` what it has and has not written; `Begin` chooses the order, which `lockorder` wants ascending
and the detector leaves free. `Acquire` and `Release` are 2PL's growing and shrinking, `Read`, `Validate`,
`Conflict` and `WriteBack` are `occ`; `Claim` and `Detect` feed and consume one `WaitForGraph`, whose `edges`
keep the latest claim of each waiter however old it is, and `Abort` carries out its victim. `Stamp` and
`Externalize` are commit wait with clocks that are off by up to `Epsilon`; time is kept relative to each
timestamp, so that it needs no bound. Callers' duties that are kept: the lock table excludes, validation and
write-back run under one latch and the version moves last, the detector has been told of every blocked
transaction and gets a new graph only when the victim is gone.

**Channels.** `Send` takes a window slot and mints the one capability, `Resend` puts another copy on the wire
for a credit, `Lose` and `LoseAck` drop what is on its way, `DropCredit` a credit, `Accept` takes a copy of any
message in any order. `Log` persists the determinant, after which the acknowledgement leaves; `Deliver` takes
the next of the log into the state and applies the effect if its capability is still there; `Emit` is a message
that cites what the process has delivered; `CrashProcess` takes the state and what is not logged, and the replay
is `Deliver` again. `Retire` consumes `Pending` and completes the slot. That the acknowledgement waits for the
log is the caller's duty. The receiver's credit counter and the capabilities not yet used outlive the process
like its log: the code says nothing of what becomes of those in-memory values in a crash, and a capability lost
between `Log` and `Deliver` would be an effect that never happens, which is not modelled.

**Fencing.** `Acquire` hands out the next token; a client keeps every token it ever had and may write with
any of them at any time, which is a pause of any length. `Write` is one accepted write; a refused write
changes nothing and is no step.

**ChainStore.** `Issue` is a fenced write that enters the chain at the head, `Forward` one hop on a FIFO link,
with what it tells the replica about its recency, and `CommitUpdate` the tail's acknowledgement. `Refresh` is a
replica that has everything and hears so. A session's watermark is the type `W`; `wrote` is the set it stands
for, which `Session::write` extends and `read` leaves alone. The reads of `staleness.rs` change nothing and are
operators (`ReadWithin`, `Tolerates`, `ReadLinearizable`). Synchronized clocks, an unbroken chain and FIFO links
are the operator's part in both files.

**Retention.** `Report` puts a watermark on the network for good, and `Ack` takes any of them again and
again; `Open`, `Ack` and `Seal` are the barrier, `Compact` is `Retained::compact` with any certificate
ever sealed. `Apply` takes a position from a node that still has it; the node that is furthest makes the next
one. That a node compacts only to a certified frontier is the caller's duty in `compaction.rs`, and is what
ties the two modules together.

**Snapshots.** `Send` and `Receive` are the computation, over channels that keep the order, which `snapshot.rs`
asks of the transport. `Begin` is `Snapshot::begin` with the markers that its caller sends before anything else;
`MarkerArrives` begins or calls `record_channel` with what came by that channel since (`captured`, which the
caller counts); `Seal` is `seal`, also too early, which consumes the snapshot. `Fail` leaves each process with a
checkpoint at any event it has had, so any number of them are below where they were; `RollBack` is one turn of
`resolve`'s loops that finds an orphan, any orphan, and `Resolve` its return. In `recovery_line.rs` events are
numbered by intervals; here every event is an interval of its own, so a checkpoint that falls between two events
of one interval does not occur.

**Replicas.** A message is a write with its version, the causes it declares (`preds`: the latest writes its
writer knew) and a position from the sequencer; `order` says which of these decides about delivery. The
type-level witnesses of `fifo.rs` and `causal.rs` become conditions on the delivered set: `NextOfSender` and
`CausesDelivered`. Without an order messages are delivered repeatedly too, and by `fifo.rs` a copy of what has
been delivered is taken again, since the witness of the number before is a fact that stays. A replica has two
versions: `latest` has all that it wrote and is what the next write is made on (`Basis`), clock and value both;
`version` has what it delivered. They differ under the total order only, where a replica may write again before
its own last write has had its turn. A message refused by a cursor is kept and offered again, as `OutOfOrder`
hands it back. `past` is a history field: the writes that its writer knew, with which clocks and deliveries are
compared. What a write does to the value is the `program`, a `Pipeline` of `calm`: each step adds to the set or
replaces it, and the one that replaces is declared coordinated. The merge function is the join of sets. Every
replica keeps a `GCounter` of the writes beside it.

**Values.** `CommitLocal`, `ForgetEpoch` and `Detect` are a node's way up the lattice, down to what it may hand
round, and back to a proposal when what it hears differs. `law` is the caller's merge function and the samples
on which `Lawful::certify` passed it, any samples; a value handed round may be met at any later time and more
than once.

**Tokens.** The tokens there are form a bag, since a token is moved and never copied. What `merge`'s types admit
is its guard (`Mergeable`): one epoch and complementary halves, of whatever wholes. `Genesis` may mint any
number at an epoch, `DropToken` loses one.

## Runs

| Run | Question | Instance | Properties |
|---|---|---|---|
| `byzantine` | What may two collectors believe? | 5 members, f = 1, one liar; both collectors over one configuration, or two configurations under one label | `MaskingUnique`, `AgreementWitness`, `CorrectVouchers` |
| `wire` | Who can serve when, and does failover finish? | the harness's TTL 5 and silence 3, clock to 9; a lossy network and a prompt one | `OverlapIsOneTick`, `AuthorityIsDisjoint`, `MissedGrantIsFinal`, `KnownLeadsToService` |
| `succession` | And with several candidates and epochs? | 3 candidates, 3 voters, epochs 0 to 2, TTL 1, clock to 4 | `OneReignPerEpoch`, `AuthorityIsDisjoint` |
| `election` | One leader while the electorate changes, and what becomes of a deposed one's decrees? | 5 founders, 2 candidates, 2 changes, a decree each | `OneLeaderNearby`, `LeftoversStayUncommitted` |
| `election_reused_label` | Does a label pin a configuration? | the same under one label | `SameLabelMeets`, violated |
| `detector` | Is a live peer ever confirmed dead, and a dead one at last? | 3 members, one of which lies, a lying outsider; timeout 2, lag 1, gap 1, delay 1; crash at 1 at the latest or never, clock to 5 | `NoFalseAlarm`, `ClaimMeansSilence`, `DeathIsConfirmed` |
| `agreement` | What do several nodes make of one thing? | *commit*: 3 declared shards and a stranger, both tallies; *sagas*: 3 over accounts of 3 and 2 units; *replicas*: 3, with 3 writes, a pipeline of one monotone step or of a replacing step and a monotone one, 4 orders; *values*: 3 nodes, 3 merge functions over 0..2 and every set of samples; *tokens*: 2 epochs, memberships {a,b,c} and {b}, 3 mints | `NoTornCommit`, `CommitIsUnanimous`, `DoubtEnds`; `CapacityIsConserved`, `SagaIsWhole`; `NoEffectBeforeCause`, `NoLostUpdate`, `Converges`; `CertifiedMergesConverge`; `MembersAreConserved` |
| `storage` | What do a write, a read and a forgotten prefix rely on? | *store*: 2 clients, 2 tokens, 3 writes, a chain of 3, time to 1; *retention*: 2 members, 1 outsider, a log of 2 | `HoldsAreContiguous`, `LinearizableIsEverywhere`, `StaleReadIsBounded`; `NoOneStranded` |
| `session_reads` | Do a session's reads never go back? | the store | `MonotonicReads`, violated |
| `snapshots` | Do the parts add up, and how far back does a failure reach? | 3 processes, 4 channels (a ring and a shortcut), 2 initiators, 2 messages | `SnapshotIsCut`, `InFlightIsExact`, `LineIsGreatest`, `SnapshotStopsTheDomino` |
| `transactions` | Are transactions isolated and messages effective, under every discipline and fault? | *transactions*: 3 with 2 keys each, in a ring or around one key, 2 shards, epsilon 1, 3 modes; *channel*: 2 messages, window 1 or 2, 2 credits, 1 loss, 1 crash | `Serializable`, `CycleIsDeadlock`, `TimestampsFollowTheOrder`, `EverybodyCommits`; `BuffersAreAccountedFor`, `EffectsAreSafe`, `NoOrphans`, `EffectsHappen` |
| `dropped_credit` | Does a dropped credit release its buffer? | the stream | `DroppedCreditIsReleased`, violated |

The proof modules establish a type invariant for every module they are about; no run spends itself on one.

### What they show

- **Failover.** The library's guard makes *granted* leases disjoint (`AuthorityIsDisjoint`, in one epoch
  change and in a chain of them). *Serving* is weaker: the harness's old leader reads the clock
  once per loop, so a candidate that asks for the first time right after the expiry serves in the same
  tick as a leader that has yet to notice. `OverlapIsOneTick` says that this is all: one tick, and
  never when the candidate was refused before, because the refused one sleeps two ticks more.
- **Votes.** The voter answers an epoch once. A reply that is lost, late, or read by the wrong loop of the
  candidate is a grant that nobody can have any more (`MissedGrantIsFinal`); several candidates can split
  an epoch the same way, and as no epoch can be skipped the line of reigns ends (theorem `SplitIsFinal`).
  Both are the price of `OneReignPerEpoch`.
- **Elections.** Neighbouring electorates cannot elect two leaders, however late each candidate learns of a
  change. Electorates two steps apart can, and the property does not say otherwise: that elections do
  not skip a reconfiguration is the operator's part.
- **Terms.** A leftover decree needs another reign of its term to be committed, and leaders of neighbouring
  electorates are one and the same, so there is none. Leaders of *distant* electorates have reigns that the
  types cannot tell apart, and one may commit what the other left: `install`'s seam, and the exception in
  `LeftoversStayUncommitted`.
- **Values.** At the masking threshold two collectors never disagree; at f+1 they may, and a believed value
  still has an honest vote of this epoch behind it. Over two configurations under one label, a witness
  is refused or it is right.
- **Failure detection.** With a budget that covers the peer's pauses and the clocks' lag, and fewer lying
  members than a majority, no live peer is confirmed dead, though claims are never withdrawn. These are
  premises of the code, so they are premises of the property. As long as no outsider claims, the death of the
  peer is confirmed, whatever the liars, the lag and late messages do.
- **Commit.** The ballot is safe only because of the coordinator's documented duty, the barrier without.
  A dead coordinator leaves participants in doubt; a live one never does.
- **Snapshots.** Whatever crosses whatever, with one or two initiators, the recorded states are a consistent cut and
  the slices hold each message in flight once. Rolling back ends at the same line in any order of
  the dependencies, and a complete snapshot stops it.
- **Replicas.** A causal witness of the latest causes stands for all of them, and a sequencer gives causal order
  for nothing. No update is lost under any order: what a replica knows of is in its value, or was replaced by a write
  that knew it, and a program that only inserts keeps every write, those included that a replica makes before
  its earlier ones are delivered. Replicas with the same knowledge agree when the pipeline is
  coordination-free or when all deliver in one order, so `deploy_coordinator_free` takes the right ones. With one
  step that *replaces* they need not, even under causal order and with
  a commutative, associative and idempotent merge function: a merged `Versioned` has one clock for all that
  went into it, so a later write that replaced one of the merged values finds the merged version
  concurrent, and the replaced value stays for the one replica and not for the other.
- **Sagas.** However sagas interleave, fail and unwind over shared accounts, a saga that is not committed has a prefix
  of its plan in effect, and units are neither made nor lost, except by dropping them.
- **Values.** `certify` tests laws on samples, and a function that is lawful on those may still diverge outside: the
  property holds for samples that take in all that the nodes can come to hold, and for no fewer.
- **Tokens.** Halves of two wholes of one epoch do merge, although the doc of `ComplementOf` (`lib.rs:791-794`)
  speaks of a common parent. Members are conserved all the same, counted over all the wholes of that epoch, and
  each side is covered as often as wholes were minted; a single merged whole need not have the members of any
  that was minted.
- **Storage.** Writes of one hold stand together at every replica. A read under the tail's lease misses no
  acknowledged write and shows none that could still be lost; a bounded read misses only what is young enough. A
  session gets its own writes, and its reads may go back (a disagreement below). The orders that sessions
  promise among writes follow here from there being one head. The compacted log keeps what a member of the
  roster needs.
- **Transactions.** One serial order, that of lock points or validations, explains every read in all three modes, and
  timestamps agree with it. Claims of any age form no phantom cycle under two-phase locking, as long as the detector
  starts anew after each victim. With ranks, with detection and with validation everybody gets through.
- **Channels.** Copies, lost acknowledgements, replays and one crash repeat no effect, orphan no message and grow no
  buffer. A lost copy takes its credit with it for good, and a dropped credit is as lost, though
  `backpressure.rs:132` says otherwise (a disagreement below). With as many losses as credits the stream stops.

### Bounds, and why they are enough

- `MaxTime` = 9 in `WireSim` lets the lease (5) run out, a refused candidate come back two ticks later, serve
  and be heard. Time stops there; a candidate's lease that would run past it is still recorded in full.
- The two configurations of `succession` share one member, so that only one voter stands between two epochs,
  and the first is even, so that its votes can be split; with `MaxTime` = 4 and TTL 1 every epoch is reached.
- `election`: from five nodes two changes reach electorates whose majorities do not meet, the case
  in which a neighbour relation is more than equality.
- `byzantine`: n = 4f+1 is the smallest configuration with a liar and leaves no slack in any threshold.
- `detector`: the budget is exactly the gap and the lag together, the boundary at which one tick decides.
- `agreement`: three shards tell a majority from unanimity, and the stranger makes a count tell from a set; the
  accounts are two units too small for all three sagas, so that the refused step is a first, second or third;
  three writes are the least with a write that knows one of two concurrent ones, and three replicas see them in
  different orders; rock-paper-scissors is commutative and idempotent and not associative, `first` associative
  and not commutative, so each law is needed; three mints give two wholes of one epoch whose halves cross, and a
  third.
- `storage`: two tokens are enough for a hold to be overtaken and resumed; three writes let a replica have one,
  miss one and be told of one; a chain of three has a replica between the ends. With two positions of the log a
  certificate can be out of date twice over.
- `transactions`: three transactions in a ring make a cycle of three and, with a star, one that waits beside a cycle;
  clock error 1 and the reading at either end of it decide whether the wait is over. For the stream, two messages
  overtake each other, a window of 1 holds one back, and one loss is the most that two credits allow.
- `snapshots`: two messages make a rollback of two steps, a cascade; the shortcut gives one process two channels to
  record, and two initiators let markers cross.

Symmetry is used for nodes of the same role only, in runs of safety properties. Deadlock is not checked: in
every run a clock, a bound or the protocol itself comes to an end. That a system does not stop *before* its
end is what the liveness properties say.

### Fairness

- `wire`: every host is scheduled again after an await, time passes and the driver heals (it does so
  by its script). `KnownLeadsToService` is stated for the simulator's network without faults; with a
  lossy one it would fail, and `MissedGrantIsFinal` says why.
- `detector`: the clock, each member's own check of its monitor, the arrival of members' claims, and `Close`.
  Nothing is asked of an outsider: it may claim at any time or never. One claim of its own spoils a report, so
  `DeathIsConfirmed` is stated for the behaviours in which no outsider ever claims, which the fairness permits, and
  for a report that waits for a majority of claims (`patient`): one that is
  closed too early for ever confirms nothing. No fairness of messages still on their way when the peer dies.
- `agreement`: every step of a live process of the commit; no vote has to arrive (no fairness of `Record`),
  which is why the coordinator can give up.
- `transactions`: weak fairness of every transaction's own steps, of time and of the detector. `Acquire` has
  strong fairness: a lock table that passes over one waiter for ever would let a restarted victim take the same
  lock first each time. For the stream: sender, receiver and process go on; a pending message gets a credit if
  credits keep coming, and of acknowledgements repeated for ever one arrives (strong). Nothing has to be
  emitted, and no fairness makes the network lose or the process crash.
- `storage`, `snapshots`, `election`, `byzantine` and `succession` check safety and have none.

## Proofs

All theorems hold for every value of the constants under the modules' `ASSUME`s, which
say that sets are finite, bounds are naturals, and what the run-time gates of the code let through:
`BftConfig` for each configuration in `ByzVoting`, liars within the declared budget (`BudgetAssumption`, the
axiom `byzantine.rs` names). `LabelledQuorumsMeet` assumes `Relabel`. A module that is checked in a run together with
others has a specification of its own (`TermsSpec`, `SagaSpec`, `TokensSpec`, `TransactionsSpec`, ...), which its
theorems are about.

| Proof module | About | Theorems | The argument |
|---|---|---|---|
| `FoundationProofs` | `Quorums` | `MajoritiesShare`, `MaskingQuorumsOverlap`, `ReconfigurationIntersects`, `ReadMeetsWrite` | one counting lemma: two subsets that together are larger than the whole overlap by the difference |
| `ByzVotingProofs` | `ByzVoting` | `TypeCorrect`, `CommittedValueIsUnique`, `WitnessIsMinted`, `WitnessMeansAgreement`, `WitnessIsExact`, `EveryDecisionIsVouchedFor`, `HonestMembersSuffice` | promoted votes of honest nodes are what they tell everyone (`HonestVotes`) and decisions rest on the votes that are held (`Backed`); an overlap above 2f has an honest member, who told both the same |
| `WireSimProofs` | `WireSim` | `TypeCorrect`, `OverlapBounded`, `ServiceWasGranted`, `MissedGrantStays`, `ImplementsAuthority` | `LeaderClock` and `CandidateClock` tie the two hosts' sleeps to the one expiry; `Elected` follows the one vote |
| `SuccessionProofs` | `Succession` | `TypeCorrect`, `EpochHasOneLeader`, `SplitIsFinal`, `ImplementsAuthority` | the epochs served have no gap and their leases no overlap (`Line`); held leases are some reign's (`Heard`); counted votes were granted for the epoch sought (`Gathered`), once (`OneGrant`); every reign had a quorum (`Won`) |
| `LeadershipProofs` | `Election` | `TypeCorrect`, `AtMostOneLeader`, `LabelledQuorumsMeet` | recorded votes were cast (`Recorded`), certificates are majorities of voters for their leader (`Earned`), neighbours are legal steps (`Chained`) |
| | `Terms` | `LeftoversAreVoid` | a reign has a certificate behind it (`Certified`), and who commits a leftover is not its author (`Foreign`), hence another leader of the term, who is no neighbour |
| | `Fencing`, `ChainStore` | `FencedHoldsAreContiguous`, `LeasedReadsAreEverywhere`, `StalenessIsBounded` | tokens are handed out once and land in order (`TokensAreUnique`, `NumbersInOrder`); every log is a prefix of the one before it in the chain (`LogsAreOneChain`), what is acknowledged is at the tail (`CommittedAtTail`), and no follower is more recent than an update it misses (`StampsInOrder`, `RecencyIsTrue`) |
| `AgreementProofs` | `AtomicCommit` | `TypeCorrect`, `CommitIsWhole`, `ImplementsUnanimity` | who may still choose has not voted (`Standing`); before the decision nobody is told (`Undecided`) |
| | `Values` | `CertifiedMergesAgree` | a node's value is the least upper bound of the proposals it has met (`MergesAreLeast`), in the order that the three laws give the samples |
| | `Sagas` | `BudgetIsConserved`, `SagasAreWhole` | what is owed begins the plan (`Begins`); what is left, held and forfeited sums up to what was granted (`Budget`) |
| | `Retention` | `NothingNeededIsForgotten` | a watermark was true when it was sent and stays so (`WatermarksHold`), so certified frontiers and floors are below everybody (`FrontiersHold`) |
| | `Calm`, `Replicas` | `OneCoordinatedStepIsEnough`, `EffectsFollowTheirCauses`, `NoUpdateIsLost`, `ReplicasConverge` | see below |
| | `Tokens` | `TokensConserveMembers` | held and dropped tokens of a kind are as many as were minted (`Balanced`), where a kind is "has this member" or "covers this side"; a half has no member of the other side (`Proper`), so a split makes one token with each member and not two |
| `RuntimeProofs` | `Detector` | `TypeCorrect`, `LivePeerIsSafe`, `ClaimsAreHonest` | stamps are off by the lag at most (`Stamped`), a live peer was heard lately (`HeardLately`), so only liars claim (`Quiet`), and a report holds claims (`Claimed`) |
| | `Channels` | `EveryUnitIsAccountedFor`, `EffectsHappenOnce`, `RecoveryLeavesNoOrphan` | what is in the state and what was told others begin the log (`Replayable`), a capability and its effect exclude each other (`OneEffect`), acknowledged is logged (`AcksAreLogged`), credits, copies and losses add up (`Buffers`) |
| | `Transactions` | `SchedulesAreSerializable`, `NoPhantomDeadlocks`, `TimestampsAreOrdered` | see below |
| `SnapshotsProofs` | `Snapshots` | `TypeCorrect`, `MarkersMakeACut`, `SlicesAreExact`, `ResolvedLineIsGreatest`, `SnapshotIsAFloor` | a marker is out (`MarkerIsOut`) ahead of every later message (`MarkerIsFirst`), so nothing sent after one recording is received before another (`NothingComesFromTheFuture`); a marker divides a channel into what was sent before and after the recording (`Divided`), and a slice counts what came from before it (`Counts`); no consistent cut below the checkpoints has the receive of an orphan, for it would lack the send (`LineIsBetween`) |

None of the safety properties is inductive by itself. The conjuncts named above are the module's inductive
invariant (`IInv` for the first part of a proof module; `TermsInv`, `ChainInv`, `ValuesInv`, `SagaInv`,
`RetentionInv`, `ReplicaInv`, `TokensInv`, `ChannelInv`, `TxnInv`, `ExactInv` after it). A lemma for the initial
states and one for the steps (or one per action) establish it, the theorems follow from it, and the refinements
map each step to a step of the abstract module or to a stutter.

`SplitIsFinal`, `ServiceWasGranted`, `HonestMembersSuffice`, `LabelledQuorumsMeet` and
`OneCoordinatedStepIsEnough` are proved of properties that no run repeats.

**Replicas.** A clock is a compressed set: `Counted` gives the writes that it stands for, and the proofs go back
and forth. What a message says is true of the set of all writes (`Truthful`): its clock counts exactly the
writes that its writer knew and itself, its declared causes are the latest of them, its value lies between those
and all of them. What a replica knows, through what was delivered and the causes of that, is what its version's
clock counts; with its own undelivered writes it is what `latest`'s clock counts, and each value lies between
the latest writes and all of those (`Informed`). The merge of concurrent versions and the choice of the
dominating one keep this, since joining clocks is joining the sets they count. If the program is
coordination-free, the value is all of what is known, so the same knowledge gives the same value. Under a total
order what is delivered is a prefix (`Prefixed`) and there is one sequence of versions, by the number of
deliveries, that all replicas go through (`Replays`).

**Transactions.** One invariant serves the three disciplines. The order has exactly those that are past their
lock point or validation (`Ordered`), and what a transaction has and has yet to take is what it needs
(`Progress`). The table excludes (`Exclusive`), the latch holds validation and write-back together (`Latched`).
From these follow the three conjuncts about values: who is in the order and still has a key is the last that
needs it (`HoldersAreLast`); a key that nobody in the order has any more has that last one's value
(`FreeIsCurrent`); and what has been read before the lock point, or under a snapshot that is still the version,
is the last value (`GrowingIsCurrent`). So whoever joins the order has read the last values of all that it
needs. For deadlocks, a claim is about a wait that goes on, or about one who is past its lock point and then
before the one who waited (`Edged`): on a cycle of claims the second kind cannot occur, for the first of them in
the order would have waited for one before it. The victim waits for others who wait (`Doomed`), so nothing else
happens to it before its abort, and no claim is there meanwhile.

### What is only model-checked

The liveness properties `KnownLeadsToService`, `DeathIsConfirmed`, `DoubtEnds`, `EverybodyCommits` and
`EffectsHappen`: fairness and `ENABLED` are out of TLAPS's reach. The three disagreements below are
counterexamples, which TLC finds and nothing proves. Every other property of a passing run is a theorem.

The library's theorems on induction take an operator as a parameter, which the installed provers cannot
instantiate. Where a proof is by induction all the same (sums over finite sets, the levels of a pipeline, the
walk along the wait-for edges, bounded subsets) it goes by the least counterexample: the set of the failing
numbers, if it has members, has a least one, and that one does not fail (`LeastMember` in `FoundationProofs`).
No module with a theorem has a `RECURSIVE` operator; recursion is by functions and folds.

## Three disagreements between docs and code

**One label, two configurations** (`election_reused_label`). `membership.rs:122-125` says of
`intersect` that quorums of different configurations have different `E`, so that the signature only admits the
case in which they intersect. `Config::new` (line 72) takes any member set at any label. The run changes the
electorate by legal steps, keeps the label, and gets two certificates that share no member, so that `intersect`
returns `None`. `byzantine.rs:258-266` knows of this and refuses by counting.

**Session reads** (`session_reads`). `session.rs:12-13` says that the watermark records "the writes the session
has done or observed", and line 128 that `read` enforces read-your-writes *and* monotonic reads. `read` returns
a `Session<W>` with the `W` it was given (line 133): what it showed is not in the watermark, so the next read
may be admitted at a replica that has the session's own writes and less of everybody else's. The run reads at
the head and then at a follower.

**A dropped credit** (`dropped_credit`). The attribute on `Credit` (`backpressure.rs:132`) says of the buffer
that a credit reserves: "spend it or drop it to release". `Credit` has no `Drop`, and only `accept` lowers
`outstanding` (line 186), so the slot of a dropped credit stays reserved, and after `CAP` of them the receiver
grants nothing more. The run grants a credit and drops it. How many may be lost before the stream stops is in
`BuffersAreAccountedFor` and `EffectsHappen`.

## What is not modelled, and the plan

Not modelled for good: `lib.rs`'s formatting and the compile-fail examples (no execution);
`tests/partition_heal.rs`, one straight line over rules that `WireSim` checks with messages; the repository's
own `tla/quorum.tla`; the harness's negative control, which bypasses the guard; a restart of the lock service or
the store of `fencing.rs`, a seam that the code leaves open without any recovery to model; renewal of leases,
which the code does not have; a register over `flex.rs`, which the repository does not build either, so that its
gate is a theorem (`ReadMeetsWrite`) and no state machine.

Planned, in this order:

1. *Refinements*, as theorems and as properties of runs: `Transactions` implements one serial order of transactions
   (its `store` and `seen` are what the order so far explains), `Channels` a queue that delivers once and in order,
   `ChainStore` a single log with a committed prefix.
2. *Action properties* of what must never go back: certified frontiers and floors in `Retention`, the prefix of
   logs in `ChainStore`, the order of lock points in `Transactions`, clocks in `Replicas`.
3. A *theorem* for each documented disagreement, stating under which extra condition the claim of the doc does hold:
   the label with `LabelledQuorumsMeet` (done), and the session that also records what it read.
