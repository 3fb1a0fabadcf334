# Lagrange in TLA+

Specifications, model-checking instances and proofs kept beside the Lagrange
source. Lagrange is a distributed SQL store and service runtime: tables are
range-partitioned, every partition is a raft group over SQLite, and a
transaction that spans partitions runs a two-phase commit (the code calls it
TX1) whose coordinator keeps its state in system tables.

`PROJECT.json` lists the components, the runs, the source lines of every
definition, the hazards and the theorems. This file explains them.

## Inventory

### Transaction participant (`src/src/partition/partition-participant-transaction-*.js`)

- **State.** Durable, a function of the committed raft log: one row per
  transaction (`PREPARED`, `COMMITTED`, `ROLLED_BACK`, `REFUSED`), the write
  generation *g* with the log index it counts from (its origin), the outcome
  row of every ordinary statement. Volatile, on the leader: one staging session
  per transaction, pending outcomes, parked writes.
- **Operations.** BEGIN, stage a write, PREPARE, COMMIT/ROLLBACK, ordinary
  writes, the hold sweep, application of committed entries, gaining and losing
  leadership.
- **Hard behaviour.** Proposals commit late, twice or not at all; a deposed
  leader does not know it; sessions vanish with the leader; a PREPARED row
  reserves the whole partition and nothing but its decision releases it.
- **What should hold.** A PREPARED answer is never taken back, a COMMIT
  decision never fails, the first committer wins, ordinary writes run once and
  parked ones wake.

### Transaction coordinator and recovery (`src/src/query/distributed/`)

- **State.** Durable: the transaction row (participant set, OPEN or FROZEN, and
  the insert-once decision) and one progress row per participant. Volatile, per
  node: the transaction, the operation it runs, its participant calls.
- **Operations.** BEGIN, enlist, COMMIT, ROLLBACK, the decision record, the
  participant stages with retries, and the recovery sweep every node runs over
  the system tables.
- **Hard behaviour.** The owner and the sweeps of other nodes act on the same
  row; every await can fail with its write landed or not; calls of a stage that
  threw keep running; the budget expires while answers arrive; nodes crash.
- **What should hold.** All participants or none, fanout only of the recorded
  decision, no participant outside the durable set, truthful answers to the
  client, and every transaction eventually settled.

### Hybrid logical clock (`src/src/hlc/`)

- **State.** A physical and a logical part per node, in memory.
- **Operations.** `now`, `update` with a timestamp received, construction.
- **Hard behaviour.** Wall clocks stand still, jump and run backwards; the
  counter overflows; timestamps arrive late and twice; a restart forgets.
- **What should hold.** Timestamps follow causality and no clock runs away from
  the wall clocks: the last writer of every table is decided by them.

### Owner-key reconcile queue (`src/src/workflow/owner-key-reconcile-*.js`, `reconcile-queue-retry-ownership.js`)

- **State.** Per key an item that is pending, in flight, waiting for its retry
  or given up; fence tokens; the waiters of `enqueueAndWait`.
- **Operations.** Enqueue, drain, claim, settle, retry, promote, discard,
  wait for idleness, shutdown.
- **Hard behaviour.** Work for a key arrives while the key runs, retries or was
  given up; a drain stops at its budget; a shutdown meets runs in flight.
- **What should hold.** No work and no waiter is lost, and no wake-up is.

### CDC delivery (`src/src/partition/partition-cdc-*.js`)

- **State.** Replicated: the obligation ledger (events owed, delivered and
  retained, the reclaimed prefix). On the leader: the lane with its scan, batch,
  proposed acknowledgements and two timers; the subscribers.
- **Operations.** A statement or a decision records events within a budget; the
  lane delivers and acknowledges them; an acknowledgement compacts the ledger.
- **Hard behaviour.** Subscribers join in the middle of a delivery; answers to
  acknowledgements are lost and the commands commit late, twice or in a later
  tenure; events are recorded behind the scan; a lagging replica takes a snapshot.
- **What should hold.** No event is forgotten, none is acknowledged that a
  subscriber did not take, and the budget holds on every replica.

### System table cache (`src/src/cache/`)

- **State.** Rows with the HLC of their write, and tombstones of deleted ones.
- **Operations.** An INSERT, UPDATE, UPSERT or DELETE event; tombstone eviction.
- **Hard behaviour.** Events arrive in any order, twice or never.
- **What should hold.** The cache holds the newest version that arrived.

### Node lifecycle (`src/src/control-plane/`)

- **State.** One row per node: boot incarnation, status, connection, heartbeat,
  ready lease.
- **Operations.** Registration, durable rejoin, publication of liveness and
  readiness, shutdown and withdrawal, the lease sweep, the reaper of stranded
  joins, removal.
- **Hard behaviour.** Nobody holds a lock: each reads, decides, and sends one
  conditional update that may land late, after its sender gave up or died.
- **What should hold.** An older boot never overwrites a newer one, a lease stands
  until it lapses, and a node that is gone does not stay a member.

### The rest

Raft host, splits and merges, message routing, membership, rebalancing, SQL and
the client surfaces are not modelled; `PROJECT.json` lists each with the reason,
and the last section sums them up.

## Where to go next

1. **Authoritative reads of the cache**: the absence sweep and the AUTHORITATIVE
   modes against tombstones, in `SystemTableCache`.
2. **The clock under the cache**: the leader's clock with the witness of committed
   entries (`witnessCommandHlc`), composed with the order of commits the cache
   module takes for granted.
3. **The lane over the ledger**: `CdcLane` and `CdcLedger` share the ledger in the
   code; each has a reduced copy of the other here.
4. **Staged writes over several replicas**: the routing of a session's requests,
   which has to give the hypothesis of `StagedTheorem` (`OneSession`).

## Modules

| Module | Role |
|---|---|
| `ParticipantTransaction` | one partition, its raft log and its replicas |
| `MCParticipant` | its instances for TLC |
| `ParticipantTransactionProofs` | its theorems |
| `DistributedTransaction` | coordinators, durable row, recovery, participants |
| `AtomicCommit` | what a distributed transaction promises |
| `MCDistributed` | instances of `DistributedTransaction` for TLC |
| `DistributedTransactionProofs` | its theorems, the refinement included |
| `HybridLogicalClock` | the clocks of several nodes |
| `ReconcileQueue`, `ReconcileQueueProofs` | the owner-key reconcile queue, and its theorems |
| `CdcLane`, `CdcLaneProofs` | the leader's delivery of owed CDC events, and its theorems |
| `CdcLedger`, `CdcLedgerProofs` | the replicated ledger of those events, and its theorems |
| `SystemTableCache` | a node's copy of a system table |
| `StampOrderProofs` | the theorems of the clocks and of the cache their stamps order |
| `NodeLifecycle`, `NodeLifecycleProofs` | the row of a node and all its writers, and its theorems |
| `MCServices`, `ServicesProofs` | the six services side by side, for TLC, and that each behaves there as specified |

Definitions keep the names of the functions they translate. The definitions
marked *Mutant* are plausible mistakes in the definition that follows them; a
run with the mistake in place must violate the property it is listed with.

### ParticipantTransaction

`states[i + 1]` is the durable state after `i` committed entries, computed by
`applyCommittedEntry`; a replica that applied `i` entries reads that state, so a
lagging replica is simply one with a smaller index. `inFlight` holds what was
handed to consensus; `commitEntry` takes any of it in any order, and a new leader
keeps any subset. A digest identifies what a PREPARE carries, so the content (number of
operations, base generation, origin) stands for it.

The coordinator is the environment: `Decide` picks one decision per transaction,
COMMIT only with evidence. `DistributedTransaction` shows how that is kept.

### DistributedTransaction

One transaction. An operation is cut at its awaits: `ctl[c]` says where node `c`
waits. A submitted row update stays in `writes` and lands at any time its guard
allows, whatever its node was told. A participant is reduced to its row and
whether it holds a session; that reduction is what `EvidenceStands`,
`CommitInfallible` and `TerminalRowsStand` of the other module justify: answered
evidence stays PREPARED until the decision, COMMIT then succeeds, and a tombstone
fences later PREPAREs.

Abstractions: the status column of the durable row is left out (recovery does
not read it); FAILED and transient participant statuses are one `PENDING`;
a repeated call of a running stage is the running one; the recovery read of the
row and its participant rows is one atomic snapshot (the code fences it by the
row).

### HybridLogicalClock

Wall clocks are any value at any read. `sent` keeps each timestamp with its causal
past, so causality is a statement about one state. What a node knew before a
restart counts as past only where its wall clock is beyond its old clock: the
code keeps nothing across a restart.

### ReconcileQueue

A work is one call of `enqueueAndWait`; an item is the set of works merged into
it and its fence. `drain` is cut per claim, since a claim starts an asynchronous
run, but nothing interleaves with it. The retry delay is a timer that fires at any
time. Three details of the code the model keeps, which a reader may not expect:
a run in flight that fails retryably after `discard` leaves a retry behind (the
doc at `owner-key-reconcile-queue.js:699-701` says it cannot); work merged into an
item that was given up waits until a discard, a shutdown or an enqueue that
resets the attempts, and the last one forgets its waiter; after a shutdown,
`reconcileFn` runs on while the queue no longer counts it.

### CdcLane and CdcLedger

The lane is one record; the functions that change it are operators from lanes to
lanes, and an action is what runs between two awaits. `floating` holds every
command that may still commit, of any tenure. A row's position is its rank.
The ledger here is reduced to `recorded`, `owed` and `through`. The callback of
the retry timer runs to its first await when the timer fires (`RetryDue`,
`RetryRun`); it goes on over the commands there were then, of which one may have
been settled or replaced since (`RetryStep`). For that reason nothing is claimed
about the number of commands in the lane: `ACK_MAX_OUTSTANDING_BATCHES` is asked
before a batch is proposed, not when a retry reconciles a command that was
replaced meanwhile, which may leave one more.

`CdcLedger` is the other side: every replica applies the log, which any replica
may get an acknowledgement into. The statements, PREPAREs and decisions stand for
the participant: of a transaction only its number of operations (what
`requiredCdcSlots` reserves) and of events is kept.

### SystemTableCache

A commit's number is its HLC; `HybridLogicalClock` is why a later write has a
later one. A row is its stamp and one column that may be NULL. `newest` is the
reference the cache is compared with.

### NodeLifecycle

One node, several boots, of which several may run at once (a zombie and its
replacement). A writer is a task that reads the row, decides and sends an update
with the columns it expects and sets; `Land` and `GiveUp` are the gateway. The
predicates are those of the code without `created_at` and the storage columns,
which makes them weaker. A publication may read back a row and try again as the
code does. Clocks agree; without that a delayed READY could lower
`last_heartbeat`, which is not modelled.

## Runs

| Run | Bounds | Shows |
|---|---|---|
| `participant_conflict` | 2 transactions, 1 replica, 1 operation each, 4 log entries and the decisions | exclusive reservation, first committer wins, final rows |
| `participant_failover` | 1 transaction, 2 replicas, 3 terms | PREPARED answers survive elections, COMMIT is infallible |
| `participant_restart` | from the empty log, 1 transaction, 2 writes of which one fails, 1 replica, 2 terms | types, staged writes kept, writes run once, no write parked on a free partition, parked writes wake |
| `participant_redelivery` | 1 transaction, 2 operations | **violated**, see below |
| `distributed_race` | 2 participants, 2 nodes, 2 failures, 2 COMMITs, all enlisted | atomicity, evidence, final answers |
| `distributed_enlist` | 2 participants, 2 nodes, 1 failure, from BEGIN | types, fanout, admission, implements `AtomicCommit` |
| `distributed_liveness` | 1 participant, 2 nodes, 1 failure | every transaction settles |
| `distributed_commit_point` | 1 participant, 2 nodes, 1 failure, 1 COMMIT | **violated** |
| `distributed_in_doubt` | 1 participant, 1 node, 1 failure | **violated** |
| `services` | see below | the clock, the queue, CDC delivery, the cache and the node lifecycle |
| `cache_columns` | 1 key, 3 writes | **violated** |
| `lifecycle_lapse` | 1 boot, no lost answer | **violated** |

`services` chooses in its first state the component a behaviour exercises, so its
state space is the sum of theirs; no property speaks of two of them. What it
checks, with its bounds:

| Component | Bounds | Properties |
|---|---|---|
| clock | 2 nodes, wall clocks 0 and 1, counter up to 1, 4 timestamps | `StampsFollowCausality`, `ClockTracksWallClocks` |
| queue | 2 keys, 1 run at a time, 1 item per drain, 2 attempts, 2 fences, 2 works, 1 discard | `WaitersFollowTheirWork`, `NoWakeUpLost`, `EveryWorkAnswered` |
| lane | 2 subscribers, 1 outstanding batch of 2, 2 rows, 1 failure, 1 subscription change, 2 tenures | `AcknowledgedAfterReceipt`, `NoRowForgotten`, `EveryRowDelivered` |
| ledger | 2 replicas, a budget of 2, 1 row reclaimed per apply, 4 entries | `OwedWithinBudget`, `LedgerComplete`, `NoUnknownRow`, `DeliveredWereConfirmed` |
| cache | 2 keys, 1 tombstone, 4 commits | `CacheIsNewestDelivered` |
| lifecycle | 2 boots, 1 client task and the sweeper, 1 lost answer | `GenerationsFenced`, `LeaseStandsUntilLapsed`, `GoneNodeIsCleared` |

Why the bounds suffice. Conflicts between transactions need two of them, and
the log is long enough for PREPARE, decision, and the other's PREPARE and decision;
`MaxLog` never keeps a decision out. Losing a session, a proposal and an answer
needs two elections after the first. Atomicity needs two participants, a race
two nodes; the second failure lets the first one's recovery fail too. Two runs
start from a state a short prefix reaches (origin recorded; all enlisted) to
spend the states on what follows; `participant_restart` and `distributed_enlist`
start from the true beginning. Participants and transactions are symmetric in
the safety runs that say so. Deadlock is not checked: a settled transaction is
a legitimate end, and so are an empty queue and a drained lane.

In `services` every limit of the code is met: the counter overflows, a key waits
for the only slot and for the only item of a drain, the second failure exhausts an
item, a batch is full or waits behind the outstanding one, the ledger's budget is
spent by one transaction, the second tombstone evicts the first. Two boots make a
zombie and its replacement; one lost answer is enough for an update to land after
its sender gave up; a lease of 1 lapses while its renewal is under way.

Fairness. In the participant: elections succeed, committed entries are
applied, and the coordinator decides and redelivers its decision. In the
coordinator: an operation resumes when what it awaits happened, a call returns
once answered, the sweep timer keeps firing, clocks advance, participants serve
what reached them, and a write its node still awaits lands. In the queue: a
scheduled microtask runs, a timer fires, and `reconcileFn` settles, for which the
queue has no timeout of its own. In the lane: the event loop runs what is ready,
timers fire, subscribers answer, and the log commits what is proposed. In the
lifecycle: the sweep's interval timer fires, its calls are answered, and time
passes. No fairness is given to failures, to clients, to the deadline of a pending write, or to a write whose
node gave up on it.

### What the code does not keep

- `participant_redelivery`: a session statement delivered again after its
  answer was lost is staged twice under one entryId and commits twice.
  `sql-query-engine-write-execution.js:60-64` says a retry is "never a fresh one
  that applies the write twice".
- `distributed_commit_point`: when every participant's evidence is durable and
  a participant-row or status write then throws, the COMMIT is answered with
  `commitPointReached: false`, and another node's sweep records COMMIT.
  `distributed-transaction-commit-point.js:13` says false "establishes that
  nothing was committed".
- `distributed_in_doubt`: a failed decision write sets a flag after which that
  node only adopts a recorded decision. If no other node records one, the
  participants stay PREPARED until a restart, although
  `distributed-transaction-decision.js:19-22` says "recovery resolves it". With a
  second node the transaction settles (`distributed_liveness`).
- `cache_columns`: an older event that arrives late fills a column the newer
  version set to NULL, because the backfill takes NULL for missing. The doc of
  `stampOriginHlc` (`partition-cdc-generator.js:244-245`) says the stamp makes the
  cache's comparison "order-insensitive".
- `lifecycle_lapse`: `isExpired` converts a NULL lease to 0, so the sweep
  disconnects a row that is joining and was never granted a lease, although
  `node-ready-lease-authority.js:55` speaks of "a row whose lease is recorded and
  has lapsed".

Met while modelling, and allowed for in the properties rather than claimed
against the code: a batch whose deadline fires while the outstanding batches are
at their limit may be left without a timer until the next event
(`BatchStranded`; `partition-cdc-obligation-delivery.js:226-227` says "otherwise
by the deadline"). A fresh registration over an older row keeps that row's
lease, and the new boot's CONNECTED heartbeats count as not newer until it is
READY or the sweep clears the lease.

## Proofs

All theorems hold for every value of the constants; the only assumptions are
the `ASSUME`s of the modules (bounds are naturals, limits are positive, the owner
is a node, the null values are not members of the sets they complete), which TLC
evaluates in the runs, and the hypotheses of `StagedTheorem` and
`StagedOnOneReplica`, discussed with them.

`ParticipantTransactionProofs`: `TypeCorrect`, `ReservationTheorem`,
`TerminalTheorem`, `CommitInfallibleTheorem`, `EvidenceTheorem`. The states of
the log form a chain of applications, so facts about one application lift to all
earlier and later states; the strengthening (`LogSound`,
`DecisionSoundness`) says that a PREPARED row is alone and still validates, that
a decision in flight is the recorded one, that COMMIT is recorded only with
evidence, that evidence is the digest of a row that is PREPARED or decided, and
that a decided row has the recorded decision.

In the same module, `FirstCommitterTheorem`, `StatementOnceTheorem` and
`ParkedTheorem`. The first two rest on the history of the log (`HistoryInv`): the
generation counts the writers since the origin, a transaction is among them only
once it committed and then at the position after its base, and a statement that
ran has its outcome row; what a PREPARED row validates is therefore still true
when its decision appends the writes. `AnsweredRan` adds that a write answered
with success has run in the last state. A write is parked by a replica that is
reserved, and the application that ends the reservation of a replica empties its
parked writes in the same step.

`StagedTheorem` and `StagedOnOneReplica`, of the same module, are about
`StagedWritesKept`. A statement answered as staged is in the leader's volatile
session only, so the invariant (`StagedKept`) follows it: it is in every session
of the transaction, and from the moment the session is sealed no statement is
answered any more and the PREPARE under way, then the row, counts them all. A
restart before the seal takes the session, which is not opened again once its
BEGIN was answered, and nothing commits. With several replicas this needs that a
transaction has no two sessions at once (`OneSession`), which `StagedTheorem`
assumes: a BEGIN whose answer was lost may open a session at one replica that
leads and a second one elsewhere, and which of them a statement and the seal reach
is the router's choice, which is not modelled. Without the hypothesis TLC finds the session that was not given the
statement sealed. With one replica it always holds, and `StagedOnOneReplica` has
no hypothesis but that.

`DistributedTransactionProofs`: `TypeTheorem`, `EvidenceTheorem`,
`AtomicityTheorem`, `FanoutTheorem`, `AdmittedTheorem` and `RefinementTheorem`.
Atomicity is not inductive by itself: a COMMIT may sit in a delayed write, a
stale memory or an old participant row. The invariant `Inv` therefore says of
each of those places that what it counts as evidence is a participant that once
answered PREPARED (`TxSound`, `WriteSound`), that such a participant stays
PREPARED until a decision is recorded (`RowSound`), and that a node or a request
carries only the recorded decision (`TxSound`, `RequestSound`). Since a row
update lands only while no decision is recorded, recording one can contradict
nothing (`LandSound`). The refinement maps the set, the decision and the
participants' rows to `AtomicCommit`; a node's own steps are stutters.

`AnswerTheorem`, of the same module, needs what a node may rely on when it
answers (`AnswerInv`): a set it believes frozen is the durable one, so no
participant joins behind its back; one it noted as finished is finished; and in
a stage that has not failed every participant is still being called or has done
what it was called for. A crash, an expired budget or a stale memory can only
make a node give a lesser answer.

`StampOrderProofs`, the clocks: `CompareIsStrictTotalOrder`,
`StampsFollowCausalityAlways`, `ClockTracksWallClocksAlways`, `HlcTypes`. The
strengthening (`HlcInvariant`) adds that no clock is behind anything its node witnessed, which
makes the next timestamp later than all of it, and that no timestamp is ahead of
the fastest wall clock plus the overflows, which bounds what `update` adopts.

`NodeLifecycleProofs`: `GenerationsFencedAlways`. The property is about steps,
and a step may be the landing of an update sent long ago. `FenceInvariant` says
that every update under way is one of five kinds (registration, publication,
stop, reap, disconnect), and what each expects of the row; such an update, where it
matches, leaves a row the property allows (`LandFenced`). What an update says
about its sender stays true, because time and the set of stopping boots only
grow (`SoundStays`).

`LeaseStandsAlways`, of the same module, is about the lease. `LeaseInvariant` says
what the row's lease is (`RowLeased`): that of its heartbeat while the row is
READY, and otherwise none, or one a joining boot inherited, or one that lapsed
before its row was reaped. It also sorts the updates under way by what they do to
a lease (`Enters`, `Grants`, `Connects`, `Withdraws`, `Strands`, `Lapses`): a grant
expects a heartbeat no newer than its own, a publication without a lease expects a
row that is not READY, a withdrawal is of a boot that stops, and a reap or a
sweep expects a lease that had lapsed when it was read. No order of arrival is
assumed: a grant that lands late matches only a row it does not set back. The
property excepts a JOINING row, whose lease is an earlier boot's: there a
publication of the joining boot may replace it, however many answers were lost.
`LifecycleTypes` follows from the two invariants.

`CdcLedgerProofs`: `OwedWithinBudgetAlways`, `LedgerCompleteAlways`,
`DeliveredWereConfirmedAlways`. The invariant says of each replica that its
ledger is sound (what is recorded is owed, retained or reclaimed; the reclaimed
rows are a prefix; owed and reserved are within the budget) and of every
acknowledgement, in the log or proposed, that it names confirmed rows. Recording
adds an interval at the end, compaction takes rows from the front, and a snapshot
copies a sound ledger. `NoUnknownRowAlways` and `ReplicasAgreeAlways` compare
replicas: `History` says there is one sequence of ledgers that the log builds, of
which every replica has the one at its position, and that an acknowledgement
names only rows recorded before its place in the log. A lagging leader can name no
row the log has not recorded, since its ledger is an earlier one of the same
sequence. `LedgerTypes` follows from both.

`CdcLaneProofs`: `LaneTypes`, `NoRowForgottenAlways`,
`AcknowledgedAfterReceiptAlways`. That a sleeping lane has nothing to do is the
last of a chain of facts (`LaneInv`): an owed row behind the scan's cursor is
acknowledged unless the scan is provisional (`Scanned`), and none lies between
the cursor and the row being delivered (`AtRow`); a row acknowledged is in the
batch or in a command (`Carried`); a command is awaited, or the retry is armed or
running and has it before it (`Watched`); a lane that neither drives nor retries
has acknowledged all that is owed (`Awake`). The functions from lanes to lanes are
treated once (`LaneFollows`: they take no owed row from `pending` and lose no
wake-up), and the actions that call them follow. Receipt rests on the cell of the
row in delivery: one that is not stale is for today's subscribers, and those it
counts have the row (`CellSound`).

`ReconcileQueueProofs`: `QueueTypes`, `WaitersTheorem`, `WakeUpTheorem`. The
invariant `QueueInv` says that the insertion order lists exactly the pending keys
and a drain visits only keys still pending, that until a shutdown the running
calls are those of the items in flight (which bounds them by `MaxConcurrency`),
that a stopped queue is empty, and where each unanswered work is. Most steps
change the four maps at one key, and `KeyStep` says once what such a step keeps.

`StampOrderProofs`, the cache: `NewestDelivered`, `CacheTypes`. That the order of
delivery does not matter needs (`Follows`) that a key whose newest event is a
deletion has the tombstone of that very deletion, and that two events never
carry the same stamp; a key whose tombstone was evicted is excepted, as in the
property.

`ServicesProofs`: `ServicesImplementComponents` says that a behaviour of the model
`services` checks is, for each of the six components, a behaviour of that
component's specification: a step moves the component exercised and leaves the
variables of the others alone. What is proved of the components therefore holds
of that model, and `ServicesTypes` (`ServicesTypeOK`) puts their types together.

Only model-checked: all liveness (`ParkedWriteReadmitted`,
`EveryTransactionSettles`, `EveryWorkAnswered`, `EveryRowDelivered`,
`GoneNodeIsCleared`), which is out of the proof system's reach. Every invariant
and action property of a passing run is proved; `StagedWritesKept` over several
replicas only from `OneSession`. SQL that fails when a transaction is prepared
(`Failing`) is covered by the proofs; the runs exercise a failing ordinary write.

## Not modelled

In the participant: row-key sessions (no caller enables them), reads in a
session, cutover pause, topology and removal fences, the ROLLBACK
that carries no decision record. In the coordinator: the ended-transaction
record, commit-miss resolution, write-operation rows, the timeout abort nobody
calls, telemetry. Which replica a request reaches when a deposed leader still
answers is routing, which is not modelled: `StagedWritesKept` is checked with one
replica, and proved for several where no transaction has two sessions. A cycle of
reservations between transactions is not modelled.
Consensus is external: the model takes from it that committed entries are
applied in one order, and that uncommitted ones may be lost.

In the cache: the AUTHORITATIVE modes, the absence sweep, rows without a stamp,
table-specific merges. In CDC delivery: the transient delivery of tables without
a ledger, what a subscriber does with an event, the refusals that hold a lane for
good, shutdown. In the lifecycle: endpoint rows, clocks that disagree. The
operation lane and the workflow coordinator under it are modelled only as the
transaction coordinator uses them.

Not modelled at all: the raft host (its correctness is that of the order of
persistence a native library expects), learner promotion (pure decisions whose
ground is that library's election rule), split, merge, migration and index
workflows (staged SQL over many services), routing and message groups (lost, late
and repeated messages are in every module that sends one), membership and
rebalancing (heuristics over derived state), SQL planning, runtime hosting,
pgwire, admin and CLI (data transformation and I/O).
