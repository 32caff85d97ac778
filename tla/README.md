# Verification of Kodansu

Kodansu is a stateless, Kafka-compatible broker. Brokers ("replicas") keep no
state on disk: everything durable is an object in an object store, and replicas
coordinate only through conditional requests on it (create-only PUT, PUT if the
etag still matches). This directory holds TLA+ modules that model the parts of
the code that make that safe, the TLC runs that check them on small instances,
and the theorems TLAPS proves about them for every instance.

`PROJECT.json` is the index: components with what is and is not modelled, runs,
mutants, the source lines of every definition, findings, hazards and theorems.

## 1. The system

| part | source | modules |
|---|---|---|
| leaseless flush, names and offsets | `dynostore/coalesce.rs`, `segments.rs` | `SegmentLog` |
| expiry, size merge, compaction lease | `dynostore/retention.rs`, `compaction.rs`, `segments.rs` | `SegmentLog`, `ServedLog` |
| per-key compaction | `dynostore/compaction.rs` | `ServedLog` |
| prefix index, fenced view | `dynostore/index.rs` | `ServedLog`; one step each in `SegmentLog` |
| watermarks, served end, truncation | `dynostore/watermarks.rs`, `retention.rs` | `ServedLog`, `SegmentLog` |
| fetch and list offsets | `dynostore/fetch.rs`, `service/fetch.rs` | `ServedLog` |
| admission and flush queue | `dynostore/coalesce.rs` | `FlushQueue` |
| producer deduplication | `dynostore/codec.rs`, `coalesce.rs` | `ProducerLog` |
| transactions, producer ids | `dynostore/txn.rs`, `service/txn/*` | `Transactions` |
| CAS objects | `dynostore/opticon.rs` | `OptiCon`, `AtomicObject` |
| classic groups | `coordinator/group/administrator.rs` | `ClassicGroup` |
| consumer groups (KIP-848), migration | `coordinator/group/consumer.rs`, `migration.rs`, `assignor.rs`, `administrator.rs` | `ConsumerGroup`, `Assignor` |

(`dynostore`, `service` are under `src/tansu-storage/src`, `coordinator` under
`src/tansu-broker/src`.)

How they interact: a produce request is admitted into the open window of its
*prefix* (a group of topics that share segments). A closed window is flushed as
one *segment*: an object whose name is the next free sequence number and whose
footer lists, for every sub-stream (topic, partition) in it, a base offset, a
count, and the producer coordinates of its batches. The create-only PUT is the
only arbiter of offsets, and of duplicates, between replicas. Readers and the
flush find the end of a sub-stream by folding footers into the prefix index.
Maintenance deletes or merges segments at the same time, on any replica, and
must not free a name or an offset for reuse. Transactions are a ledger,
`meta.json`, changed by CAS beside the log. Groups are documents of their own;
any replica serves any member.

What makes it hard: decisions are derived from an index that is stale by the
time of the PUT; a PUT may fail after it landed, or land after its sender gave
up; a process may die between any two requests; several floors, each in an
object of its own, have to be written in the right order; calls such as EndTxn
are sequences of requests with other calls of the same client free to run in
between; and readers, flush and maintenance of one process share one index.

## 2. Modules

In every module one action is one request to the store (or one critical
section), with the local code up to the next `await`. Faults (lost answers,
failed and late requests, restarts, timeouts) are actions, bounded in the runs
by budgets that the modules take as constants.

### SegmentLog

The segment sequence of one prefix: flush and maintenance on any number of
replicas. A refresh of the index, and a read of the sequence floor that follows
a listing, are one action together with their reads (`ServedLog` takes them
apart).

| variable | code |
|---|---|
| `store` | the segment objects `[name, by, ents]`; `by` is the footer's nonce |
| `floor` | `SeqFloor::next_seq_floor` in `seq-floor.json` |
| `high[x]` | `Watermark::high` of sub-stream `x` |
| `net` | conditional PUTs that outlived their sender |
| `idx[r]`, `cfloor[r]` | `PrefixIndex` of replica `r`; the certified floor of its generation (-1: none) |
| `seq[r]`, `hint[r]` | `cached_seq`, `cached_high` (0: none) |
| `wpc`, `cur`, `cand`, `base` | the flush: control point, window, candidate name, bases |
| `mpc`, `kind`, `run`, `pass`, `lost`, `todo`, `load`, `mcand` | the maintenance pass |
| `since`, `next`, `made`, `acked`, `expired` | history, read by no action except `Settled` |

Flush: `StartFlush`, `FlushRefresh`, `FoldWinner`/`FoldFailed`, `Claim`,
`DeriveBase` (one sub-stream at a time: `leaseless_base` awaits in between),
`PutOk`/`PutExists`/`PutError`, `ProbeOurs`/`ProbeTheirs`, `FailFlush`.
`PutError` covers the three outcomes of an ambiguous create: landed, never will,
still in flight (then `LatePut` may deliver it at any later time).

Maintenance: `SelectExpired` or `SelectRun`, `AcquireLease`, then for an expiry
`WriteHigh` per sub-stream and `HighsWritten`; for a merge `FetchRun` (or
`FetchGhost`), `MergeClaim`, `MergeOk`/`MergeLost`/`MergeError`/`MergeProbeOurs`,
`MergeReclaim`, `InsertMerged`/`FoldBelowWon`; then both `RaiseFloor`, `Delete`
(one object at a time, in any order) and `Retired`. Which segments are due is
nondeterministic, which includes every choice the selection code can make.
Every refusal or failure of a pass is `Abort`. `Sync` is a reader's refresh and
`Crash` empties a replica's memory; both are enabled in every state.

Assumptions, each a constant so that a run can drop it:

- `BoundedPause`: the timing assumption. No name at or above the point a claim
  started from is retired before that claim, and the create it sent, are over,
  and a lease holder does not outlive its term (`Settled`, `AcquireLease`). The
  code relies on flush budgets (seconds) being far below retention and merge
  intervals; nothing in it enforces this.
- `WatermarkGetFails`, `WatermarkPutFails`, `FoldBelowFails`: whether three
  requests whose failure the code ignores may fail. FALSE in the runs; what
  happens when they do is in section 4.

Abstractions: a window is started again only if no trace of it exists, which is
what the deduplication of `ProducerLog` provides. The nonce of a merge is its
pass: the random `u64` is assumed not to repeat. `MAX_ATTEMPTS` and the time
budget are `FailFlush` at any point. The refresh of `FoldBelowWon` is the
incremental listing; a reconciling one would fold more.

### FlushQueue

How batches of one prefix reach the flush (`admit_prefix_coalesced` and its
helpers). `pending`, `window`, `size` and `backfill` are the open
`PrefixCoalesceBuffer`; `closed`, `enqueued`, `started` and `draining` are the
`PrefixFlushQueue`; `timers` are the linger timers that have not fired; `flights`
are the windows being flushed; `waiting` is the position a connection waits for
(back-pressure). `Admit` is the whole critical section under the buffers lock:
push, thresholds, close and enqueue, or start a timer. `LingerElapses` is the
timer task, `StartFlight`/`WorkerEnds` the two outcomes of the worker's pop,
`FlushAnswers`/`FlushPanics` the end of the flush task. A batch is a model value
with a size class. A poisoned lock is not modelled.

### AtomicObject and OptiCon

`OptiCon` is the read-modify-CAS cell that every JSON object of the store is
kept in: one object, any number of replicas with a cached `(value, version)`
each, any number of calls (`with_mut`, `create`, `remove`, `get_opt`) that share
their replica's cache. A request is two steps, the store's (`PutLands`,
`PutConflicts`, `GetServed`, `DeleteServed`) and the receipt of its answer
(`Replace`, `Got`, `Clear`), so answers overtake each other; requests fail,
their answers are lost, and a failed PUT may land later (`LateLands`). Closures
are the constant operators `Modify` and `Outcome`.

`AtomicObject` is what callers rely on: a call takes effect at most once, at one
instant, on the value of that instant, and is answered with what it did there or
with an error; a read returns a value the object has had. `OptiCon` implements
it under the mapping `val <- obj.val`. A closure that returns an error is no
special case: `with_mut` writes what the closure left behind in either case.

### ProducerLog, ProducerOrder

`ProducerLog` is idempotent produce: how a flush decides, for every parked
batch, whether to append it, to answer it with the offset it already has, or to
refuse it. `segments` are the footers, `folded[r]` how many of them a replica's
index has folded, `parked`/`flush` its window and the flush under way, `late` the
creates given up as failed that may still land. `ProducerTail` is the fold of
the coordinates the index keeps (`Kept` is `retain_foldable_producers`),
`Classify` is `ProducerTail::classify`, `Plan` one attempt over a window.
Sequence numbers wrap at `IMax` (i32::MAX) in `SeqIncrement` and at the signed
range in `WrappingAdd`, as in the code.

`ProducerOrder` names what the proofs say about a log and a plan (`Ordered`,
`Chained`, `PlanSound`); it adds no behaviour.

### Transactions

Extends `ProducerLog` with the ledger (`lastPid`, `txns`: per transactional id
its producer id and the detail of each epoch), the calls of InitProducerId and
EndTxn under way (`calls`, two per client: the current one and one it gave up
on), the acknowledged batches whose range is not registered yet (`regs`), the
group offsets (`group`) and the clients (`cl`). InitProducerId is `InitCas`,
`Seed`; EndTxn is `Prepare`, then `Mark`, a flush and `RegisterMarker` per
produced partition, then `Resolve` and `CommitOffsets`; a rollback by
InitProducerId is the same steps. `AddPartitions`, `StageOffsets`, `Send`,
`Resend`, `Abandon`, `Crash` are the rest. `LastStable`, `AbortedList` and
`Delivered` are `offset_stage`, the aborted list and the filter of a
read-committed consumer.

A client keeps at most `MaxInFlight` batches unanswered and ends a transaction
only with all of them answered; `MaxInFlight` is at most the dedup window.
`disturbed` records that a call was abandoned or failed part way, or that a
second client took the id over: `ReadsCommitted` and `OffsetsWithOutcome` are
stated for runs without (section 4 says what happens otherwise).

### ServedLog

The read path of one prefix against its maintenance. `mem[r]` is what a broker
remembers (index, opaque names, certified floor, hints, cached watermarks), `rf`
its single-flight refresh with every request of it as a step (probe, floor check,
pages of a listing, footers that vanish, relists, reconciling pass), `pr` the call each
consumer or maintenance loop is in. `Fenced` is `with_fenced_segments`. Fetches
go through range check, confirmation, plan, read, vanished segments and gap
checks; resets through `coalesced_earliest_offset`; passes expire, merge,
rewrite and certify. Appends are one step, as `SegmentLog` shows them to be.

Coarser than the code, with what that leaves unchecked: `Fence` ranks segments by
name, since there is one era (`writer_epoch` would rank first); a rewritten
segment carries one run of offsets per sub-stream (`Carrying`), where
`capped_regions` may cut it into several segments; a pass always wins the next name
(`Put`: the loop that takes the name after a lost one is `SegmentLog`'s); the floor
read by `Certify` is committed in the step of its GET, where the code checks in
between that the index was not invalidated; and a lease does not lapse within a pass (`LeaseLapses`):
the code does not look at it again before it retires segments, so this is an
assumption on the pauses of a maintainer, as `BoundedPause` is in `SegmentLog`.

`Preempt` says where calls of one broker interleave: FALSE, at their requests;
TRUE, also between two critical sections without a request in between. The code
allows both; the passing run uses FALSE (section 4 says what TRUE shows).

### ClassicGroup

A group is `generation.json` (`gen`, under CAS), a document per member (`doc`)
and create-only assignments by generation (`asg`). Replicas keep nothing. A
request (`req`) is a process: join with the batch admission of waiting members,
sync of leader and followers with its fence, heartbeat, commit with its two
reads, leave, and the sweep of silent members that each of them starts with. A
document that is read and then written under CAS is one step: a lost write
changes nothing and is retried.

### ConsumerGroup, Assignor

Consumer-protocol groups: `consumer.json` (`doc`), the classic generation a
group may be converted from (`gen`), liveness stamps (`stamps`), two memos per
replica (`memo`). The operators with the code's names (`sweep`, `reconcile`,
`last_contact`, `owned_by_others`, ...) are `consumer.rs`; conversion, classic
members inside a consumer group and the way back are `migration.rs`. `Assignor`
is the server-side assignor (`uniform`, `range`). Time is a clock of `Tick`
steps; an instant is kept as its age, capped at `Old`, beyond which nothing
distinguishes instants.

A classic request against the generation is `ClassicJoins` and `ClassicWrite`,
`ClassicLeaves` and `LeaveWrite`, `ClassicSyncs` with `ClassicCreate` and
`ClassicFence`, or `ClassicBeats`; `beat` is the age of the last contact in each
member's document, which a conversion carries over. A conversion is `AdmitView`
(with the refusals of `convert`), `Mark`, then `complete_conversion`, `converted`
and `CompleteWrite`, with a count of conflicts of its own.

Client contract: one request at a time; between requests a consumer moves to
what it was last told (`Reconcile`) and reports what it owns; no request takes
longer than a tick, except the one a client gave up on (`late`).

Left out: `consumer_commit_verdict`, `consumer_fetch_verdict`, descriptions,
instance ids of classic members, re-created topics, patterns and racks, and the
refusals of a conversion that depend on bytes (a protocol type, a subscription
that does not parse, user data): `Convertible` has them as a policy that is on or
off. `converted` reads the member documents, the assignment and the topics in
one step, after the read of `consumer.json` and before its write.

## 3. Runs

| run | instance | states | checks |
|---|---|---|---|
| `segment_log` | 2 replicas flush 3 windows of 2 sub-streams, one of them maintains in 2 passes | 217 909 | `NameNeverReused`, `OffsetsUnique`, `Gapless`, `AckedRetained`, `FlushedOnce`, `EndRecoverable`, `FloorAhead` |
| `segment_log_progress` | fair flush workers whose requests succeed | 13 571 | `FlushAcked` |
| `flush_queue` | 2 connections, 4 batches: plain, marker, backfill | 28 215 | `AdmissionOrder`, `OneWorker`, `NoWindowCutShort`, `EveryBatchAnswered`, `AdmissionNeverStuck` |
| `opticon` | scenarios of three calls of two replicas | 25 736 | `CacheCoherent`, `Implements`, `CallsReturn` |
| `classic_group` | 2 members, 3 requests, 6 scenarios | 1 207 213 | `AssignmentCovers`, `AssignmentAgreed`, `CommitFenced` |
| `classic_group_converges` | a resubscription or a failed request | 55 324 | `Converges` |
| `transactions` | 4 clients, 2 transactional ids, 2 replicas, 8 scenarios | 318 952 | `TypeOK`, `AppendedOnce`, `AppendedInOrder`, `AckedWhereStored`, `NeverRefused`, `IdentitiesDiffer`, `OneOutcome`, `ReadsCommitted`, `OffsetsWithOutcome` |
| `transactions_epoch_reuse` | two transactions under one epoch | | `ReadsCommitted` is violated |
| `served_log` | 2 brokers, 1 consumer, 1 maintainer, 16 scenarios | 661 310 | `TypeOK`, `NoSkip`, `RefusedIsGone`, `EarliestHonest`, `Retained`, `CertifiedIsDead` |
| `fetch_into_gap` | a certified gap above one segment | | `ReadIsAnswered` is violated |
| `consumer_group` | 3 consumers, 22 scenarios | 226 295 | `TypeOK`, `OwnedOnce`, `TargetsBalanced`, `SweptIsSilent`, `Converges` |
| `conversion_mid_rebalance` | a classic group between two generations | | `OwnedOnce` is violated |

Each property is stated in words above its definition.

### Bounds

- `segment_log`: the third window is flushed into a log of two that is being
  merged, the second pass begins once both windows are written, and while a pass
  runs one create at a time is under way or in doubt (`FewAtOnce`). Within that
  a flush can lose its name, be ambiguous, cross a retirement of every earlier
  segment and follow a restart, and a pass can be aborted and taken up again.
  The windows and the sub-streams are symmetric.
- `transactions`: `IMax` = 4, so that the scenario of six sends wraps; at most
  four sends where batches are also resent; windows of two coordinates. Batches
  of one record: section 4 says what a larger one does at the wrap.
- `served_log`: logs of one to three segments, each scenario with one or two of
  the events; probe windows and pages of two names, two relists, two attempts,
  so that every limit is reached.
- `consumer_group`: one to three partitions of one or two topics; scenarios start
  from a fresh, a running, a converted or a deserted group, just before a
  timeout where one is about to run out.
- `classic_group`: two members because admission and leadership compare two; a
  second request of the first, which it has given up on.

Each mutant (section 5) is found within these bounds. Deadlock is off where the
system really stops: once the budgets are used up.

### Fairness

- `segment_log_progress`: weak fairness of each flush worker's own steps (its
  task is always rescheduled), no failed requests of the flush and no restarts.
  The code ends a flush after 64 attempts; the property is about flushes that
  lose fewer races than that, which the number of windows guarantees.
- `flush_queue`: the runtime runs the worker, the timers and woken connections,
  and a flush task ends (it has a time budget) or panics.
- `opticon`: every call is scheduled and every request answered, with an error
  at the worst.
- `classic_group_converges`: members keep sending, requests are served, and a
  poll of the join or sync loop that could go on does so in the end: the loops
  poll within their session timeouts. Only changes that need no further
  sweep: a departing member that another join admits in its batch, and whose
  document is deleted after, is put right by the next sweep only.
- `consumer_group`: consumers that run keep sending and are served, a consumer
  does what it was told, and a replica's memo runs out. The enabling
  conditions are written out in `FairSpec`.

## 4. What the models show beyond "it holds"

Three runs find what the repository says to be otherwise; `PROJECT.json` quotes
the lines.

- `transactions_epoch_reuse`: the ledger keeps one detail per epoch. A second
  transaction under the epoch of an aborted one puts the detail back to Begin,
  and its commit clears the ranges of both: the aborted records become readable.
- `fetch_into_gap`: a fetch reads on after it has records, meets a certified
  gap, and answers OFFSET_OUT_OF_RANGE for a position whose records it has read.
- `conversion_mid_rebalance`: a classic generation without its assignment yet is
  converted as if nobody owned anything, while its members still consume.

The following is reproducible by setting the named constant, scenario or
property; the passing runs exclude it, and the hazards say so.

- `BoundedPause = FALSE`: a late writer does not lose its create if its candidate
  was created *and retired* during the pause (`NameNeverReused`).
- `WatermarkGetFails = TRUE`: `leaseless_base` treats a failed read of the
  persisted floor as 0; after an expiry of the tail a cold replica reuses
  offsets (`OffsetsUnique`).
- `WatermarkPutFails = TRUE`: expiry ignores the failure of the floor write it
  makes before deleting, and deletes (`EndRecoverable`).
- `FoldBelowFails = TRUE`: after a failed refresh in `fold_below_won` the merged
  segment is indexed above names the index has not folded, and later refreshes
  start after it (`OffsetsUnique`).
- `ClassicGroup` with a failing metadata write: the member document is written
  before the generation that should carry the change; the retry compares with
  what it wrote itself and never rebalances (`SubscriptionAssigned`).
- `Transactions`, `EndedIsResolved`: a transaction that overlaps one already
  aborted never resolves, since only prepared ones count as ready; the last
  stable offset stays pinned.
- `Transactions`, batches of several records: one that straddles i32::MAX has its
  last sequence computed by `wrapping_add`, so the next batch is out of order.
- `Transactions`, `disturbed` behaviours: records are visible before their range
  is registered; a failure between the ledger step and the offset commit
  loses staged offsets; an EndTxn retried after a failed marker writes no
  markers, since its transaction is no longer in Begin; a zombie's epoch is
  fenced by the log only once the new epoch has written.
- `ServedLog`, `MCDrained`: EARLIEST of a drained log reads the log end after the
  emptiness check; an append in between is skipped (`EarliestHonest`).
- `ServedLog`, `MCRace` with `Preempt = TRUE` and two consumers: between the prune
  and the invalidation after a 404 another read of the broker plans from an
  index without the merged segment (`NoSkip`).
- `ServedLog`, `MCCaughtUp`: a consumer at the end of a log that drained is told
  OFFSET_OUT_OF_RANGE by a broker with an older end (`CaughtUpInRange`).
- `ConsumerGroup`: a fresh group that a classic and a consumer member join at the
  same time gets documents of both types; with `late = 1` in a larger scenario a
  request served after its retry may leave a revocation unacknowledged until the
  rebalance timeout; a client that reports its partitions only on change may
  never acknowledge. A cooperative classic member that was swept after a session
  of silence and rejoins by its old id is seated anew (migration.rs:372) while it still consumes
  what it had, until its sync: `OwnedOnce` is checked with an eager member in the
  scenario where a classic member is swept. A classic heartbeat served after the conversion has read the
  member's document renews a document nobody reads again: `SweptIsSilent` does
  not count it as a contact. The fence of `sync_once` compares generations and not the
  conversion mark, and `consumer_checked` survives a lost CAS.
- `OptiCon`: a `with_mut` replaces the cache when its answer arrives, even by an
  older version. Writers are safe (their PUT conflicts); a read is promised a
  value the object has had, not the latest.
- `FlushQueue`: the bound on closed windows is per connection: each may close one
  window more before it waits.

## 5. Mutants

Each property of a passing run is violated by a mutant of the code it is about
(`PROJECT.json`, "mutants"; the mutated operator stands above the original): a
claim without the floor, a lost create retried with its old bases, a hint that
advances before the create, a lost merge that retires its run, a probe that
ignores the nonce, deletes before the floors, a floor one too low, a winner that
is not folded; a worker that is always spawned, a timer that does not check its
window, back-pressure off by one; a PUT without its condition, a cache that
takes a new version with its old value, a conflict retried without a re-read; an
assignment in force for any generation, an admission that forgets members, a
stale commit accepted; a classification that reopens, lets gaps through or
answers with the newest offset, a fold that is not refreshed, an epoch handed
out twice, a transaction prepared again, an abort whose ranges are dropped;
an index that is not invalidated, a refresh that is skipped, an expiry of the
oldest regardless of position; a reconciliation that hands over what another
member still owns, a sweep that ignores the stamps.

## 6. Proofs

The theorems hold for every number of replicas, sub-streams, windows, passes,
members, requests, clients and partitions, under the named assumptions on the
constants only (`SegmentLogAssumption`, `GroupAssumption`, ...), which TLC
evaluates in the runs. Every invariant was checked with TLC on the instance of
its run before it was proved.

### SegmentLog_proofs

| theorem | statement | condition |
|---|---|---|
| `TypeCorrect` | types | none: every fault enabled |
| `NamesConsistent`, `NamesNeverReused`, `FloorWriteAhead` | `NameInv`, `NameNeverReused`, `FloorAhead` | `BoundedPause` |
| `ContentsConsistent`, `AckedNeverLost`, `WindowsFlushedOnce` | `ContentInv`, `AckedRetained`, `FlushedOnce` | `BoundedPause` |
| `EdgesConsistent`, `LogGapless` | `EdgeInv`, `Gapless` | `BoundedPause` |
| `FloorsCoverExpired`, `EndAlwaysRecoverable` | `LowInv`, `EndRecoverable` | and not `WatermarkPutFails` |
| `IndexesComplete` | `CoverInv` | and not `FoldBelowFails` |
| `BasesAboveLog`, `OffsetsNeverShared` | `OffsetInv`, `OffsetsUnique` | and none of the three faults |

Section 4 has a counterexample for `NameNeverReused` without `BoundedPause`, and
for `EndRecoverable` and `OffsetsUnique` with the faults.

`NameNeverReused` is not inductive. `NameInv` strengthens it along the argument
that a create either finds its name taken or creates exactly `next`: names are
created densely and every name below `next` is live or below the floor
(`SpineInv`); what a replica remembers never exceeds what exists (`MemoryInv`);
a claim lies between its start and `next`, every name from its start on is still
live, and the index or the floor reaches its start (`ClaimInv`); one pass holds
the lease and deletes only names below the floor that no claim started from
(`LeaseInv`).

What the segments hold is proved in layers over `NameInv`: a window is unsent,
or sent under one name (`WindowInv`); a pass's run, load and merged object agree
with the store (`PassInv`); every entry goes back to one created segment
(`OriginInv`), and a copy outlives what it replaces (`CopyInv`, `RunInv`). On top
of them `LowInv` (what is expired lies below the persisted floors), `EdgeInv`
(each segment starts where the one before ended), `CoverInv` (an index knows, or
a floor covers, everything below its tail) and `OffsetInv` (a base derived from
it is the end of the log if the create wins). TLC checked these on the
`segment_log` instance and on one with two maintainers (5 025 346 states).

### FlushQueue_proofs, OptiCon_proofs

`QueueTypeCorrect`, `QueueNeverStranded` (`OneWorker`), `AdmissionAlwaysInOrder`
and `WindowsNeverCutShort` for any connections and batches. The strengthening
says that the worker flag is set exactly while a worker exists and that the
counters agree with the queue; for the order, that the closed windows and the
open one are consecutive cuts of what was admitted and not yet flushed (`Cuts`).

`CellTypeCorrect`, `CachesCoherent` and the refinement `ImplementsAtomicObject`
(`Spec => Implements`) for any replicas, calls and closures. The invariant says
that a pair (value, version) in a cache or an answer is *sound* (the current
version has the current value), that a PUT that may still land was *computed*
from the value its version stands for, and that effects and answers happened
where the control of a call says. A PUT that matches then writes the closure's
image of the current value, which is one step of the atomic object.

### ClassicGroup_proofs

`GroupConsistent` is the inductive invariant; from it `GroupTypeCorrect`,
`LeaderAlwaysMember`, `AssignmentAlwaysCovers`, `AssignmentAlwaysAgreed`,
`GenerationsNeverReusedEver` and `CommitAlwaysFenced`, the last two as action
properties. It says that what a request has read is no newer than the group and
agrees with it where the generation is the same (`ReqInv`), that the current
assignment is for the current members and the last two are kept (`AsgInv`,
`TopInv`), and that a stable client acts on a stored assignment (`ClientInv`).

### Transactions

Four modules. `ProducerLog_proofs`: the plan of one flush attempt, over
`ProducerLog` alone (`ProducerOrder` has the definitions its statement needs).
`Transactions_proofs`: types, what a step may do to the log, the calls, the
clients and the ledger, and whose an identity is. `TransactionsLog_proofs`: which
clients have an identity, where batches come from, outcomes and batches.
`TransactionsSafety_proofs`: the log, the answers, and the theorems.

| theorem | statement | condition |
|---|---|---|
| `PlanIsSound` | every plan is right, whatever the log and the window | none |
| `TransactionsTypeCorrect` | `TypeOK` | none |
| `IdentitiesAlwaysDiffer` | `IdentitiesDiffer` | none |
| `OneOutcomeEver` | `OneOutcome` | none |
| `OutcomeNeverReversed` | `OutcomeKept`: a prepared or aborted transaction moves only to its own outcome, until its client, answered, begins the next one under the same epoch (an action property) | none |
| `AppendedOnceEver`, `AppendedAlwaysInOrder`, `AckedAlwaysWhereStored` | the run's properties | `[]Room` |

`Room` says that no client's next batch would pass i32::MAX. Beyond the wrap a
lower sequence is the later one and the order the argument rests on is gone; the
wrap stays with TLC (a scenario of `transactions`), which also shows what goes
wrong there with larger batches.

The two theorems on outcomes hold whether or not clients reuse an epoch. An entry
of the ledger is an epoch's and not a transaction's, and add_partitions puts it
back to Begin without looking at it (txn.rs:664); the model numbers the
transactions of an epoch (`begun`, a history variable, also in the identity of a
marker), and `OneOutcome` speaks of one of them. That the entry goes back only
after the answer to the client's EndTxn is the client's doing, not a guard of the
code: it is the enabling condition of `AddPartitions`. What reuse does break is
`ReadsCommitted` (`transactions_epoch_reuse`).

The argument. `PlanSound` is about one attempt: the newest batch of a producer is
among the coordinates the index keeps of its segment (`NewestIsKept`), so the
tail's next sequence is the one after it (`TailIsNewest`), an admitted batch
extends an ordered and chained log (`NextFollows`, `OrderKept`), and a duplicate
is answered with the offset of that batch. It goes by induction on the window; the
induction, and the largest element of a bounded set, are taken from the
well-foundedness of `<`, since the library's induction theorems have an operator
as parameter. The lemmas about `Transactions` have `PlanSound` as a hypothesis
(`Given`), which `TwoTops` discharges with `PlanIsSound`.

Over the whole system: `IdInv` (the ledger gives every id a producer of its own,
a client or a call past its ledger step holds what it was given, and no two
hold the same), `MarkerInv` (a marker anywhere, or a call about to write one, fits the
ledger's state of its epoch if that is still of the same transaction, and markers
of one transaction agree), `FreshInv` (who has added no partition yet has no outcome
and no marker, or was answered the end of its last transaction), `WantInv` (a client that may send has its identity), `KeyInv` (a
batch anywhere was sent under an identity its client was given, below its next
sequence, and (producer, epoch, partition, sequence) names it as its id does),
`LogInv` (the log is ordered and chained, and so is the log each pending create
would make of the prefix it was planned for, with true answers). A create lands
only at the length it was planned for, so `LogInv` gives the new log's order;
together with `KeyInv` that is `AppendedOnce`. TLC checked these on the instance
of `transactions` (318 952 states; `KeyInv` and `LogInv` under `Room`, 309 436).

### Model-checked only

- Liveness: `FlushAcked`, `EveryBatchAnswered`, `AdmissionNeverStuck`,
  `CallsReturn`, both `Converges`. Fairness is out of the prover's reach.
- `NeverRefused`, `ReadsCommitted`, `OffsetsWithOutcome`. The first needs that a
  window of `WindowSize` coordinates holds every batch a client may resend, a
  counting argument over the fold; the other two are about states at rest and
  need the whole history of a transaction in an invariant.
- `ServedLog` and `ConsumerGroup`. Their safety rests on operators that fold over
  sequences and sets (`with_fenced_segments`, the assignor): what a fold computes
  for every input needs induction over data, which the prover does not have.
  `SweptIsSilent`, `OwnedOnce` and the six invariants of `served_log` are checked
  on the scenarios only.

## 7. Not modelled

The wire protocol (mostly generated conversions), command line, metrics and
tracing (no protocol state), cryptography (a library), the byte layout of
segments, topics and routing (the modelled prefix has fixed sub-streams), era
epochs of a prefix (one era), maintenance scheduling, quotas (arithmetic on
wall-clock time), ACLs (a pure function of the bindings), connections, the
client-side assignors of classic groups, and the object store itself (external:
conditional requests, modelled from how the code uses them). `PROJECT.json` has
the reasons part by part.
