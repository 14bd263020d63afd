# A verification model of meme-scanner

The program reads launch and graduation events of one contract family from an
EVM chain, keeps them in SQLite, and claims in a coverage table which blocks it
has read. A second service, the flow worker, records the trades of sampled
launches and proves, range by range, that none is missing. Both run for weeks
against a provider that drops connections, lags, limits its callers and now and
then replaces blocks; both are restarted by systemd or by hand. What makes them
correct is that **what the database claims to have read, it has read** - and
that is what the modules in this directory state, check and prove.

## 1. The system

### Base scanner (`python -m app.main`)

| component | state | operations | hard behaviour | what makes it correct |
|---|---|---|---|---|
| Subscription feed `app/heads.py` | connection count, `changed`, bounded queue, `overflowed` | connect, subscribe, receive, back off, give up | reconnects at any await of the watcher; a full queue drops | nothing dropped without a flag, no flag forgotten |
| Watcher, ws_first `app/block_watcher.py` | `feed_connections`, the notice in hand | startup, reconnect, queue and reorg recovery (`ws_recover`), `process_ws_event` | cursor, coverage, segment and gap rows are written in several commits; two writers of the same rows (notices and scans) | the cursor and the coverage never claim a block nobody read |
| Watcher, http_complete | `next_block`, retry count | `step`, `reconcile`, `process_range` | a reorganisation between any two reads; stored headers that replace reads; lagging heads | what lies below a canonical checkpoint is what the chain says |
| Database `app/database.py` | `launches`, `graduations`, `blocks`, `coverage`, `chain_state` | `save_range`, `save_event`, `record_gap`, `rollback_to` | interval merge, header pruning, identities that move | table canonical, rollback cuts everything at one block |
| Manual backfill `app/backfill.py` | the same database, under the writer lock | ranges with cursor `None` | runs between two runs of the service | must not disturb the live cursor |
| Market worker `app/market.py` | `outcome_targets`, `market_snapshots` | schedule, due queue of two, retry | call limits read before several calls; failing target at the queue's head | no target starves, limits hold |
| RPC client, decoding, assets, telemetry | pacing, caches, counters | calls, pure decoding | retries | - |

The watcher and the feed are asyncio tasks of one process that share the queue
and the flags; they interleave at awaits only. The market worker is a third
task. All write one SQLite database through one connection; `flock` keeps a
second writer process out.

### Flow service (`python -m app.flow_worker` and its operator scripts)

| component | state | operations | hard behaviour | what makes it correct |
|---|---|---|---|---|
| Worker `app/flow_worker.py` | subscriptions, recovery cursors, gaps, connection | ingest, `recovery_plan`, `recover_plans`, `reconcile`, disconnect and failover | events and cursor in separate commits, bounded recovery, two providers | a cursor stands only on recovered blocks; every outage leaves a gap row until it is recovered |
| Range proofs `app/flow_shadow.py` | jobs, ranges, per-stage metadata | `add_jobs`, `run_stage` with span halving and seeded islands | crash between events and proof, refused spans, budget waits | a proved range's events are stored |
| Bootstrap `app/flow_bootstrap.py` | frozen head, identities, bootstrap requirement | `freeze`, `_plan`, `_verify_job`, `promote` | resumed long after it was planned | cursors move only behind a contiguous proof, all or none |
| Store `app/flow_data.py` | events, gaps, features by version, targets | `store`, `gap`, `rebuild`, `require_bootstrap`, `complete_bootstrap` | duplicate delivery, two writing processes | features of an instant never use later events |
| Provider switch `app/flow_provider_switch.py`, `flow_switch_recovery.py` | durable switch record | connect, acknowledge, freeze, healthy, failed, resume | reconnects during a switch, restarts in every phase | one boundary per switch, healthy only when all gaps are closed |
| Cutover `app/flow_cutover.py` | durable session | phases, validation window, rollback | crash in every phase | verified only over a proof, no claim ahead of the store |
| Epochs, segments, activation | catalog of epochs, one database file each | prepare, seal, allocate, activate | crash between file and catalog row | a catalog row names a whole file; a healthy segment misses nothing |
| Gap, expired-gap and offline recovery | recorded gaps, contracts | recover, drain | must not extend what they prove | a gap closes only by proof |
| Budget `app/flow_budget.py`, lock, configuration | call counters in one table | count before send | two processes share a limit | the limit holds (not modelled) |

The worker and the shadow process share the database and the daily call budget;
the worker reads the base scanner's launches.

`PROJECT.json` lists each component with its status, and under *hazards* every
place, with its line, where this code can go wrong in a way a test would hardly
reach, with the properties that cover it or the reason why none does.

## 2. Modules

| module | models | built on |
|---|---|---|
| `Coverage` | the coverage rows of one kind: `record_coverage`, truncation | - |
| `LiveScanner` | ws_first: chain, feed, watcher, database | `Coverage` |
| `HttpScanner` | http_complete: chain, watcher with reconcile and stored headers, rollback, manual backfill | `Coverage` |
| `MarketTargets` | launches, outcome targets, the market task and its call budgets | - |
| `CoveragePromise` | the abstract specification of the flow service: what a coverage claim promises | - |
| `FlowCollector` | one target of the flow worker: socket, ordinary recovery, bootstrap proof, gaps, feature rows | - |
| `FeatureLedger` | stored trades, feature rows and their versions under reorganisations | - |
| `ProviderSwitch` | the worker from a lost connection to the proof that closes the outage, with failover and the operator's two commands | refines `CoveragePromise` |
| `Cutover` | one cutover session: operator, worker, systemd unit, rollback | refines `CoveragePromise` |
| `GapRecovery` | the proof of recorded gaps, live and expired | states the refinement |
| `OfflineDrain` | the drain of a stopped database, composed with `GapRecovery` over one store | `GapRecovery`; refines `CoveragePromise` |
| `Activation` | a research segment from request to activation | refines `CoveragePromise` |
| `CoverageTheorems`, `LiveScannerProofs`, `RecoveryProofs`, `ProviderSwitchProofs`, `CutoverProofs`, `ActivationProofs`, `FlowCollectorProofs`, `FeatureLedgerProofs` | proofs (section 4) | the module named; `LiveScannerProofs` also `MarketTargets`, the other half of the ws_first process; `RecoveryProofs` `HttpScanner` and `OfflineDrain`, the two that recover by reading ranges alone |
| `MC*` | instances for TLC | the module named |

In every flow module a block stands for many blocks and carries one trade of
each filter, so that a block neither read nor announced is always a loss. Time is
the block's number where the code compares timestamps with each other.

### Coverage

A table of one kind is a set of rows `[first, last]`. `RecordCoverage` is
`record_coverage`: read the rows that touch or adjoin the new interval, widen it
by them, delete what lies in the widened bounds, insert one row. `Blocks` is what
the table claims.

### LiveScanner

The state is the provider's chain (`head`, `onchain`: the block of each log), the
feed (`feed`, notices in flight `wire`, `queue`, `overflowed`, `unseen` for
"connections > feed_connections"), the watcher (`pc` is the await or commit it
stands before, `recovery` the gap kind of a running recovery, `range`, `msg`) and
the durable rows (`live_checkpoint`, `live_start_block`, `live_segment_start`,
`coverage`, and `stored`: the block under which a log is stored). A log is a
model value, one `(tx_hash, log_index)`.

One action is the code from one await or commit to the next:

| code | actions |
|---|---|
| `HeadFeed.run` | `FeedSubscribe`, `FeedReceive`, `FeedDrop` |
| `main`, top of `run_ws_first` | `Boot`, `Connected`, `ConnectTimeout`, `Crash` |
| `ws_recover` up to its first commit | `RecoverNothing`, `RecoverAll`, `RecoverTail` |
| `record_gap`, second commit | `GapState` |
| `process_range`, `save_range` | `ScanCommit`, `ScanMoved` (an identity that moved raises) |
| `live_segment_start` after the scan | `ScanState` |
| the loop | `NoticeReconnect`, `NoticeOverflow`, `AwaitEvent`, `Healthcheck`, `PopRemoved`, `PopEvent` |
| `process_ws_event`, `save_event` | `SaveEvent`, `EventState`, `EventMoved` |
| the `except` clauses | `RecoverFails`, `EventFails`, `ConnectTimeout` |

`Mine` and `Reorg` are the provider. A range scan is one action: the code reads
the hash of the range's last block before and after the logs and commits only if
both agree, so it commits the chain of one instant.

### HttpScanner

Adds what decides whether a scan is accepted: a block hash is
`<<number, branch>>` where `branch` counts reorganisations, `headers` are the
stored hashes and parents, and `Valid` is the conjunction of the checks of
`process_range`, `decode_launch` and `save_range`. `reconcile` is one action per
RPC answer (`CheckAgrees`, `CheckLags`, `CheckDiffers`, `SearchOn`, `NoAncestor`,
`AncestorBelowStart`, `RollBack`), so that the chain may move between its reads.
`Backfill` is one range of the manual command; `Exit` tells a crash (restarted by
systemd) from exits 2 and 3, which only `OperatorRestart` leaves. A failing call has two
ends. An answer `rpc.execute` does not retry reaches the loop and counts against the
watcher's own attempts (`CallFails`, `Fail`); a call refused on each of its attempts raises
`RetriesExhausted`, which the loop re-raises, so the service ends with exit 3 whatever the
count says (`CallRefused`, `app/rpc.py:150-152`, `app/block_watcher.py:318-319`).

`exposed` is a history variable. It becomes true in the windows the code leaves open:
an overlap range that reuses the checkpoint's stored header after a reorganisation
replaced it; an overlap range that ends below an orphaned checkpoint, or a manual range
of a stopped service whose checkpoint is orphaned, both of which store fresh headers below
it (`Orphaned`, `Raced`) that the next `reconcile` takes for its common ancestor; and a manual
range above the live checkpoint. `CheckpointCertifies`, which depends on the stored
headers, is stated for behaviours that have not been through them. `NoHoles`, `TypeOK`
and `OnlyDeepForksStop` hold regardless.

### FlowCollector

The worker with split routing and neither a cutover session nor an epoch: no
provider switch is recorded and `promote` writes no handoff marker. The target is
a token with two kinds of trade filter, `curve` until its graduation block and
`v4` (the two pool filters) from it on. What the code keeps in five places has
to agree here: `cursor` (`recovery:<launch>:<kind>`), `job` and `frozen` (the
bootstrap proof), `gaps`, `covStart`/`covEnd` (the coverage of the target) and
`feature` (the quality of its feature rows), against `stored`, the trades in
`flow_events`.

| code | actions |
|---|---|
| `run`: startup, connect, the `except` and `finally` branches | `Start`, `Connect`, `ConnectFails`, `NoticeLoss`, `Backoff`, `Crash` |
| `read_socket` | `Deliver` (a full queue ends it), `LinkDies` |
| a tick: `drain`, `reconcile`, `drain`, `finalize` | `Tick`, `Expire`, `Discover`, `Learn`, `Ensure`, `Subscribe`, `Drain`, `Finish` |
| ordinary recovery: `recovery_plan`, `recover_plans`, the closing of gaps | `ReadHead`, `HeadFails`, `Plan`, `PlanRefused`, `Fetch`, `FetchFails`, `Save`, `Recovered` |
| `CursorBootstrap.run`, `run_stage`, `promote` | `Freeze`, `PlanJobs`, `Prove`, `ProofFails`, `CommitRange`, `NothingToProve`, `Promote`, `PromoteTooLate` |

An action ends at a commit or before an await, and a crash may come between any
two. The reader and the chain move only at the worker's awaits (`Awaiting`): the
worker is one task, so between two awaits the reader cannot run, and a block that
appears there is not seen before the next await. The chain has no forks. Block `b` has time `2*b` and the
clock reads `2*head + 1`: what the code compares is whether a time lies before or
after a block, and a clock reading never equals a block's timestamp. `Lag` blocks
stand for the three seconds that `finalize` stays behind the clock, and a live
socket has delivered what is older; that is the assumption the code makes with its
`now-3`. A refused span may end at any block of the span, which covers the halving
of `LogRangeError`.

### CoveragePromise and the refinements

Three sets: trades that `happened`, trades `stored`, trades `claimed` as covered.
Claims may be withdrawn (a gap is opened) and made again (it closes), but
`claimed` is always within `stored` and `stored` never shrinks. Four modules
implement it. What they claim is read off different rows, and this is the point:

| module | `claimed` |
|---|---|
| `ProviderSwitch`, `Cutover` | blocks up to the coverage mark of the target and before the start of every open gap: what a feature row may count; in `Cutover` less the blocks that a trailing HTTP head left out |
| `GapRecovery`, `OfflineDrain` | blocks up to a recovery cursor less the open gaps, and the blocks of every resolved gap |
| `Activation` | from a filter's lower bound to the pinned head of every finished generation |

Each is a PROPERTY of a run and a theorem, for `OfflineDrain` where `FirstHead > Grad`
(section 4).

### MarketTargets

`LaunchEvent` is the launch and its targets, `EventCut` the crash between the two
commits, `RecoverRow` a launch that a recovery stores and nobody schedules. A pass
is `Pick` (budgets read once, two targets taken), then per target `Ask`,
`MarketAnswered`, and `Measured`, `Retry` (an RPC error) or `Unavailable` (refused
for good); `Die` is an exception the pass does not catch, which ends the task and
not the process. Minutes and days reset the two counters.

### FeatureLedger

The chain may replace its last `Depth` blocks (`Reorg`): trades move or are
withdrawn, and the notices of removal and of inclusion reach the queue in any
order, or die with the connection (`unheard`). `ingest` is `IngestHeader`
(remembered header differs: orphans are withdrawn), `ReorgGap` (the gap of
another commit), `IngestStore` and `IngestRemoved`, one event at a time. Recovery
and bootstrap are `Ask`, `Answer`, `Promote`, `RebuildPromoted`, `Recovered`;
`finalize` is `Finalize`, `RebuildNext`, `Rebuilt`, one row per commit, with the
durable dirty marker read at its start and cleared at its end. `Rebuild` is
`rebuild` and the version it appends; `AddGaps` is `gap`, which also marks the
rows it contests.

### ProviderSwitch

| code | actions |
|---|---|
| `FlowWorker.run` | `Start`, `Connect`, `ConnectFails`, `NoticeLoss`, `Backoff`, `Crash` |
| a tick | `Tick`, `Expire`, `Subscribe`, `SubscribeRefused`, `SkipRecovery`, `Recover`, `RecoveryFails`, `Drain`, `Finish` |
| the `except` branch: `lost`, `start`, `failover_pending` | `HandleLoss` |
| `prove_provider_switch` | `NoSwitch`, `BeginProof` (with `acknowledged` and the end of a wait), `StillWaiting`, `Freeze`, `FreezeFails`, `Prove`, `CommitRange`, `ProveFails`, `BudgetWait`, `Promote`, `CloseGaps`, `Healthy` |
| `provider_switch_recover` on a frozen range, `resume_proved_failure` | `ProveFailed`, `ResumeProvedFailure` |
| `flow_switch_recovery.recover` | `PinSuperset`, `ProveSuperset`, `FinishSuperset` |

`sw` is the table of switches in order, `gaps` the gap ledger, `covEnd` the
coverage mark that `finalize` moves, `marker` the handoff that lets the live
stream take over without an ordinary recovery. Ordinary recovery is one step
here: `FlowCollector` takes it apart.

### Cutover

Four parties: the worker (`StartWorker` to `Finish`, with `cutover_tick` inside
`Tick`), systemd (`StartUnit`, `StopUnit`, `Crash`), the operator's commands with
their internal commits (`Prefetch` to `VerifyStopTail`, `EnableSplit`,
`MarkSplitConfigured`, `ReadyTail` to `PromoteReadyTail`, `AcceptValidation`,
`CompleteSoak`, `RollbackIntent`, and `BreakOff` at any await), and a second launch
that may be discovered at any time and is only a bootstrap debt. `ses` is the
session row, `job` its three proof stages. Integrity checks, fingerprints and
waiting times of a command are refusals that may always happen.

Every head is asked of an HTTP endpoint that may trail the chain by `HttpLag` blocks,
while the socket is already subscribed. A block that such a head leaves out of the last
recovery or of the ready tail, and that was mined before the subscription, is never read
and never announced. The history variable `blind` collects these blocks, at most
`HttpLag` at each reading, and `KeepsPromise` speaks of all others. `Recover` reads its head
when it proves; the code pins it some awaits earlier, which `FlowCollector` has step by step.
A stop tail whose head trails the historical one has nothing to prove, as in the code.

### GapRecovery and OfflineDrain

A gap is an obligation: `PinHead` freezes the head of its proof or reuses the head
of another job (`Reused`), `Tick` plans it and reads the next chunk, `Answer` and
`CommitRow` store events and proof in two commits, `Resolve` verifies, promotes and
closes. `Enroll`, `FixedTick` and `ResolveFixed` do the same between fixed bounds
for an expired target. Rows proved by any stage are taken over as islands
(`Compatible`, `Seeded`). `Stop` and `Return` are a lost connection as well as a
process that ends.

`OfflineDrain` extends it with the operator's command on the same store while the
worker is down: `FreezeHead`, `DrainTick`, the same `Answer` and `CommitRow`,
`PromoteDrain`, `Assess`; `BreakOff` ends the command anywhere and `Restart`
brings the worker back.

### Activation

`Request` is the operator; `Noticed`, `Capture`, `CreateFile`, `Fill`, `Publish`,
`Mark`, `Adopt` are the worker's publication of the partition, one commit each, and a
`Crash` may come between any two. In the new partition a tick is `Drain`,
`Discover`, `Subscribe`, `Saved`, `PinHead`, `TakeHeader` (the readiness record of
this session and these filters), `Bind` (uncertainties bound to it), `TailChunk`,
`Promote`, `Complete`.

The pinned head is that of the HTTP endpoint and may trail the socket by `HttpLag` blocks.
`acked` remembers the head of the chain at each acknowledgement, so `Unseen(f)` is
exactly what lies between: mined before filter f was acknowledged, above the pinned head.
`HealthyMeansWhole` says that a healthy segment misses nothing else, and that this is
never more than the endpoint trails.

The worker blocks for good at `NoAnchor` (an uncertainty bound outside the pinned head, which
a trailing head is enough for), `PlanConflict`, and at a second completion of a
record in `Complete`; a generation in which no filter has a job (`Jobless`) fails every
connection instead (section 5).

## 3. Runs

| run | asks | with |
|---|---|---|
| `live_faults` | Do cursor, segment, coverage and events stay consistent when faults strike between any two commits? | two of: crash, lost connection, failing call, reorganisation; lagging head, queue of one |
| `live_stable` | Do crashes and a full queue ever lose a log silently? Is every overflow repaired, every notice settled? | a connection that holds, calls that answer, no confirmations |
| `http_live` | No hole, no orphan below a canonical checkpoint, and does the service catch up, or stop only for a deep fork or a call refused on all its attempts? | two reorganisations of any depth, crash, a call that fails or is refused for good, lag, reconnection, a manual range |
| `market_targets` | Are the limits exceeded by less than one pass, outcomes final, and does a failing target starve nobody? | two launches, two ages, one target that always fails, two faults |
| `flow_faults` | Are cursors proofs, every missing trade behind an open gap, gaps closed by proof only, `complete` rows complete? | before graduation: lost connection, crash, failing call, queue of one |
| `flow_graduation` | Are cursors proofs across a graduation, and is every target retired? | trailing HTTP head, lost connection |
| `ledger_reorgs` | Does a row count what the store holds, does the ledger end with the row, is a complete row canonical? | two targets, one reorganisation of two blocks, one stop |
| `switch_faults` | Does the switch implement `CoveragePromise`, keep its boundary, say HEALTHY only of a proved range, and does every pending switch end? | three blocks, two faults of any kind, both operator commands |
| `cutover_faults` | Does a session implement `CoveragePromise`, and say verified only over a proof? | three blocks, two faults, commands broken off anywhere, rollback, an HTTP head that does not trail |
| `cutover_trails` | With trailing heads, do claims run ahead of the store only by what those left out? | three blocks, one fault, a head that trails by one |
| `drain_faults` | Do gap recovery, expired recovery and drain together implement `CoveragePromise`; are *healthy* and *safe to restart* true when said? | two gaps, two drain rounds, breaks at every commit |
| `activation_faults` | Is a published partition whole, does a healthy segment miss only what lay between its head and an acknowledgement, does a finished generation keep `CoveragePromise`, does activation end? | a target from the start and one launched later, two faults, a head that trails by one |

All pass. Every property has a mutant of a mapped definition, a plausible bug,
that TLC finds.

Bounds. In the base scanner two logs are enough for one to be lost while the other
moves the cursor past it, and for a duplicate; a queue of one overflows at the
second notice. The blocks (4 to 6), the overlap (1) and the recovery limit (2) are
chosen so that a startup recovery, a bounded recovery with a gap and its tail, and
a block that no later recovery rescans (`Settled`) all occur; `http_live` has a
overlap and a batch of two, so that an overlap range may end below the checkpoint, a
retention of four so that headers are pruned, and a depth of three so that forks within and
beyond it both occur. Symmetry is used in `live_faults` only, where no
liveness is checked.

The flow runs have a window of three blocks and one after it, a recovery limit that
a full window reaches (so `PlanRefused` holds a recovery) and spans of two (so
proofs take several commits). `flow_faults` leaves graduation out and lets the HTTP
head answer as far as the socket has announced, because `FeatureTruth` does not
hold otherwise (section 5). `ledger_reorgs` has a trade of each target in a block of
its own, a reorganisation that reaches one or both, and one stop: 6.4 million
states. `switch_faults` has three blocks: one collected, one lost in the outage, one
after the frozen head; two faults give a switch that fails and is recovered, or two
losses and a failover. `cutover_faults` sets the overlap to 0: with as few blocks as
TLC can take, an overlap of two would hide every boundary error behind re-reading. With a
trailing head it has one fault in `cutover_trails`; two faults (17 million states, over
three minutes) pass as well.
`drain_faults` graduates in the first block, so that both kinds of filter are live
throughout; the limit is discussed in section 5. `activation_faults` has three
blocks, a launch before the boundary and one after it, which is a generation of its
own, and a pinned head that trails by one. `market_targets` has limits (4 a minute, 7 a day) that one pass of two
targets reaches in the middle.

Fairness. The provider answers and the event loop runs ready tasks, so a watcher's,
feed's or worker's own steps are weakly fair; the units have `Restart=`, so starting
again is. Faults, new blocks and the operator are not fair. In `flow_graduation`
the chain, the base scanner's commit and the delivery of notices are strongly fair:
they are enabled only at the worker's awaits, and each is another process that goes
on whatever the worker does. In `switch_faults` `BeginProof` is strongly fair: it
alternates with `StillWaiting`, and the `retry_after` of a wait passes. In
`market_targets` minutes, days, the restart and a pass are weakly fair. Runs switch
deadlock checking off where the modelled chain ends or the service may really stop
(exits 2 and 3, a session or a segment blocked for the operator).

## 4. Proofs

Checked by TLAPS for every value of the constants that meets the named assumptions.

- `CoverageTheorems`: `RecordCoverageCanonical` (a canonical table stays
  canonical), `RecordCoverageBlocks` (recording adds exactly the interval),
  `TruncateBlocks`. They rest on `WidenedTouchesSame`: widening an interval by the
  rows it touches makes it touch no others. Without canonicity of the old table that
  is false, which is why canonicity has to be an invariant and is not a property of
  the operator alone.
- `LiveScannerProofs`: `InductiveInvariant`, and from it `TypeCorrect`,
  `SegmentBehind`, `CoverageIsCanonical`, `StoredCovered`. `PhaseInv` adds what the
  program counter carries across a commit: a range about to be scanned is a range,
  after `ScanCommit` the checkpoint has reached its end, after `SaveEvent` the
  notice's block, and these persist until the segment is written.
- `LiveScannerProofs`, without faults that lose blocks: `EveryBlockAccountedFor` under
  `Unbroken` (no call fails, no block is replaced, the HTTP head does not trail) and
  `NothingIsSilentlyMissing` under `Steady` (the connection holds too, and no confirmations are
  waited for). Section 5 has what breaks them otherwise; crashes, overflows, bounds and, for
  the first, lost connections and confirmations are arbitrary. `Bounded` says that the loop
  runs only with a cursor and a segment, so that an event's row joins on; `Filled` that the
  range under way leaves no block out below its end. `Fate` says where an unread log is:
  its notice is on its way, or was dropped behind a queue whose first notice is not
  younger. This order (`InOrder`) is what keeps the cursor, which moves with every notice,
  from passing a dropped log before the overflow is looked at.
- `LiveScannerProofs`, the market task: `MarketTypeCorrect`, `BudgetIsBounded`,
  `OutcomesAreFinal`, for any launches, ages, limits and pass sizes. The bound is
  not inductive: `BudgetHeld` says how many calls the rest of the pass may still
  send at each step, and `BatchOpen` that a pass holds different, pending targets,
  without which an outcome could be overwritten.
- `ProviderSwitchProofs`: `TypeCorrect`, `HealthyProved`, `BoundaryIsFixed` and
  `PromiseKept`, the refinement of `CoveragePromise`, for a chain of any length and
  any number of faults. The invariant has five parts.
  `Types`. `SwitchInv`: every switch but the last is healthy, and each record's job
  or superset has stored what it says it has. `PhaseInv`: what the worker knows
  between two awaits of a proof, that the switch it began with is still the last one,
  has filters, is bound to this connection, and is not waiting. `MarkInv`: what the
  promise rests on - a block up to the coverage mark is stored or an open gap begins
  before it, and while a switch has a boundary the mark has not passed it.
  `StreamInv`: why that survives. A collector whose connection is not silently dead
  has an open gap before every block it has neither stored nor been told of, and,
  for what lies beyond a frozen boundary, one *that the switch will not close*
  (`Separate`): a reconnection during a pending switch adds no gap, and it is only
  because `finalize` holds the mark while a switch is pending, and ordinary recovery
  must run before the mark moves again or a gap of its own is open, that closing the
  gaps of the switch does not claim too much. There is one lemma per action.

- `CutoverProofs`: `ReadyIsProved` and `PromiseKept`, for a chain of any length, any overlap, any
  lag and any number of crashes, lost connections, stops and commands broken off. The invariant
  speaks of the blocks that are stored or were left out by a trailing head (`Known`);
  `WithoutLagNothingAhead` says that without lag nothing is left out (`NeverBlind`), so nothing is claimed
  that is not stored. `Proved` says
  that the three stages are one proof in a row: each begins behind the end of the one before,
  or behind the cursor less its overlap, so what the ready tail ends at is stored from block 1 on.
  This is all `ReadyIsProved` needs, and it survives a second worker process. What the unit
  claims needs more. `Claims`: whatever a worker that may claim has lost lies behind an
  open gap, because what makes it lose blocks writes the gap in the same step. The start of the
  split worker under a pending session is the one step that writes none
  (`app/flow_worker.py:1095-1098`), and nothing is claimed there until the ready tail is promoted;
  `Handoff` is why nothing is missing then: its head was pinned with the subscriptions in
  place, in one process (`subs`), the proof reaches it, and every later block was heard. A process
  started again would have lost those blocks, so `Claims` and `Handoff` are stated for a session
  that has had no second process (`restarted`), and the module promises nothing for one that had
  (section 5). `Control` says which commands may be under way beside which worker.

- `RecoveryProofs`, the http_complete scanner: `TypeCorrect`, `CoverageHasNoHoles`, `OneHashCertifies`,
  `GivesUpOnlyOnDeepForks`. The invariant says where the cursor and the range in hand
  stand between two reads, that coverage is canonical and has no hole up to the checkpoint,
  that nothing is stored or remembered above it, and, while not `exposed`, that a header
  whose hash is the chain's certifies all that is stored below: what a rollback to a
  common ancestor relies on. Looking for this invariant is how the second and third of the
  windows above were found: it was not inductive, and TLC gave the behaviours.
- `RecoveryProofs`, gap recovery and drain: `HealthIsTrue`, `SafeRestart` and
  `RecoveryKeepsPromise`, for any window, span, overlap, lag, debt limit and number of gaps and rounds,
  when the worker first caught up after the graduation (`Grad < FirstHead`). The condition cannot
  be dropped: with `FirstHead = Grad` TLC violates the promise (section 5), because a curve job
  that ended at the graduation can then serve as the head of a gap that begins there. The
  invariant has four parts beside the types. `Losses`: a trade missing from the ledger is
  behind an open gap, or the worker is away and the gap of its return will hold the trade;
  none is missing in a closed gap, and one that a cursor has passed is behind an open gap.
  `Proofs`: the rows of every job of every stage are stored (so islands may be copied from
  any stage), a job lies inside its filter's period, and (`Aim`) the job that closes a gap begins
  no later than the gap and no later than the cursor, and reaches the block of the gap's end.
  `GapBounds`: the bounds of an expired gap bracket its end for good. `Chunk`: the chunk under way
  lies in the job it was cut from, and its events are stored before its row. `Losses` alone is not
  inductive: whether a gap may be closed depends on the time carried by its pinned head, frozen
  several stops and rounds earlier, and on rows that another stage proved.
- `ActivationProofs`: `SegmentsArePublishedWhole`, `HealthyMissesNothing` and
  `PromiseKept`. A generation that is finished missed nothing because every trade of a filter
  since its boundary is stored, lies above its pinned head, or was noticed since; the
  invariant carries this through each phase of a tick and each reading of the records. With
  `HttpLag` arbitrary, the blocks between the pinned head and the acknowledgement (`Unseen`) stay
  out, and they are at most `HttpLag`; `WithoutLagNothingMissing` is the case in which there are none.
- `FlowCollectorProofs`, first part: `CursorsAreProofs`, without restriction. `Below(k, n)` says
  that all of filter k below n is stored and that no block below n is still to be
  mined; cursors, plans and jobs keep their bounds `Below`, across the two commits of a
  chunk and across a crash between them.
- `FlowCollectorProofs`, second part: `NothingMissesSilently`, `CompleteRowsAreTrue`,
  `GapsCloseOverProofs`, under `Prompt`: no graduation, and a provider whose head does not
  trail. Both are needed (section 5), and are what `flow_faults` sets; loss, crashes, failing
  calls, bounds and the length of the chain are arbitrary. None of the three is
  inductive: a gap may close while a trade inside it is still on its way, the mark may fall,
  and a proof may be promoted long after its head was frozen. `Watching` says where a lost
  trade can be. `Visible`: it is above the mark and the worker has yet to notice the outage
  (`Fresh`), or an open gap begins before it, and if a frozen head lies below the trade, one
  that the promotion of this head will not close (`Outlasts`). `Opened`: the gap is open
  before the trade is lost, for a socket without a subscription. `Heard`: while the socket
  holds, what is lost is below the head the recovery reads. `Flight`: what is on its way is
  above the mark, because a live socket delivers within `Lag`. Most steps are `Calm` and
  share one lemma; the thirteen others have one each.
- `FeatureLedgerProofs`: `RowsCountTheStore`, `LedgerSaysWhatRowsSay`. `Marked` is the part
  that is hard to see: a row that is not what the store holds is owed a rebuild by the
  dirty set of this process, by the durable marker, or by the pass under way, and a pass that
  clears the marker has visited every such row. Rows of another target count too
  (`Prior`), so an event makes rows stale whose target it does not belong to.
- `FeatureLedgerProofs`, second part: `FinalRowsAreCanonical`, `CompleteRowsAreCanonical`,
  under `Connected` (`MaxStops = 0`): no lost connection and no crash, while the chain is
  rewritten as often and, within `Depth`, as deep as it likes, `Overlap` is arbitrary and
  recoveries, notices and the worker's commits interleave freely. `Line`, that is
  `todo \o queue \o wire`, is all that ingest has still to read, in order. `Unwound`: what
  is wrong in the store, or will be put there, has its removal behind it on the line. `Seen`:
  what the chain holds inside a window is stored or comes last on the line (`Shown`), will be
  read by a bootstrap (`Owed`), or a `reorg_unresolved` gap is open or about to be named
  (`Doubted`). `Read` says what a bootstrap has in hand, `Honest` that a complete row has no such
  gap. At rest the line is empty, so the store is the chain. `Early` accounts for the rows `promote`
  builds before `finalize` would, and needs `OneBlock` (`Lag = 1`), the value of
  `ledger_reorgs`: the buffer `now - 3` of `finalize` (`app/flow_worker.py:863,872`) holds only the newest
  block. With blocks two seconds apart that is so from one second after it; just
  after a block the buffer holds two, and for `Lag = 2` TLC violates `CompleteIsCanonical`:
  the window of an early row gains a trade by a reorganisation and `finalize` passes the row
  over (section 5). So this theorem says what holds for the shorter buffer, and
  `FinalRowsAreCanonical`, for the rows that are not early, what holds for any. Why
  `Connected` is needed is in section 5.

`PromiseKept` of the switch, the cutover and the activation and `RecoveryKeepsPromise` use their invariants
once more: these give
`Claimed \subseteq stored`, and a lemma that every step only adds the rest of the abstract step.

Left to TLC. Liveness (fairness and ENABLED) and anything by induction over data are
out of reach of the prover; no module declares a RECURSIVE operator. These safety
properties are model-checked only:

| property | why |
|---|---|
| `CompleteIsCanonical` of `FeatureLedger` with stops (`MaxStops > 0`) | `ledger_reorgs` has one stop and finds no violation within its bounds; a longer chain has one (section 5), so there is nothing to prove without `Connected` |
| `HealthyMeansWhole`, `SafeIsStored`, `KeepsPromise` of `OfflineDrain` with `FirstHead = Grad` | a longer chain violates the promise there, over the head of a retired curve job (section 5), so there is nothing to prove without `Grad < FirstHead` |

## 5. Where the code departs from its documents, and limits the models show

The runs above state what holds, under the restrictions named with them. Lifting a
restriction, TLC or the reading for the model shows the following. None is assumed
away silently: each names the run that would break.

Base scanner:

- `run_ws_first` takes a notice off the queue and, when its handling raises, goes on
  (`app/block_watcher.py:261,275`); README.md:173 says that malformed events hold the
  cursor. `live_stable` allows no failing call for this reason.
- A reconnection inside `events.get()` is noticed only after the next notice, whose
  coverage row then spans the outage; README.md:160-162 says outages are never silently
  scanned. `live_stable` keeps the connection.
- With `CONFIRMATIONS > 0` the blocks between the recovery's target and the
  subscription's head are claimed unread (`app/block_watcher.py:209`, README.md:117).
- In ws_first a removed log starts a scan and rolls nothing back
  (`app/block_watcher.py:267`, README.md:136).
- A manual range far above the live checkpoint prunes its header
  (`app/database.py:210`, against the comment before it), and a range may reuse a
  stored header that a reorganisation replaced after `reconcile`
  (`app/block_watcher.py:122`). `HttpScanner` marks both (`exposed`).
- When a reorganisation reaches the checkpoint between `reconcile` and the reads of an overlap
  range that ends below it (`BATCH_BLOCKS` not above `LIVE_OVERLAP_BLOCKS`), the range stores the
  new headers under the orphaned checkpoint; so does a manual range while the service is
  stopped. The next `reconcile` takes such a header for the common ancestor, rolls back to it
  and keeps the orphaned logs of blocks below that were not read again
  (`app/block_watcher.py:83-101`). `exposed` marks these too.
- A rollback lowers the cursor, and retention may have removed every header below the new
  one: a second reorganisation, well within `MAX_REORG_DEPTH`, then finds no ancestor and ends the
  service with exit 2 (`app/block_watcher.py:83-101`, `app/database.py:210`). `OnlyDeepForksStop`
  therefore speaks of the headers that are left to compare.
- Launches stored by a recovery, or by an event cut off before its second commit, never
  get market targets. Two targets that always fail starve all others; the local guard of
  the market budget is exceeded by up to one pass.

Flow worker:

- A proof of the pool filters closes the gap of an outage in the graduation block
  although its curve trades were not asked for (`app/flow_bootstrap.py:167`,
  docs/phase2c3-graduation.md:15-16). `flow_faults` leaves graduation out.
- With an HTTP head that trails the socket, the blocks between it and the start of the
  subscription are neither recovered nor announced (`app/flow_worker.py:717`).
- `promote` rebuilds with the present time (`app/flow_bootstrap.py:195`): a row whose cutoff
  lies in the last three seconds is made early, and `finalize` passes it over while it
  clears the dirty marker. `RowsMatchStore` excludes these rows (`early`), and with
  `Lag = 2` `CompleteIsCanonical` fails on one after a reorganisation.
- A late removal notice of an older inclusion overwrites the row of the new one, with the
  reorg gap at the old block's time; a trade whose removal died with a connection stays
  counted (`unheard`), although docs/phase2b-flow-operations.md:103 says removed logs
  invalidate coverage. A crash between the store of a removal and its gap leaves no
  mark. `reorg_unresolved` gaps are never closed.
- So a complete row may count too little after a crash. With one target, `Cut = 2`,
  `Overlap = 2`, `Depth = 3`, `MaxBlock = 6`, one reorganisation and one stop TLC violates
  `CompleteIsCanonical`: a recovery stores a trade in its new block 1, its old removal (block
  2) follows from the queue and is stored over it, the process dies before the gap of
  that removal is committed, and the new inclusion dies with the socket. The restart reads from
  `cursor - Overlap`, past block 1, and the gap of the outage begins after the cutoff. The bounds of
  `ledger_reorgs` (`Depth = 2`) leave no room for this; the theorem excludes stops.
- A subscription cap writes a gap row on every tick (`app/flow_worker.py:664`); a crash with
  a frozen switch leaves a `ws_gap` that ordinary recovery may never close;
  `flow_switch_recovery.recover` keeps its pinned head before it compares the head's time
  with the failure (`app/flow_switch_recovery.py:207-223`), so a head too early fails for good.

Cutover:

- With an HTTP head that trails the socket at the ready tail (`scripts/phase2b2_shadow.py:530`),
  a block between them is not proved, was not announced, and is claimed: the marker lets the
  worker skip its ordinary recovery (`app/flow_worker.py:453`). The same head serves a provider
  switch (`app/flow_worker.py:934`) and ordinary recovery (`app/flow_worker.py:717`). `cutover_trails` shows
  that nothing else is claimed too early.
- A rollback of a handoff that was never acknowledged commits ROLLED_BACK and is then
  refused its outcome, and the legacy worker stops for good (`app/flow_cutover.py:334-345`,
  docs/phase2b2-provider-migration.md:222-223).
- A split worker restarted while the handoff is pending records no gap
  (`app/flow_worker.py:1095-1098`); `KeepsPromise` claims nothing of such a session
  (`ses.restarted`). Its later rollback and acceptance are refused for the new process id.
- A legacy worker started in POST_CUTOVER_VALIDATING or SOAKING without a rollback
  intent is blocked; a legacy restart before the stop leaves a session that can neither go
  on nor be aborted; a launch discovered while the handoff is pending always fails it; a
  stop tail broken off cannot be run again at a later head
  (`scripts/phase2b2_shadow.py:472`).

Gap recovery, drain and activation:

- A gap may be proved to the `reconciliation_upper_bound` of a retired curve job, which
  carries the time of a later head (`app/flow_gap_recovery.py:69-79`,
  docs/phase2c4k-active-gap-recovery.md:47-49). `Grad = 2`, `EndBlock = 4`,
  `MaxTip = 6`, `FirstHead = 2` violates `KeepsPromise`. Where the worker had caught up past the
  graduation (`FirstHead > Grad`, as in `drain_faults`) no gap begins low enough for such a job, and
  the promise is proved (section 4). Targets that graduate while tracked and owed a gap are
  outside both.
- Seeding merged islands again after a partial tick makes overlapping rows, since the key
  holds the last block (`app/flow_partition_schema.py:38`); verification then blocks the
  gap for the operator. So does a pinned head older than a cursor moved by another
  recovery, or one whose time lies before the end of the gap.
- The drain does not compare expiry again before its commit, and its assessment does not
  read pending uncertainties.
- A segment's head is asked of an HTTP endpoint that may trail the socket
  (`app/flow_activation.py:103`): a block mined before the acknowledgement and above that head is neither
  read nor noticed, and the segment is healthy without it (`Unseen`). A pending uncertainty whose
  block lies above such a head raises `ValueError`, and the worker waits for the operator
  (`app/flow_activation.py:195-197`). A filter whose bound lies above the head gets no job
  (`app/flow_bootstrap.py:61`): its record is then completed a second time, which raises too,
  and a generation in which no filter has one raises `Bootstrap has no jobs`
  (`app/flow_bootstrap.py:133`) on every connection from then on.
- A live target launched before the segment's boundary conflicts with the bootstrap row
  the segment writes, on every restart (`PlanConflict`; docs/phase2c4t-durable-activation-evidence.md
  gives the lower bound as the maximum of the two). A process that finalizes before it has seen
  a block writes `last_connected_block = 0`, and a later disconnect has no anchor
  (`NoAnchor`), as has one soon after the discovery of a launch newer than that block. A crash
  between publishing a partition and marking the request leaves a failure flag that
  nothing clears.

## 6. What is not modelled

Metadata, stock assets, formatting, telemetry and pure decoding: no property is about
them. Headers are left out of `LiveScanner`; there any scan may fail, which
over-approximates what stale headers can do to safety but says nothing of the wedge
they may cause (the hazard at `app/block_watcher.py:129`). `MarketTargets` is for ws_first,
the only transport that schedules targets; prices, metrics, the pacing and retries
inside `rpc.execute`, and the reuse of launch ids after a rollback are left out.

`FlowCollector` tracks one target, so rotation between targets, the subscription cap and
the shared budget are not in it; rejected events and pauses for memory, disk or bytes
are left out. The counters of `flow_budget` have no module: each call adds and reads in one
immediate transaction. `ProviderSwitch` leaves out graduation, the reconciliation
of a failed switch without filters, the provider-mismatch branch, a trailing HTTP head and
segments; `Cutover` the import of the legacy ledger, the recording of historical
rollbacks, status and schema; `GapRecovery` snapshots, hashes of manifests and resource
checks; `Activation` provider switches, expiry and graduation inside a segment, the
ordinary recovery after activation, `validate_fresh`, preflight of storage and the
ordinary epochs (prepare, `seal_live`, quarantine, allocate). Values of features other than
counts, the importer and migrations are left out of `FeatureLedger`.

Smaller simplifications. `LiveScanner`: an error of SQLite itself in the second of two commits
(`app/block_watcher.py:180-182,199-201,227-228`); the crash between them is there, a caught error is not.
`FlowCollector`: a `ValueError` or an error of SQLite stops the worker for the operator
(`local_database_block`, `app/flow_worker.py:1171-1173`), here a tick only fails as a lost connection
does; and a proof planned after the tracking window ends at its pinned head, in the code at the
next launch stored after the window if that is lower (`_expiry_cap`, `app/flow_bootstrap.py:30-42`):
both lie beyond the window, so no trade of it is left out.
`ProviderSwitch`: the head of the boundary does not trail (`app/flow_worker.py:934`), and a worker counts as
gone as soon as it is, where the commands accept a heartbeat up to 65 seconds old
(`app/flow_provider_switch.py:261-264`). `Activation`: a pending or blocked provider switch holds
the completion back (`app/flow_activation.py:217`), which a fresh partition cannot have.

Reports, benchmarks and audits (`scripts/provider_benchmark_*`,
`scripts/phase2c_point_in_time_audit.py`, the read-only reports) change no state.

## 7. Plan

Done: the base scanner, the market task, the collector, the ledger, the provider
switch, cutover, gap recovery, drain, activation, and the proofs of section 4. Next, in
this order:

1. Ordinary epochs (`prepare`, `seal_live`, quarantine) beside `Activation`; two processes on
   one call budget.
