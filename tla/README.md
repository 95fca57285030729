# A TLA+ model of the stake indexer

The stake indexer follows the best chain of a Fractal Bitcoin node, keeps the
balances, unspent outputs and bindings of stake addresses in PostgreSQL and
Redis, and allocates staking rewards from them. This directory models it in
TLA+, checks the models with TLC on small instances, and proves the properties
that matter most with TLAPS for every value of the constants.

## The system and its parts

| Part | Source | Module |
|---|---|---|
| Block sync loop: consistency check, rollback check, batch choice, submit | `main.go`, `internal/exec/manager/{reconcile_heights,write_commit_flow,write_prepare_flow,flow_block_submit,state_bindings}.go` | `BlockSync` |
| Rollback after a reorganisation | `internal/entry/rollback/`, `internal/component/pg/{sync_blocks,indexer_artifacts,stake_rollback}.go` | `BlockSync` |
| Serial part of parsing: spent outputs, address deltas, new bindings | `internal/exec/manager/{serial_filtered,handler_fastpath}.go`, `internal/entry/fast/` | `BlockSync` |
| Node RPC client | `internal/component/node/rpc.go` | `BlockSync` (`Walk`) |
| What readers of `sync_blocks` rely on | `internal/entry/slow/runner.go` as a reader | `IndexLog` |
| Concurrent block pipeline | `internal/exec/manager/flow_chain_pipeline.go` | `BlockPipeline`, promise in `SerialParse` |
| Fast-path protocol handlers: verdicts, staged rows, `persistPreparedStakeWrites` | `internal/exec/manager/{business_invalid_flags,handler_protocol,write_commit_flow}.go`, `internal/entry/fast/`, `internal/component/pg/` | `ProtocolHandlers` |
| Commission views of an indexer | `internal/exec/manager/{handler_protocol,handler_reward}.go`, `internal/entry/slow/` | `CommissionView` |
| Reward rules: configuration, proof windows, penalties, release, division | `conf/init.go`, `internal/component/pg/stake_proofs.go`, `internal/exec/manager/handler_reward.go` | `RewardRules`, `RewardAllocation` |
| Reward consumers (snapshot and pending) | `internal/entry/slow/`, `internal/exec/manager/{handler_reward,state_bindings,state_staging}.go` | `RewardConsumers` |
| Mempool synchronisation, its reset, and the HTTP queries that combine it with confirmed state | `internal/entry/mempool/`, `internal/exec/manager/mempool_protocol_sync.go`, `internal/component/init/mempool_reset.go`, `interfaces/http/` | `MempoolSync` |
| Parsers, script library, configuration of clients, metrics, rest of start-up and of the HTTP interface | | not modelled |

`PROJECT.json` lists every source file under its component, with the reason
where a component is left out, and maps every definition to the lines it
stands for.

The parts interact through the stores. The block sync loop is the only writer
of `sync_blocks`, `indexer_addr_deltas`, the undo tables, the UTXO keys and the
realtime balances. The reward consumers poll the committed rows of
`sync_blocks`, replay address deltas and events at heights of their own, and
write reward rows to PostgreSQL and totals to Redis. When the loop has caught
up it runs the mempool synchronisation, which writes the pending events and
the Redis hashes of pending deltas; before it parses blocks it resets them. The
HTTP interface reads all of it at any moment. The node is outside: its best
chain and its mempool change at any time.

Each module has the steps of its own part in full and takes the others as an
environment in one step: `RewardConsumers` and `MempoolSync` see a commit and a
rollback as one step (`BlockSync` has their writes), `ProtocolHandlers` leaves
out the UTXO and balance writes of a submit, `MempoolSync` takes the verdict on
a message as given (`ProtocolHandlers` has it), `RewardConsumers` takes the
commission as fixed (`CommissionView` varies it) and the amounts from
`RewardRules`.

## `BlockSync`

One behaviour is the life of one database: the loop runs, fails, is stopped,
dies and is started again, while the node extends or replaces its chain.

**State.** The node (`chain`); PostgreSQL (`rows` and `committed` for
`sync_blocks`, `deltas`, `undoNew`, `undoSpent`, `bindings`); Redis (`utxo`,
`utxoCursor` = `TASK_UTXO`, `balance`, `score`, `rtCursor` =
`TASK_BLOCK_HEIGHT`); the process (`pc`, the heights it works with, the hashes a
walk over the node has returned, the in-memory bindings, the parse data of the
current block, the staged blocks, the three global maps of package `model`, the
queue of binding rows). `peak`, `high`, `reorgs` and `faults` are bookkeeping.

**Actions.** One action per external effect, in the order the code makes them:

| Code | Actions |
|---|---|
| `EnsureIndexerDataConsistency` | `Ensure`, `EnsureFails` |
| `RollbackCheckWithFloor` | `CheckWalk` (one `getblockhash`), `CheckPasses`, `CheckRollsBack` |
| `RollbackIndexerFromHeight` | `RbRealtime` (one height), `RbRealtimeCursor`, `RbUtxo` (one height), `RbUtxoCursor`, `RbStake`, `RbArtifacts`, `RbBlocks` |
| `LoadStakeBindingsToHeight`, `InitLatestBlockFromRPC` | `LoadBindings`, `FetchWalk`, `FetchIdle`, `FetchDone` |
| `ParseBlockSerialStart`, `HandleFastBlock`, `ParseBlockSerialFinalize` | `SerialStart`, `FastBlock`, `Finalize`, `ParseEnds`, `Parsed` |
| `runSubmitBlocksFlow` | `Flush`, `Persist`, `UtxoAdd`, `UtxoDel`, `UtxoCursor`, `Realtime`, `FlushStaged`, `Mark` |
| signals, supervisor, failures | `Signal`, `Exit`, `Boot`, `Crash`, `StorageFails`, and the `CutShort` branches of the steps above |
| the node | `NodeExtends`, `NodeReorganises` |

A step that makes several writes in one call (a pipeline of increments, eight
workers setting keys, rows inserted one by one) can be cut short after any
subset of them that the call can leave behind; a PostgreSQL transaction is all
or nothing.

**Abstractions.** Heights count from `index_start_height`. Every output is
worth one unit. A block is what it creates, spends and binds; a transaction is
not an object of its own. The zset score of a stake address stands for all the
stake totals of its indexer, which receive the same increments. Blocks are
parsed one after another; that the concurrent pipeline does this is what
`BlockPipeline` shows.

**Faults.** `Faults` says which kinds may happen in a run: `error` (a storage
call returns an error and the loop starts over with its memory as it is),
`crash`, `stop` (a signal, or `NeedStop` set by a handler), `rpc`, `race` (the
node reorganises between the rollback check and the fetch) and `deep` (a
reorganisation below the undo retention). `MaxFaults` bounds the number of the
first four kinds; `race` and `deep` only say which of the `MaxReorgs`
reorganisations are possible. `sync_faults` allows every kind. The ledger
properties are checked under RPC failures and shallow reorganisations outside
the check (`sync_reorg`); each of the other kinds breaks one of them or the
retention, as the configurations under "Deviations" show.

**Properties.** `CommittedPrefix`, `WriteAhead`, `AppliedArtifactsStable` and
`ImplementsLog` are about the order of writes over the two databases.
`BalancesMatchLedger`, `DeltasMatchLedger` and `UtxoMatchesLedger` compare the
stores with a ledger computed from the committed blocks alone (`LedgerUtxo`,
`BoundBy`); `BalanceIsSumOfDeltas` compares the stores with each other. They
speak of the states in `Settled`: the head of the loop, three heights that the
consistency check accepts, something committed, and committed blocks that link
to each other. In the middle of a submit the stores differ by design.
`RollbackLeavesHeightsAgreeing` says that a finished rollback does not trip the
consistency check. `FollowsNode` is liveness.

`UtxoMatchesLedger` allows one kind of leftover: an output that a block both
creates and spends is an undo row of the spends only, so rolling the block back
puts it into the UTXO store, although it never existed outside the block.

## `BlockPipeline` and `SerialParse`

`BlockPipeline` is one call of `ParseLongestChain`. A block is its height. The
producer (`FetchEnds`, `Fetch`, `FetchShort`, `Send`, `CloseReady`), one decoder
per block (`Decoded`), the consumer with its reorder buffer (`Receive`,
`ReceiveClosed`, `TakeSlot`, `SerialStart`, `FastBlock`, `Finalize`, `Stage`),
the caller (`RangeStage`, `Limit`, `RangeClosed`, `Return`) and the goroutines that
end a block (`Ended`) run concurrently over the channels `blocksReady`,
`blocksDone`, `blocksStage` and `blocksLimit` of capacity `Cap`. A channel is
closed when its writer has ended. `artifacts` is `stagedIndexerBlocks`. An
undecodable block ends the process (`log.Fatal`), and so does a Redis error in
the serial start (`panic`).

`SerialParse` is the loop over the window that `BlockSync` has as its parse
steps: serial start, fast block, finalise, next height. The two modules split the
steps at the same points; that `BlockSync`'s steps are those of `SerialParse` is
read off the definitions and not checked.

`ReturnsWhatWasParsed` is what `SubmitBlocks` needs: the returned height is the
last one with staged artifacts and nothing parses any more. `BoundedReadAhead`
bounds the blocks handed to a decoder and not yet parsed; the producer holds one
more raw block. `Returns` and `LeavesNothingBehind` are liveness.
`Returns` exempts one case: the producer passes over a raw block that is too
short, and more blocks follow it than `blocksDone` has slots. The consumer then
waits for the missing height and the producer for a slot, and a stop signal does
not free them. Without the exemption TLC finds that behaviour.

## `ProtocolHandlers`

A transaction is what the parser made of it: a register, stake, proof, claim or
commission update with its fields. `ResolveBusinessInvalidFlags` is a set of
operators on what is staged (`m`), stored (`db`, `rdb`) and in the transaction;
a handler is what it adds to `WaitForUpsert` and to the staged hashes of
`slowState`.

| Code | Actions |
|---|---|
| `ParseLongestChain`, `HandleFastBlock` per block | `ParseLongestChain`, `HandleBlock`, `LookupFails` (a query fails while a transaction is judged), `Stop` |
| `persistPreparedStakeWrites`, one list per step | `Persist`, `PersistFails` |
| the rest of the submit up to the commit mark | `Commit` |
| the end of the process, rollback | `Crash`, `Rollback` |
| the node | `Reorg` |

A kill is a crash before anything is stored. `TablesAreReplay` and
`CommissionIsReplay` compare the stores with one run over the committed blocks,
in one batch from an empty store (`Replay`). They hold as long as the only
faults were kills and, for the tables, reorganisations while no delayed ratio
is in Redis; "Deviations" shows what other faults do to verdicts. The other four
hold after all of them, `RowsHaveIndexer` and `ValidEventHasRow` on one chain
(rows of an interrupted batch, stored or staged, survive when the node leaves
its blocks).

## `CommissionView`

One indexer. `CommitBlock` is a block with or without an accepted update,
`Consume(c)` one height of a consumer, which may be consumed again after a
crash. The ratio of an update is its height, so that a ratio says which update
it comes from. A view is the hash fields of one reader: the delayed ratio and
the one in effect. `LatestRatioInForce`, `PendingRatioInForce` and
`SettledRatioInForce` say that every reader gets the ratio of the last update
in effect at its height, the snapshot view from the first effective update on;
before it the view falls back to a field the fast path moves
(`commission_early`).

## `RewardRules` and `RewardAllocation`

`RewardRules` has the functions of `conf/init.go`, `pg/stake_proofs.go` and
`handler_reward.go` as operators: what the loader accepts, the proof window of a
height, the status of a proof, the percentage of the stake it earns in each of
the three phases, the release tiers, the division with rounding or truncation.
Percentages of tiers are in tenths and ratios in basis points; a float64
quotient is the exact rational; a proof hash is the tuple fed to sha256. A list
that the file does not name keeps its default, one that it gives as empty is
taken as empty, and an allowlist with an id that is no `height:txIdx` is refused.
`RewardAllocation` is one block from configuration to amounts: `LoadConfig`,
`NotRewarded`, `ResolveProofs`, `Weigh`, `Divide`. Its properties compare code
in three files that must agree on the same boundaries, and bound what the
division gives out.

## `RewardConsumers`

The snapshot consumer (`SyncStakeRewardIndexer`) and the pending one
(`SyncPendingRewardIndexer`), each a goroutine with its cursor, its memory and
its staged increments, over one indexer and two stake addresses. `Start`,
`Poll`, `NotCommitted`, `LoadBindings`, `StageDeltas`, then `Allocate`,
`Subtract`, `DeletePending` in one and `Announce`, `UpsertPending` in the other,
then `Flush` and `Advance`. `FlushFails` is a flush whose reply is lost or that
is cut in the middle (the pipeline is no transaction), `Fail` any other call
that returns an error, `BalanceReadFails` a failed read of balances while
bindings load (the same fault `error`), `Crash` ends both. A read of the pending total whose error the
code ignores is the fault `total`. `Commit` and `Rollback` are the fast path.
`held` is what the pending consumer carries from `Announce` to `UpsertPending`: the
amounts it computed and the rows it read before, both of which a commit or
rollback in between may have overtaken.

`MemoryIsSnapshot`, `AllocationIsReplay` and `CountedOnce` hold without failing
calls and cut flushes and with reorganisations that stay above the lag;
`AnnouncedIsReplay` moreover needs that nothing was reorganised, since an
announced height may still change. `ConsumersKeepDistance`, `EveryHeightOnce`
and `ConsumersCatchUp` are about cursors and hold after every fault. A rollback
may lower the committed height under a consumer, so the distance is measured
from the committed height plus the deepest reorganisation once one has happened;
the distance from the committed height itself is not kept (`RewardBehind`).

## `MempoolSync`

The node's mempool and chain (`EnterPool`, `LeavePool`, `Mine`, `Reorg`), the
loop of `syncBlockIndexer` as far as the mempool is concerned, and queries.

| Code | Actions |
|---|---|
| rollback check, choice of what to do | `CheckChain`, `Plan` |
| `ResetMempoolSnapshotOnStartup`, before blocks are parsed and at start-up | `ResetEvents`, `ResetCache`, `ResetFails`, `InitStatus` |
| the submit of a block | `Commit`, `EndParse` |
| listing, first and second pass over the transactions | `List`, `ListFails`, `Fetch`, `FetchFirstBinds` |
| the write flow | `UpsertEvents`, `UpsertInscriptions`, `SaveDeltas`, `SaveSnapshots`, `DeleteEvents`, `DeleteInscriptions`, `Sleep` |
| the end of the process | `Crash` |

The queries are operators over the stores: totals of `GetIndexers` and
`GetIndexerStatus`, stakers of an indexer, positions of a user, deducted
claims. Amounts are one or two units. Validity of a message is an input. A
pipeline happens as a whole or not at all. `PendingViewsAgree` and
`PendingForetellsCommit` speak of a synchronisation that has just completed and
that could account for every spend it saw (`Accounted`): every parent was
resolved, every spent output is tracked, and nothing that is listed is committed
already (the node may list such a transaction after a reorganisation between the
rollback check and the listing). `NeverDeductedTwice` and
`ConfirmedEventsKept` hold until a block is reorganised away.

## Runs

| Run | Expected | What it shows |
|---|---|---|
| `sync_reorg` | pass | with two reorganisations and a failing RPC at any point, the stores match the ledger in every settled state, and the committed blocks become the node's chain and stay so |
| `sync_faults` | pass | with any two faults and a reorganisation of any depth at any moment, the committed rows stay a gapless log, no Redis height passes a missing row, and applied rows are never rewritten |
| `sync_retry` | violation | a failed submit that is retried counts its deltas twice |
| `pipeline` | pass | with blocks decoded in any order and two faults, the parse is in height order, returns what it parsed and does not hang except in the case above |
| `handlers` | pass | however blocks are cut into batches, and with any two faults, verdicts and rows are those of one run, or at least consistent, as said above |
| `commission` | pass | every reader gets the ratio in force |
| `commission_early` | violation | the snapshot reader does not before the first effective update |
| `allocation` | pass | window, status and percentage agree, repeated proofs change nothing, amounts are bounded |
| `consumers` | pass | memory, rows and totals are those the committed blocks define |
| `consumer_faults` | pass | the cursors move one height at a time, keep their distance (up to the depth of a reorganisation once there was one) and catch up |
| `mempool` | pass | the pending views agree with each other and with what a commit will show |
| `mempool_faults` | pass | after failed writes, failed loads, crashes and reorganisations a complete synchronisation leaves the tables of the mempool it listed, claims are deducted once, committed events are kept, and the tables end up with the node's mempool |

**Bounds of `BlockSync`.** The block tree of `MCBlockSync` has a common first
block and two branches of three blocks; in `BlockSyncFirst` and `BlockSyncDeep`
the second branch starts at the first indexed height instead. It binds two
addresses, one of them on both branches at different heights, pays a claim
sender, spends outputs of the same block, of the same batch and of earlier
batches, and mines the same transactions at different heights of the branches.
`Batch = 1` makes a batch of two blocks. With `MaxHeight = 4`, `Lookback = 2`
and `Retention = 2` there are two batches, a rollback inside a batch and over a
batch boundary, and heights below the lookback and the retention. Two
reorganisations allow leaving a branch and coming back to it. `sync_faults`
trades height for faults: `MaxHeight = 3`, `Lookback = 1`, `Retention = 1`, one
reorganisation and two faults, so that a fault can hit the recovery from the
first; its properties are proved without bounds. Unless `deep` is allowed, a
reorganisation keeps the blocks at and below `peak - Retention`.

**Other bounds.** `pipeline` has a window of five blocks over channels of
capacity two, so every channel fills and the window is larger than the slots, as
with the code's 64 and 500; two faults allow a short block followed by a stop.
`handlers` runs over some seventy chains that put every kind of transaction
before, beside and after the ones its verdict depends on, in batches of up to two blocks, with two faults, so that the second can hit the retry.
`commission` has six heights with an activation delay of two, so that an update
can be rejected, accepted at the first possible height and replaced.
`allocation` takes all pairs of proofs over a window and one block around it in
each phase, and all rewards up to 12 over stakes up to 3; the epsilon is 1/1000,
and the denominators that occur are below 1000. `consumers` has five
blocks, one of them with two versions of which one lacks a proof, a lag of two
and reorganisations of one block. In `consumer_faults` the reorganisations are
deeper than the lag and no height pays a reward: its properties are about the
cursors. `mempool` has six transactions, two blocks and five moves of the node;
`mempool_faults` a stake, a claim and a support message, three moves with
reorganisations, and two faults.

Deadlock is checked where the loop always has a step; the other runs end when
the bounded chain is consumed.

**Fairness.** `FairSpec` of `BlockPipeline` assumes weak fairness of each
goroutine, which the Go scheduler gives one that can run. `FairSpec` of
`BlockSync` assumes weak fairness of the loop (a goroutine that is never blocked
for ever, every RPC and storage call returns) and of the restart by the
supervisor; that of `MempoolSync` the same of its loop. `RewardConsumers`
assumes weak fairness of each consumer and of the growth of the chain. Nothing
is assumed of the node otherwise, of signals or of faults: they may stop at any
time, and the bounds make them finite in number. `FollowsNode` is checked with
RPC failures only; it does not speak of storage errors or crashes.

## Proofs

| Module | Proofs about |
|---|---|
| `BlockSyncProofs` | `BlockSync` |
| `BlockPipelineProofs` | `BlockPipeline` |
| `HandlerProofs` | `ProtocolHandlers` |
| `MempoolProofs` | `MempoolSync` |
| `ConsumerSnapshots` | `RewardConsumers`: loops, memory and balances |
| `ConsumerProofs` | `RewardConsumers`: rewards |
| `RewardProofs` | `RewardAllocation` and `CommissionView` |
| `SumLemmas` | sums over finite sets and induction, for the four before |

Every assumption on constants is a named `ASSUME` of the module that declares
them, and TLC evaluates it in the runs. `BlockAssumption` and `BoundAssumption`
of `BlockSync`: the functions that describe blocks have their types, the outputs
are finitely many, the bounds are naturals, `Lookback` and `MaxHeight` are
positive. `WindowAssumption`: a non-empty window of positive heights, channels
of positive capacity. `ViewAssumption`: a positive activation delay, lags that
are naturals. `PendingAssumption`: finitely many transactions and addresses,
outputs with natural amounts. `ConsumerAssumption`, `CfgAssumption` and
`BlockAssumption` of `RewardConsumers`: lags, batch and configuration are what
the loader leaves there (a step of zero percent keeps the default, so it is
positive), addresses are finitely many, rewards natural. `HandlersAssumption`
and `ChainAssumption` of `ProtocolHandlers`: the bounds are naturals, a block is a
sequence of transactions that the parser knows by their tag. `EpsAssumption`,
`DefaultAssumption`, `InputAssumption` and `PartiesAssumption` of the reward rules:
every number of `DefaultConfig` is set and its penalty steps ascend, the numbers
of a configuration file, the heights, stakes and ratios are naturals, the
transaction id is the key of a proof, and there are fewer indexers and stakers
than 1 / `rewardTruncationEpsilon` (a thousand million). Any set of faults is
covered where a theorem has no further hypothesis.

| Theorem | Statement |
|---|---|
| `BlockSyncProofs!Invariance` | `Spec => []IInv`, with `IInv == TypeOK /\ HeightsInv` |
| `BlockSyncProofs!TypeCorrect` | `Spec => []TypeOK` |
| `CommittedPrefixHolds` | `Spec => []CommittedPrefix` |
| `WriteAheadHolds` | `Spec => []WriteAhead` |
| `AppliedArtifactsAreStable` | `Spec => AppliedArtifactsStable` |
| `Refinement` | `Spec => ImplementsLog` |
| `PipelineTypeCorrect` | `Spec => []TypeOK` of the pipeline |
| `PipelineInvariance` | `Spec => [](StageType /\ OrderInv)` |
| `ReturnsParsed` | `Spec => []ReturnsWhatWasParsed` |
| `ReadAheadBound` | `Spec => []BoundedReadAhead` |
| `PipelineRefinement` | `Spec => ImplementsSerialParse` |
| `HandlerInvariant` | `Spec => []HandlerInv`: types, `OwnersInv`, `StatusInv`, `OrderInv`, `OneChain` of the handlers |
| `OneOwner` | `Spec => []OneIndexerPerOwner` |
| `StatusIsCount` | `Spec => []StatusCountsRegisters` |
| `RowsReferToIndexers` | `Spec => []RowsHaveIndexer` |
| `ValidEventsHaveRows` | `Spec => []ValidEventHasRow` |
| `RewardProofs!Invariance` | `ViewSpec => []IInv` of the commission views |
| `RewardProofs!TypeCorrect` | `ViewSpec => []TypeOK` of the commission views |
| `LatestInForce` | `ViewSpec => []LatestRatioInForce` |
| `PendingInForce` | `ViewSpec => []PendingRatioInForce` |
| `SettledInForce` | `ViewSpec => []SettledRatioInForce` |
| `RewardInvariant` | `Spec => []RewardInv` of the reward rules |
| `NeverExpired` | `Spec => []SelectedIsNeverExpired` |
| `StatusAndPercentAgree` | `Spec => []StatusAgreesWithPercent` |
| `DuplicatesCostNothing` | `Spec => []ExtraProofsDoNotMatter` |
| `AllocationBounds` | `Spec => []AllocationIsBounded` |
| `SyncInvariant` | `Spec => []Inv`: types, `SyncInv`, `KeptInv` of the mempool synchronisation |
| `SyncedTablesHold` | `Spec => []SyncedTables` |
| `DeductedOnce` | `Spec => []NeverDeductedTwice` |
| `ConfirmedEventsStay` | `Spec => []ConfirmedEventsKept` |
| `DeltaInvariant` | `Spec => [](LedgerInv /\ DeltaInv)` |
| `PendingForetells` | `Spec => []PendingForetellsCommit` |
| `PendingMarksAffected` | `OneStakeAddress` implies `Spec => []PendingMeansAffected` |
| `ViewsAgree` | `OneStakeAddress` implies `Spec => []PendingViewsAgree` |
| `LoopInvariant` | `Spec => [](LoopType /\ LoopInv)` of the reward consumers |
| `KeepDistance` | `Spec => []ConsumersKeepDistance` |
| `HeightOnce` | `Spec => EveryHeightOnce` |
| `SnapshotInvariant` | `Undisturbed` implies `Spec => []SnapshotInv` |
| `MemoryFollows` | `Undisturbed` implies `Spec => []MemoryIsSnapshot` |
| `AllocatedInvariant` | `Undisturbed`, `Buried` imply `Spec => [](AllocatedInv /\ CountInv)` |
| `RowsAreReplay` | `Undisturbed`, `Buried` imply `Spec => []AllocationIsReplay` |
| `RewardsCountedOnce` | `Undisturbed`, `Buried` imply `Spec => []CountedOnce` |
| `AnnouncedRewards` | `Undisturbed`, `Buried` imply `Spec => []AnnouncedIsReplay` |

The invariants that no run names (`CommittedPrefix`, `HeightsInv`, the type and
order invariants of the pipeline and of the views, `HandlerInv`, `RewardInv`,
`SyncInv`, `DeltaInv`, `LoopInv`, `SnapshotInv`, `AllocatedInv` and their like)
are proved; they are there for the proofs of the others.

### Hypotheses

`OneStakeAddress`: no user has two stake addresses with one indexer. Without it
the two properties are false (`MempoolTwo`). The instance of run `mempool`
satisfies it.

`Undisturbed` is about the reward consumers: no call fails in the middle of a
block or while bindings load (fault `error`) and no flush is cut (`partial`), no
user has two stake addresses, no chain that the blocks allow overdraws an
address, and no reorganisation is deeper than the lag or a proof window. Crashes,
lost replies of a flush, ignored errors of the pending total and reorganisations
up to that depth remain. `Buried` adds that the lag covers the
proof window and the deepest reorganisation. The instance of run `consumers`
satisfies both. Each clause excludes something that breaks the property:
`RewardRetry`, `RewardPartial`, `RewardTwoAddrs` and `RewardTip` show what. That
no address is overdrawn is what `BlockSync` keeps (`UtxoMatchesLedger`).

With the shipped configuration `Buried` asks little of the later stages (lag
20160, windows of 1000 and 1440 blocks). Before stage 2 the window is 20160
blocks too, so there it holds only if nothing is reorganised; that is the case
`RewardTip` shows.

### Arguments

**Block sync.** Neither `CommittedPrefix` nor `WriteAhead` is inductive: the
rows a submit writes and marks depend on the heights in memory, and those were
computed many steps earlier. `HeightsInv` says at every program counter how they
relate. `StoreInv` is what always holds of the stores. `PhaseInv` adds, from the
consistency check to the first Redis write, that the batch starts right above
the committed rows and above both Redis heights (`CommittedBelow`,
`CursorsBelow`); while parsing, that every height of the batch has a hash
(`Fetched`); after the flush, that it has a row (`Flushed`); in a rollback, that
it starts from a committed height and that the Redis heights are below it
before a row is deleted. A failure at any point leads back to the head of the
loop, where nothing is assumed of memory. `TypeOK` and `HeightsInv` are proved
together, because the range of the heights a step indexes tables with comes from
`HeightsInv`. `AppliedArtifactsStable` and the refinement follow: only `Flush`,
`Mark`, `RbArtifacts` and `RbBlocks` write rows (`RowWriters`), and what they
write is above the Redis heights (`BatchIsAbove`, `RolledBackIsAbove`).

**Pipeline.** `ReturnsWhatWasParsed` speaks of two
goroutines that meet only through a channel, so `OrderInv` says what the channel
holds in between: the heights after the last one the caller received, in order,
up to the consumer's next one. The refinement needs from it only that the
consumer is inside the window when it starts a block. `BoundedReadAhead` counts
blocks while the code counts tokens: `SlotInv` says that every block read ahead
has a token in `blocksDone`, but for the one whose token the consumer has taken.

**Handlers.** `OneIndexerPerOwner` speaks of stored rows, while the handler decides
over staged ones, before they are stored and possibly a second time after a
failure. `OwnersInv` says that staged and stored registers together have one
owner each, unless they are the same register: `resolveRegisterInvalidFlags`
looks at the staged owners and at the table, and a register that is staged
again is the stored one. `StatusInv` says where the count of registers is
between the insert and the write of the status, and that start-up counts again.
`OrderInv` says that the lists are stored one after the other: once a later one is
being stored, every staged row of an earlier one has a stored row with its key.
These hold under every fault and every reorganisation. `OneChain` holds until the
first reorganisation, and is what the properties on references need: the
committed blocks and those of the batch are blocks of the node (`ChainInv`), the
id of a register is the place of its transaction in them (`PlacesInv`), what is
staged for an indexer or as a valid event has that indexer or its row staged or
stored (`IndexersInv`, `RowsInv`), and what is stored has it stored (`Fits`). A
block is handled transaction by transaction, so that step is an induction over the
transactions (`HandleAt`), with one lemma for each handler. On one chain a
rollback has nothing to do: no committed block differs from the node's.

**Commission views.** "The ratio read is the one in force" is not
inductive: it speaks of all accepted updates, while a view keeps two numbers.
`IInv` says what those two remember. Accepted updates are at least the
activation delay apart (`Spaced`), so of the updates up to a height a view
needs the last one (`delayed`) and the last one before it, which has taken
effect (`ratio`); that is `ViewOK`, kept for each of the three views with the
height it has replayed and the height it may have seen. It survives a height
that is consumed again after a crash, an update in a later block (`ViewGrow`)
and the staging a read does (`ViewStage`). The theorems on the pending and the
settled reads follow, because what was read stays in force as later updates
are accepted (`ForceGrow`).

**Reward rules.** `RewardInv` says that every stage of a reward finds what the
stages before it computed from the configuration and the rows. What remains are
facts about numbers and choices. A configuration that `conf.Load` accepts has a
window in which every step of the penalty leaves some stake (`NeverExpired`), and
the two files that judge a delay compare with the same bounds
(`StatusAndPercentAgree`). Of the proofs of an indexer with the right hash the
earliest has the smallest delay, and penalties only grow with the delay, so
dropping the others costs nothing (`DuplicatesCostNothing`). For
`AllocationBounds` a share is a quotient with a common denominator: truncated with
an epsilon, it differs from the exact one by less than a unit, rounded by half a
unit at most; summed over the parties, the excess that the epsilon allows stays
below one unit because there are fewer parties than 1 / epsilon.

**Mempool tables.** `SyncInv` says at every step of a synchronisation which
rows are still the ones it found, which it has added, and which it has deleted;
it needs nothing of the blocks, so it survives every reorganisation and failure.
`KeptInv` is about the blocks and only until the first reorganisation: the
committed blocks are a prefix of the best chain (`PrefixInv`), so what the node
lists is not committed; no stored event is committed, because the events are
reset before blocks are parsed; and a committed inscription event has the height
of its block (`RowsInv`).

**Pending stake.** `DeltaInv` follows the two passes: what the first one added
up, which addresses it found to be bound first, that both passes together are
one pass over the whole listing (`MempoolProofs`), and that this is what is
stored. `LedgerInv` says that unspent outputs belong to bound addresses and to
committed transactions, so that the outputs the mempool pays are new. With these
a sum of balances after the commit is the sum before it plus the deltas
(`MempoolProofs`), which is `PendingForetellsCommit`; the views agree, because the
sums over users, addresses and indexers are regroupings of one another.

**Loops of the consumers.** `LoopInv` ties cursor, loop variable and loaded
height together at every step of a consumer, and says that a height that was
taken up is deep enough below the highest tip there has been. `TipInv` says how
far the committed height may be below that tip: not at all before the first
reorganisation, the depth of one afterwards. Both hold under every fault, and
together they are `ConsumersKeepDistance`.

**Memory of the consumers.** `SnapshotInv` says at every step of a consumer what
its balances, bindings and memory are in terms of the committed blocks, and that
a rollback leaves what it has taken up (`StableChain`). A stake is a sum over the
addresses of a user, a balance a sum over the blocks; that a block adds its
deltas to both is a fact about sums.

**Rewards.** `AllocatedInv`: rows up to the snapshot cursor are those the blocks
define, the next height has them or none, the ones above have none; so writing a
height again after a crash changes nothing. `CountInv`: what is staged is the
reward of the height whose rows are written, and the totals are the sums up to
the cursor; the flush moves both. `AnnouncedInv`: until the first
reorganisation, a height between the cursors has its rows in one table or the
other, and what the pending consumer holds between reading and writing is still
what the height is due (`HeldIsDue`).

**Sums.** The library's fold over a set is defined by `CHOOSE`. `SumLemmas`
proves that the fold exists, that it does not depend on the order of the
elements, and the laws the other modules use: adding and removing an element,
disjoint unions, pointwise sums, regrouping. Each is an induction over the size
of the set. The library states induction for an operator, which these provers
cannot instantiate; `NatInd` and `SetInd` state it for a set of numbers or of
subsets, and follow from the existence of a minimal counterexample.

### Only model-checked

- `BalancesMatchLedger`, `DeltasMatchLedger` and `UtxoMatchesLedger` of
  `BlockSync`. They hold between reorganisations, failures and undo steps under
  conditions on the history (see the runs), and their inductive invariant would
  have to say what every interrupted submit has left in three stores.
- `TablesAreReplay` and `CommissionIsReplay` of `ProtocolHandlers`. They compare
  the stores with one run over the committed blocks; their inductive invariant
  would have to say that a handler decides the same whether the rows it looks
  at are staged, stored or both, and that a rollback removes exactly what the
  later blocks added.
- `FollowsNode`, `Returns`, `LeavesNothingBehind`, `FollowsPool` and
  `ConsumersCatchUp`: liveness under fairness is beyond the prover.

## Deviations

Where the code does something else than a document, a comment, an error message
or the property of a module says, a configuration shows it: TLC ends with a
counterexample. `sync_retry` and `commission_early` are runs of `PROJECT.json`
and have an entry under its `findings`. The others are run by hand, as in
`tlc -config BlockSyncCrash.cfg MCBlockSync`.

| Configuration | Property | What happens |
|---|---|---|
| `BlockSyncRetry` (run `sync_retry`) | `BalanceIsSumOfDeltas` | a failed submit that is retried counts its deltas twice |
| `BlockSyncStop` | `BalanceIsSumOfDeltas` | a stop signal in the middle of a block leaves its spends in the global maps |
| `BlockSyncCrash` | `DeltasMatchLedger` | a crash after the UTXO deletes hides those spends from the next parse |
| `BlockSyncRbCrash` | `BalanceIsSumOfDeltas` | a crash inside the realtime rollback subtracts a height twice |
| `BlockSyncFirst` | `RollbackLeavesHeightsAgreeing` | a rollback to the first indexed height leaves heights the check refuses |
| `BlockSyncDeep` | `UndoWithinRetention` | two rollbacks in a row pass the undo retention guard and use pruned rows |
| `BlockSyncRace` | `BalancesMatchLedger` | a reorganisation between check and fetch leaves wrong balances |
| `BlockSyncBatch` | `BatchWithinLimit` | a parse window holds `batch_block_count` + 1 blocks (`docs/DEPLOYMENT.md:91`) |
| `RegisterCrash`, `RegisterStop` | `FirstRegisterIsValid` | a register whose row is stored before its block is committed meets that row when the block is parsed again, and its event is stored as invalid (`docs/ORDINALS_PROTOCOL_REDESIGN.md:106`) |
| `RegisterLookup` | `FirstRegisterIsValid` | one failed query makes a first register invalid for ever |
| `CommissionReorg` | `TablesReplayed` | a rollback leaves the delayed ratio in Redis, and the same update mined again is rejected because of itself |
| `AbandonedRows` | `RowsAreFromChain` | rows stored for heights that were never committed survive when the node changes those blocks |
| `CommissionEarly` (run `commission_early`) | `SnapshotRatioInForce` | before its first effective update the snapshot view falls back to a ratio the fast path has moved on (`docs/REWARD_ALLOCATION_RULES.md:177`) |
| `RewardTiers` | `ReleaseIsHighestReachedTier` | release tiers are accepted in any order and looked up as if sorted (`docs/REWARD_ALLOCATION_RULES.md:140`) |
| `RewardRetry` | `MemoryIsSnapshot` | a height that is retried applies its deltas to memory twice (`state_bindings.go:86`) |
| `RewardPartial` | `CountedOnce` | a flush cut between increments and cursor is counted again (`state_staging.go:93`) |
| `RewardTwoAddrs` | `MemoryIsSnapshot` | the balance of a second stake address replaces that of the first (`docs/REWARD_ALLOCATION_RULES.md:125`) |
| `RewardBehind` | `SnapshotStaysBehind` | after a rollback of the fast path the batch goes on to the bound it computed before, and consumes heights closer to the committed one than the lag (`docs/DEPLOYMENT.md:95`: "only consumes heights up to `latest_committed_sync_block_height - slow_lag_blocks`") |
| `RewardTip` | `AllocationIsReplay` | with a lag equal to the proof window, a reorganisation of the tip removes a proof that was paid |
| `MempoolClaim` | `ClaimStaysDeducted` | between the reset and the commit a pending claim is deducted nowhere (`docs/API.md:305`, which also says that the endpoint is no atomic reservation) |
| `MempoolStatus` | `StatusAppliesDeltas` | the reset leaves the pending total in the status, so a stake just confirmed is counted twice (`docs/API.md:72`) |
| `MempoolTwo` | `PendingMeansAffected` | the first bind of a second address marks the user as pending and drops the amount (`docs/API.md:156`) |
| `MempoolFlip` | `EventsKept` | a reorganisation between rollback check and listing makes a committed event pending; when the first branch returns, it stays so and is then deleted |

`MempoolFlip` lets the node answer by height only: the listing does not depend
on the hash the loop last saw.

Seen while modelling, and covered by no property: both reward consumers read
`pending_reward_total_amount`, change it and write it in a later pipeline, so
one of two changes may be lost; a parent that the mempool synchronisation
cannot look up leaves its input out of the delta without making the
synchronisation incomplete; a spend of an output that was paid before its
address was bound is subtracted from the pending view although it was never
counted (the case `Accounted` excludes); a pipeline of the mempool snapshot cut
between the stakers and the set of their indexers leaves keys that no reset
finds.

## Not modelled

- `internal/parser`, `lib/script`: byte-level decoding of scripts, envelopes
  and payloads. The models start from what the parser made of a transaction. A
  faithful model would repeat the decoder byte by byte.
- Single-table HTTP queries (lists, pagination, formatting): they have no state
  and combine nothing. The queries that combine two stores are in `MempoolSync`.
- Start-up maintenance other than the reset of the mempool, the reset of the
  pending total and the count of registers in the status: one-time clean-ups and backfills of old tables, run once before
  the loop.
- Storage clients, schema, logging, metrics and the fields of the status page
  that nothing reads back.
- `BlockSync` and the modules around it are composed by reading: the one-step
  commit and rollback of `RewardConsumers`, `ProtocolHandlers` and
  `MempoolSync` are the committed rows that `BlockSync` is proved to keep as a
  log (`Refinement`); that the modules together refine one composed
  specification is not checked, because the product of their states is out of
  TLC's reach.
- In `MempoolSync` the parse of a loaded transaction does not fail: the branch of
  `RunProtocolSync` for a parser error marks the synchronisation as incomplete, and
  the parser returns none for a transaction that could be decoded.
- The hash of the tip that `MempoolSync` passes with the listing: the model's
  listing does not depend on it. A node that refuses to list for an old tip has
  fewer behaviours (its refusal is `ListFails`).
- Pipelines of `MempoolSync` happen as a whole or not at all.
- The float64 arithmetic of the rewards is exact here; `AllocationIsBounded`
  shows the effect of the truncation and its epsilon on exact quotients only.
