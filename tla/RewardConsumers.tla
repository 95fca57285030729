---------------------------- MODULE RewardConsumers ----------------------------
(***************************************************************************)
(* The two reward consumers: SyncStakeRewardIndexer allocates the rewards  *)
(* of blocks that are slow_lag_blocks deep, SyncPendingRewardIndexer       *)
(* announces them as soon as their proof window has passed.  Both replay   *)
(* the committed blocks from cursors of their own, keep the stakes in      *)
(* memory, write rows to PostgreSQL and totals to Redis, and share one     *)
(* Redis field.  The fast path is the environment: it commits blocks and   *)
(* rolls back recent ones, one atomic step each (BlockSync has the steps). *)
(* There is one indexer; its commission is fixed (CommissionView varies    *)
(* it).                                                                    *)
(***************************************************************************)
EXTENDS RewardRules, Sequences

CONSTANTS Cfg,           \* StakeRewardCfg, as RewardRules has it
          Lag,           \* SlowLagBlocks
          Batch,         \* BatchBlockCount
          Indexer, Ratio,
          UserOf,        \* stake address -> the user it belongs to
          Contents(_),   \* what a block of a height may hold
          MaxHeight,
          FinalDepth,    \* no reorganisation reaches so far below the highest tip
          Faults,        \* of "reorg", "crash", "error", "total", "partial", "lost"
          MaxFaults

ASSUME ConsumerAssumption ==
    /\ Lag \in Nat /\ Batch \in Nat \ {0} /\ FinalDepth \in Nat
    /\ MaxHeight \in Nat /\ MaxFaults \in Nat /\ Ratio \in Nat

\* What the configuration loader leaves in Cfg (RewardRules!Load).
ASSUME CfgAssumption ==
    /\ Cfg.proofWindow \in Nat /\ Cfg.triggerBlocks \in Nat /\ Cfg.stepBlocks \in Nat
    /\ Cfg.stepPercent \in Nat \ {0} /\ Cfg.stage2Start \in Nat
    /\ Cfg.stage3Start \in Nat /\ Cfg.startReward \in Nat
    /\ Cfg.stage3Blocks \in [1 .. 7 -> Nat]
    /\ Cfg.tiers \in Seq([start : Nat, percent : Nat])

Addrs == DOMAIN UserOf
Users == {UserOf[a] : a \in Addrs}
Owner == "owner"                       \* the user address of the register
Parties == Users \cup {Owner}
Consumers == {"snapshot", "pending"}
Heights == 1 .. MaxHeight              \* IndexStartHeight is 1

ASSUME BlockAssumption ==
    /\ IsFiniteSet(Addrs)
    /\ \A h \in Heights : \A b \in Contents(h) :
          /\ b.reward \in Nat /\ b.binds \subseteq Addrs
          /\ b.delta \in [Addrs -> Int]

\* What the addresses of each user amount to.
SumOf(amounts, addrs) ==
    [u \in Users |-> SumFunctionOnSet(amounts, {a \in addrs : UserOf[a] = u})]

VARIABLES chain,     \* the committed blocks
          top,       \* the highest block ever committed
          pc,        \* where each consumer is
          hgt, end,  \* the loop variable of each and its bound
          read,      \* what the block's step has read: syncBlock and deltas
          loaded,    \* stakeBindingsLoadedHeight
          bound,     \* stakeAddrToIndexer
          mem,       \* indexerToAddrStakeAmount
          slow,      \* slowState: increments, and the staged pending total
          held,      \* what the pending consumer's handleBlockReward holds from the
                     \* deletion to the upsert: existingTotalPendingAmount, pendingRewards
          rows,      \* stake_allocated_rewards and stake_pending_rewards
          paid,      \* Redis: reward totals per party, and reward_total ("all")
          total,     \* Redis: pending_reward_total_amount
          bal,       \* Redis: snapshot balances of each consumer
          cursor,    \* Redis: TASK_..._CONSUMER_HEIGHT, 0 when absent
          faults     \* how many so far, and whether one was a reorganisation

memory == <<loaded, bound, mem, slow, held>>
redis == <<paid, total, bal, cursor>>
loop == <<hgt, end, read>>
vars == <<chain, top, pc, loop, memory, rows, redis, faults>>

indexed == Len(chain)
Zero(S) == [x \in S |-> 0]
Unset == -1                            \* no pending total is staged
NoWrites == [inc |-> [c \in Consumers |-> Zero(Parties \cup {"all"})], total |-> Unset]
Nothing == [reward |-> 0, delta |-> Zero(Addrs)]
NoneHeld == [existing |-> 0, amounts |-> Zero(Parties \cup {"all"})]
NoRows == [h \in Heights |-> Zero(Parties)]
Budget(kind) ==
    /\ kind \in Faults /\ faults.n < MaxFaults
    /\ faults' = [n |-> faults.n + 1, reorg |-> faults.reorg \/ kind = "reorg"]
------------------------------------------------------------------------------
\* The rows of stake_proofs and of stake_bindings.
Proofs ==
    UNION {{[indexer |-> Indexer, prove |-> p.prove, hash |-> p.hash, height |-> h,
             txIdx |-> 1, txid |-> p.prove, status |-> "Pending"] : p \in chain[h].proofs} :
               h \in 1 .. indexed}

ListStakeBindingsRange(from, to) ==
    UNION {chain[h].binds : h \in {k \in 1 .. indexed : from < k /\ k <= to}}

Selected(h) == ListStakeProofByProveHeight(Proofs, h, RewardProofWindowByHeight(Cfg, h))

\* The block hash and the state hash; a block that is gone is the node's to know.
resolveProofHashInputs(h) == IF h <= indexed THEN chain[h].hash ELSE 0

\* handleBlockReward: the amounts of the block's reward, given the users' stakes.
Rewards(h, reward, stakes) ==
    LET hash == resolveProofHashInputs(h)
        resolved == resolveStakeProofValidity(Cfg, Selected(h), hash, hash)
        percent == resolveRewardStakePercentByIndexer(Cfg, h, ValidProofs(resolved))
        weights == indexerStakeTotal(percent, [i \in {Indexer} |-> stakes])
        unlocked == unlockedRewardAmount(Cfg, h, reward)
        s == Shares(Cfg, h, weights, Indexer, unlocked, Ratio, [i \in {Indexer} |-> stakes])
    IN  IF h < Cfg.startReward \/ reward = 0 \/ DOMAIN weights = {}
        THEN Zero(Parties \cup {"all"})
        ELSE [p \in Parties \cup {"all"} |->
                IF p = "all" THEN s.first ELSE IF p = Owner THEN s.own ELSE s.users[p]]

HasRows(amounts) == \E p \in Parties : amounts[p] > 0
Amount(amounts) == SumFunctionOnSet(amounts, Parties)
------------------------------------------------------------------------------
Init ==
    /\ chain = <<>> /\ top = 0 /\ faults = [n |-> 0, reorg |-> FALSE]
    /\ pc = [c \in Consumers |-> "off"]
    /\ hgt = Zero(Consumers) /\ end = Zero(Consumers)
    /\ read = [c \in Consumers |-> Nothing]
    /\ loaded = Zero(Consumers) /\ bound = [c \in Consumers |-> {}]
    /\ mem = [c \in Consumers |-> Zero(Users)]
    /\ slow = [c \in Consumers |-> NoWrites] /\ held = NoneHeld
    /\ rows = [c \in Consumers |-> NoRows]
    /\ paid = [c \in Consumers |-> Zero(Parties \cup {"all"})]
    /\ total = 0 /\ cursor = Zero(Consumers)
    /\ bal = [c \in Consumers |-> Zero(Addrs)]

\* SubmitBlocks of the fast path.
Commit ==
    /\ indexed < MaxHeight
    /\ \E b \in Contents(indexed + 1) : chain' = Append(chain, b)
    /\ top' = IF indexed + 1 > top THEN indexed + 1 ELSE top
    /\ UNCHANGED <<pc, loop, memory, rows, redis, faults>>

\* A rollback deletes the blocks, bindings, proofs and allocated rewards from
\* a height on (RollbackStakeTablesFromHeight); pending rewards, Redis and the
\* consumers' cursors stay.
Rollback ==
    \E from \in 1 .. indexed :
        /\ from > top - FinalDepth
        /\ Budget("reorg")
        /\ chain' = SubSeq(chain, 1, from - 1)
        /\ rows' = [rows EXCEPT !["snapshot"] =
                      [h \in Heights |-> IF h >= from THEN Zero(Parties) ELSE @[h]]]
        /\ UNCHANGED <<top, pc, loop, memory, redis>>

\* LoadStakeBindingsToHeight.  The balance of an address replaces the amount
\* of its user, in no particular order when a user has several.
LoadFrom(c, h, balances) ==
    LET reset == h < loaded[c]
        items == IF h = loaded[c] THEN {}
                 ELSE ListStakeBindingsRange(IF reset THEN 0 ELSE loaded[c], h)
        kept == IF reset THEN Zero(Users) ELSE mem[c]
    IN  /\ loaded' = [loaded EXCEPT ![c] = h]
        /\ bound' = [bound EXCEPT ![c] = IF reset THEN items ELSE @ \cup items]
        /\ \E last \in [{UserOf[a] : a \in items} -> items] :
              /\ \A u \in DOMAIN last : UserOf[last[u]] = u
              /\ mem' = [mem EXCEPT ![c] =
                            [u \in Users |-> IF u \in DOMAIN last THEN balances[last[u]]
                                             ELSE kept[u]]]

\* Variant: both consumers start from the shared snapshot balances.
LoadShared(c, h) == LoadFrom(c, h, bal["snapshot"])

LoadStakeBindingsToHeight(c, h) == LoadFrom(c, h, bal[c])

\* Variant: the memory is not loaded.
StartCold(c) ==
    /\ pc[c] = "off" /\ indexed > 0
    /\ pc' = [pc EXCEPT ![c] = "poll"]
    /\ loaded' = [loaded EXCEPT ![c] = cursor[c]]
    /\ UNCHANGED <<chain, top, loop, bound, mem, slow, held, rows, redis, faults>>

\* startStakeRewardSyncIfCommitted, initRewardSyncManager.
Start(c) ==
    /\ pc[c] = "off" /\ indexed > 0
    /\ pc' = [pc EXCEPT ![c] = "poll"]
    /\ IF cursor[c] = 0 THEN UNCHANGED <<loaded, bound, mem>>
       ELSE LoadStakeBindingsToHeight(c, cursor[c])
    /\ UNCHANGED <<chain, top, loop, slow, held, rows, redis, faults>>

canProcessPendingRewardHeight(h, idx) ==
    idx > h /\ idx - h >= RewardProofWindowByHeight(Cfg, h)

\* Variant: the lag is not kept.
TargetAtTip(c, next) == {h \in next .. next + Batch - 1 : h <= indexed}

\* The heights the loop may go through, from what the poll reads.
Target(c, next) ==
    {h \in next .. next + Batch - 1 :
        IF c = "snapshot" THEN indexed > Lag /\ h <= indexed - Lag
        ELSE \A k \in next .. h : canProcessPendingRewardHeight(k, indexed)}

\* Variant: the loop waits for a full batch.
PollFullBatch(c) ==
    /\ pc[c] = "poll"
    /\ Target(c, cursor[c] + 1) = cursor[c] + 1 .. cursor[c] + Batch
    /\ end' = [end EXCEPT ![c] = cursor[c] + Batch]
    /\ hgt' = [hgt EXCEPT ![c] = cursor[c] + 1]
    /\ pc' = [pc EXCEPT ![c] = "load"]
    /\ UNCHANGED <<chain, top, read, memory, rows, redis, faults>>

Poll(c) ==
    /\ pc[c] = "poll"
    /\ LET target == Target(c, cursor[c] + 1)
       IN  /\ target # {}
           /\ end' = [end EXCEPT ![c] = Max(target)]
    /\ hgt' = [hgt EXCEPT ![c] = cursor[c] + 1]
    /\ pc' = [pc EXCEPT ![c] = "load"]
    /\ UNCHANGED <<chain, top, read, memory, rows, redis, faults>>

\* The block was rolled back: the batch ends here.
NotCommitted(c) ==
    /\ pc[c] = "load" /\ hgt[c] > indexed
    /\ pc' = [pc EXCEPT ![c] = "poll"]
    /\ UNCHANGED <<chain, top, loop, memory, rows, redis, faults>>

LoadBindings(c) ==
    /\ pc[c] = "load" /\ hgt[c] <= indexed
    /\ LoadStakeBindingsToHeight(c, hgt[c])
    /\ read' = [read EXCEPT ![c].reward = chain[hgt[c]].reward]
    /\ pc' = [pc EXCEPT ![c] = "stage"]
    /\ UNCHANGED <<chain, top, hgt, end, slow, held, rows, redis, faults>>

\* StageStakeBalanceDeltas.  No block moves two addresses of one user.
Staged(c) ==
    LET moved == SumOf(read'[c].delta, bound[c])
    IN  [u \in Users |-> Max({0, mem[c][u] + moved[u]})]

ReadDeltas(c) ==
    /\ read' = [read EXCEPT ![c].delta = [a \in Addrs |->
                   IF hgt[c] <= indexed THEN chain[hgt[c]].delta[a] ELSE 0]]
    /\ pc' = [pc EXCEPT ![c] = IF c = "pending" /\ hgt[c] < Cfg.stage2Start
                               THEN "flush" ELSE "reward"]
    /\ UNCHANGED <<chain, top, hgt, end, loaded, bound, slow, held, rows, redis,
                   faults>>

\* Variant: blocks the pending consumer pays nothing for are not staged.
StageDeltasLate(c) ==
    /\ pc[c] = "stage"
    /\ ReadDeltas(c)
    /\ mem' = [mem EXCEPT ![c] = IF c = "pending" /\ hgt[c] < Cfg.stage2Start THEN @
                                 ELSE Staged(c)]

StageDeltas(c) ==
    /\ pc[c] = "stage"
    /\ ReadDeltas(c)
    /\ mem' = [mem EXCEPT ![c] = Staged(c)]

\* The increments of handleBlockReward's loop over the indexers.
StagedRewards(c, amounts) ==
    [slow[c] EXCEPT !.inc[c] = [p \in DOMAIN @ |-> @[p] + amounts[p]]]

\* Upsert: a row without a new amount keeps the old one.
Upserted(old, amounts) == [p \in Parties |-> IF amounts[p] > 0 THEN amounts[p] ELSE old[p]]

\* handleBlockReward of the snapshot consumer, to UpsertStakeAllocatedRewardBatch.
Allocate(c) ==
    /\ pc[c] = "reward" /\ c = "snapshot"
    /\ \E amounts \in {Rewards(hgt[c], read[c].reward, mem[c])} :
           /\ slow' = [slow EXCEPT ![c] = StagedRewards(c, amounts)]
           /\ rows' = [rows EXCEPT ![c][hgt[c]] = Upserted(@, amounts)]
           /\ pc' = [pc EXCEPT ![c] = IF HasRows(amounts) THEN "subtract" ELSE "flush"]
    /\ UNCHANGED <<chain, top, loop, loaded, bound, mem, held, redis, faults>>

\* resolvePendingRewardTotalAmount: an error reads as 0.
PendingTotalRead(current) ==
    \/ current = total /\ UNCHANGED faults
    \/ current = 0 /\ Budget("total")

\* subtractPendingRewardByHeight, to the deletion of the rows.
Subtract(c) ==
    /\ pc[c] = "subtract"
    /\ LET items == rows["pending"][hgt[c]]
           minus == [p \in Parties \cup {"all"} |->
                       IF p = "all" THEN Amount(items) ELSE items[p]]
       IN  IF HasRows(items)
           THEN \E current \in {total, 0} :
                   /\ PendingTotalRead(current)
                   /\ slow' = [slow EXCEPT ![c] =
                         [inc |-> [slow[c].inc EXCEPT !["pending"] =
                                     [p \in DOMAIN @ |-> @[p] - minus[p]]],
                          total |-> Max({0, current - Amount(items)})]]
                   /\ pc' = [pc EXCEPT ![c] = "delete"]
           ELSE UNCHANGED <<slow, faults>> /\ pc' = [pc EXCEPT ![c] = "flush"]
    /\ UNCHANGED <<chain, top, loop, loaded, bound, mem, held, rows, redis>>

DeletePending(c) ==
    /\ pc[c] = "delete"
    /\ rows' = [rows EXCEPT !["pending"][hgt[c]] = Zero(Parties)]
    /\ pc' = [pc EXCEPT ![c] = "flush"]
    /\ UNCHANGED <<chain, top, loop, memory, redis, faults>>

\* handleBlockReward of the pending consumer, to DeleteStakePendingRewardsByHeight.
Announce(c) ==
    /\ pc[c] = "reward" /\ c = "pending"
    /\ \E amounts \in {Rewards(hgt[c], read[c].reward, mem[c])} :
           /\ slow' = [slow EXCEPT ![c] = StagedRewards(c, amounts)]
           /\ IF HasRows(amounts)
              THEN /\ held' = [existing |-> Amount(rows[c][hgt[c]]), amounts |-> amounts]
                   /\ rows' = [rows EXCEPT ![c][hgt[c]] = Zero(Parties)]
                   /\ pc' = [pc EXCEPT ![c] = "upsert"]
              ELSE UNCHANGED <<held, rows>> /\ pc' = [pc EXCEPT ![c] = "flush"]
    /\ UNCHANGED <<chain, top, loop, loaded, bound, mem, redis, faults>>

\* UpsertStakePendingRewardBatch of the amounts held, and their total.
UpsertPending(c) ==
    /\ pc[c] = "upsert"
    /\ rows' = [rows EXCEPT ![c][hgt[c]] = Upserted(@, held.amounts)]
    /\ \E current \in {total, 0} :
          /\ PendingTotalRead(current)
          /\ slow' = [slow EXCEPT ![c].total =
                        Max({0, current - held.existing}) + Amount(held.amounts)]
    /\ held' = NoneHeld
    /\ pc' = [pc EXCEPT ![c] = "flush"]
    /\ UNCHANGED <<chain, top, loop, loaded, bound, mem, redis>>
------------------------------------------------------------------------------
\* The pipeline of flushBalanceChanges runs its commands in this order, and is
\* not a transaction: fields, increments, balances, then the cursor.
Stages == 1 .. 4

Executed(c, upto) ==
    /\ total' = IF upto >= 1 /\ slow[c].total # Unset THEN slow[c].total ELSE total
    /\ paid' = IF upto < 2 THEN paid
               ELSE [k \in Consumers |-> [p \in DOMAIN paid[k] |->
                                            paid[k][p] + slow[c].inc[k][p]]]
    /\ bal' = IF upto < 3 THEN bal
              ELSE [bal EXCEPT ![c] = [a \in Addrs |-> @[a] + read[c].delta[a]]]
    /\ cursor' = IF upto < 4 THEN cursor ELSE [cursor EXCEPT ![c] = hgt[c]]
    /\ UNCHANGED <<chain, top, loop, loaded, bound, mem, held, rows>>

\* Variant: what was staged stays staged.
ExecuteNoReset(c, upto) == Executed(c, upto) /\ UNCHANGED slow

Execute(c, upto) ==
    /\ Executed(c, upto)
    /\ slow' = [slow EXCEPT ![c] = NoWrites]

Flush(c) ==
    /\ pc[c] = "flush"
    /\ Execute(c, 4)
    /\ pc' = [pc EXCEPT ![c] = "clean"]
    /\ UNCHANGED faults

\* The pipeline breaks off, or its replies are lost after the last command.
FlushFails(c) ==
    /\ pc[c] = "flush"
    /\ \E upto \in Stages \cup {0} :
          /\ Budget(IF upto = 4 THEN "lost" ELSE "partial")
          /\ Execute(c, upto)
    /\ pc' = [pc EXCEPT ![c] = "poll"]

\* cleanupZeroSnapshotBalances deletes keys that hold 0, then the loop goes on.
Advance(c) ==
    /\ pc[c] = "clean"
    /\ pc' = [pc EXCEPT ![c] = IF hgt[c] < end[c] THEN "load" ELSE "poll"]
    /\ hgt' = [hgt EXCEPT ![c] = IF @ < end[c] THEN @ + 1 ELSE @]
    /\ read' = [read EXCEPT ![c] = Nothing]
    /\ UNCHANGED <<chain, top, end, memory, rows, redis, faults>>

\* Variant: the loop goes on with the next height.
FailSkips(c) ==
    /\ pc[c] \in {"load", "stage", "reward", "subtract", "delete", "upsert"}
    /\ Budget("error")
    /\ hgt[c] < end[c]
    /\ pc' = [pc EXCEPT ![c] = "load"]
    /\ hgt' = [hgt EXCEPT ![c] = @ + 1]
    /\ UNCHANGED <<chain, top, end, read, memory, rows, redis>>

\* Any call of the block fails: its height is tried again.
Fail(c) ==
    /\ pc[c] \in {"load", "stage", "reward", "subtract", "delete", "upsert", "clean"}
    /\ Budget("error")
    /\ pc' = [pc EXCEPT ![c] = "poll"]
    /\ UNCHANGED <<chain, top, loop, memory, rows, redis>>

\* The bindings are cached, then reading their balances fails.
BalanceReadFails(c) ==
    /\ pc[c] = "load" /\ hgt[c] \in loaded[c] + 1 .. indexed
    /\ Budget("error")
    /\ loaded' = [loaded EXCEPT ![c] = hgt[c]]
    /\ bound' = [bound EXCEPT ![c] = @ \cup ListStakeBindingsRange(loaded[c], hgt[c])]
    /\ pc' = [pc EXCEPT ![c] = "poll"]
    /\ UNCHANGED <<chain, top, loop, mem, slow, held, rows, redis>>

\* The process dies, or is stopped: os.Exit does not wait for the consumers.
Crash ==
    /\ Budget("crash")
    /\ \E c \in Consumers : pc[c] # "off"
    /\ pc' = [c \in Consumers |-> "off"]
    /\ hgt' = Zero(Consumers) /\ end' = Zero(Consumers)
    /\ read' = [c \in Consumers |-> Nothing]
    /\ loaded' = Zero(Consumers) /\ bound' = [c \in Consumers |-> {}]
    /\ mem' = [c \in Consumers |-> Zero(Users)]
    /\ slow' = [c \in Consumers |-> NoWrites] /\ held' = NoneHeld
    /\ UNCHANGED <<chain, top, rows, redis>>

Step(c) ==
    \/ Start(c) \/ Poll(c) \/ NotCommitted(c) \/ LoadBindings(c) \/ StageDeltas(c)
    \/ Allocate(c) \/ Subtract(c) \/ DeletePending(c)
    \/ Announce(c) \/ UpsertPending(c) \/ Flush(c) \/ Advance(c)

Next ==
    \/ Commit \/ Rollback \/ Crash
    \/ \E c \in Consumers : Step(c) \/ FlushFails(c) \/ Fail(c) \/ BalanceReadFails(c)

Spec == Init /\ [][Next]_vars

\* Each consumer is a goroutine that always runs on; the chain grows.
Fairness == WF_vars(Commit) /\ \A c \in Consumers : WF_vars(Step(c))
FairSpec == Spec /\ Fairness
------------------------------------------------------------------------------
\* What the committed blocks alone say.
Balance(h, a) == SumFunction([k \in 1 .. h |-> chain[k].delta[a]])
Bound(h) == ListStakeBindingsRange(0, h)
StakesAt(h) == SumOf([a \in Addrs |-> Balance(h, a)], Bound(h))
AsExpected(c, h) ==
    LET expected == Rewards(h, chain[h].reward, StakesAt(h))
    IN  \A p \in Parties : rows[c][h][p] = expected[p]
Idle(c) == pc[c] = "poll"

(***************************************************************************)
(* No consumer takes a block the chain has not buried: until the first     *)
(* reorganisation both cursors keep their distance from the last committed *)
(* block, slow_lag_blocks for the snapshot consumer and the proof window   *)
(* for the pending one.  Cursors and the bound of a running batch are not  *)
(* rewound by a rollback, so from then on a cursor may be closer to the    *)
(* tip, by no more than the depth a reorganisation has.                    *)
(***************************************************************************)
ConsumersKeepDistance ==
    LET tip == IF faults.reorg THEN indexed + FinalDepth ELSE indexed
    IN  /\ cursor["snapshot"] > 0 => cursor["snapshot"] + Lag <= tip
        /\ \A h \in 1 .. cursor["pending"] :
              h + RewardProofWindowByHeight(Cfg, h) <= tip

(***************************************************************************)
(* "The reward sync loop only consumes heights up to                       *)
(* latest_committed_sync_block_height - slow_lag_blocks": a step that      *)
(* moves the snapshot cursor leaves it so far below the committed height   *)
(* of that moment.  The bound of a batch is from its poll, so this fails   *)
(* when a rollback comes between the poll and the block.                   *)
(***************************************************************************)
SnapshotStaysBehind ==
    [][cursor'["snapshot"] # cursor["snapshot"] =>
          cursor'["snapshot"] + Lag <= indexed]_vars

(***************************************************************************)
(* No height is skipped or consumed again once its cursor is written: a    *)
(* consumer's cursor moves one height at a time, in the flush of that      *)
(* height, whatever failed, crashed or was rolled back in between.         *)
(***************************************************************************)
EveryHeightOnce ==
    [][\A c \in Consumers : cursor'[c] # cursor[c] =>
          /\ cursor'[c] = cursor[c] + 1 /\ cursor'[c] = hgt[c]
          /\ loaded[c] = hgt[c]]_vars

(***************************************************************************)
(* The stake a manager keeps in memory is the snapshot balance of the      *)
(* user's stake addresses: "The stake amount is purely the stake address   *)
(* balance snapshot, and is updated by balance deltas".                    *)
(***************************************************************************)
MemoryIsSnapshot ==
    \A c \in Consumers : Idle(c) => mem[c] = SumOf(bal[c], bound[c])

(***************************************************************************)
(* The allocated rows of every consumed height are those the committed     *)
(* blocks define: the balances of the height, the proofs of its window.    *)
(* Neither crashes nor later reorganisations leave a trace.                *)
(***************************************************************************)
AllocationIsReplay ==
    \A h \in 1 .. cursor["snapshot"] : AsExpected("snapshot", h)

(***************************************************************************)
(* Every allocated reward is counted once in Redis: a party's total is the *)
(* sum of its rows up to the cursor.  "Drop staged in-memory mutations on  *)
(* flush failure to avoid duplicate accumulation after retry."             *)
(***************************************************************************)
CountedOnce ==
    \A p \in Parties : paid["snapshot"][p] =
        SumFunction([h \in 1 .. cursor["snapshot"] |-> rows["snapshot"][h][p]])

(***************************************************************************)
(* An announced reward is what will be allocated, as long as nothing is    *)
(* reorganised, and it is never lost on the way: past the snapshot cursor  *)
(* the pending rows are those the committed blocks define, unless the      *)
(* allocated rows already are, so that the deletion of the pending rows    *)
(* after the upsert may be cut off anywhere.                               *)
(***************************************************************************)
AnnouncedIsReplay ==
    ~faults.reorg =>
    \A h \in Max({Cfg.stage2Start, cursor["snapshot"] + 1}) .. cursor["pending"] :
        AsExpected("pending", h) \/ AsExpected("snapshot", h)

(***************************************************************************)
(* Both consumers catch up: once the chain stops growing, every height     *)
(* that is deep enough has been consumed, after errors and crashes too.    *)
(***************************************************************************)
ConsumersCatchUp ==
    \A c \in Consumers : <>[](indexed = MaxHeight /\ Target(c, cursor[c] + 1) = {})
=============================================================================
