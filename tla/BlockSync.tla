------------------------------ MODULE BlockSync ------------------------------
(***************************************************************************)
(* The block indexer: the loop of syncBlockIndexer (main.go), the serial   *)
(* part of block parsing, the staged submit of a batch to PostgreSQL and   *)
(* Redis, and the rollback after a reorganisation, run against a node      *)
(* whose best chain changes at any time.                                   *)
(*                                                                         *)
(* Heights count from index_start_height, which is height 1.  Every output *)
(* is worth one unit, so a balance counts outputs.  A stake address's zset *)
(* score stands for its indexer's stake totals, which receive the same     *)
(* increments.                                                             *)
(***************************************************************************)
EXTENDS Integers, FiniteSets, Sequences, FiniteSetsExt

CONSTANTS
    Block,        \* blocks of every branch the node may ever serve
    NoBlock,      \* not a block: an absent row, an absent answer
    Outpoint,     \* transaction outputs
    Addr,         \* addresses
    Parent,       \* [Block -> Block \cup {NoBlock}], NoBlock below height 1
    News,         \* [Block -> SUBSET Outpoint] outputs a block creates
    Spends,       \* [Block -> SUBSET Outpoint] outputs a block consumes
    Binds,        \* [Block -> Seq(Addr)] addresses its valid stake txs bind, in order
    Owner,        \* [Outpoint -> Addr]
    ClaimSenders, \* reward_claim_sender_address_keys
    Batch,        \* batch_block_count
    Lookback,     \* heights compared by the rollback check (100)
    Retention,    \* indexerUndoRetentionDistance (100)
    MaxHeight,    \* bound on the height of a chain
    MaxReorgs,    \* bound on the changes of best chain that are not extensions
    Faults,       \* the kinds of fault that may happen
    MaxFaults     \* bound on the number of faults

FaultKind == {"error", "crash", "stop", "rpc", "race", "deep"}

ASSUME BlockAssumption ==
    /\ NoBlock \notin Block
    /\ Parent \in [Block -> Block \cup {NoBlock}]
    /\ News \in [Block -> SUBSET Outpoint]
    /\ Spends \in [Block -> SUBSET Outpoint]
    /\ Binds \in [Block -> Seq(Addr)]
    /\ Owner \in [Outpoint -> Addr]
    /\ ClaimSenders \subseteq Addr
    /\ IsFiniteSet(Outpoint)

ASSUME BoundAssumption ==
    /\ Batch \in Nat
    /\ Lookback \in Nat \ {0}
    /\ Retention \in Nat
    /\ MaxHeight \in Nat \ {0}
    /\ MaxReorgs \in Nat
    /\ MaxFaults \in Nat
    /\ Faults \subseteq FaultKind

Height == 1 .. MaxHeight

\* A Redis height field that does not exist.
NoCursor == -1

\* Best chains: chain[h] is the block at height h.
IsChain(c) ==
    \A h \in 1 .. Len(c) : Parent[c[h]] = IF h = 1 THEN NoBlock ELSE c[h - 1]

Chains == {c \in UNION {[1 .. n -> Block] : n \in Height} : IsChain(c)}

VARIABLES
    chain,       \* the node's best chain
    reorgs,      \* reorganisations so far
    peak,        \* the greatest height the node has had
    faults,      \* faults so far
    \* PostgreSQL
    rows,        \* sync_blocks.block_hash by height, NoBlock where no row is
    committed,   \* heights whose sync_blocks.state is 'committed'
    deltas,      \* indexer_addr_deltas by height
    undoNew,     \* indexer_undo_new by height
    undoSpent,   \* indexer_undo_spent by height
    bindings,    \* stake_bindings: height of an address's row, NoCursor if none
    high,        \* highest height a submit has pruned undo rows for
    \* Redis
    utxo,        \* utxo keys
    utxoCursor,  \* TASK_UTXO
    balance,     \* realtime balance by address
    score,       \* stake zset score by stake address
    rtCursor,    \* TASK_BLOCK_HEIGHT
    \* process memory
    pc,          \* what the loop does next
    needStop,    \* model.NeedStop
    next,        \* nextHeight, then startHeight
    at,          \* height a walk, the parser or a rollback is at
    from,        \* height a rollback starts from
    seen,        \* block hashes a walk over the node has returned, by height
    tracked,     \* keys of Manager.stakeAddrToIndexer
    loaded,      \* Manager.stakeBindingsLoadedHeight
    rbBound,     \* stake addresses known to the running rollback
    cur,         \* ParseData of the block being parsed
    staged,      \* stagedIndexerBlocks, by height
    gNew,        \* model.GlobalNewUtxoDataMap
    gDel,        \* model.GlobalDeleteUtxoKeysMap
    gDelta,      \* model.GlobalAddressBalanceDeltaMap
    wait         \* Manager.WaitForUpsert.StakeBindingList

node == <<chain, reorgs, peak>>
blocksTab == <<rows, committed>>
artifacts == <<deltas, undoNew, undoSpent, high>>
pg == <<rows, committed, deltas, undoNew, undoSpent, high, bindings>>
utxoDb == <<utxo, utxoCursor>>
balanceDb == <<balance, score, rtCursor>>
binding == <<tracked, loaded>>
batchMem == <<cur, staged, gNew, gDel, gDelta, wait>>
mem == <<next, at, from, seen, tracked, loaded, rbBound,
         cur, staged, gNew, gDel, gDelta, wait>>
vars == <<chain, reorgs, peak, faults, rows, committed, deltas, undoNew, undoSpent,
          bindings, high, utxo, utxoCursor, balance, score, rtCursor, pc,
          needStop, next, at, from, seen, tracked, loaded, rbBound, cur,
          staged, gNew, gDel, gDelta, wait>>

Zero == [a \in Addr |-> 0]
NoRows == [h \in Height |-> NoBlock]
NoParse == [new |-> {}, spent |-> {}, delta |-> Zero]
NoStage == [h \in Height |-> NoParse]

\* How many of the outputs os pay to each address.
CountByOwner(os) == [a \in Addr |-> Cardinality({o \in os : Owner[o] = a})]

Plus(f, g) == [a \in Addr |-> f[a] + g[a]]
Minus(f, g) == [a \in Addr |-> f[a] - g[a]]
Masked(f, S) == [a \in Addr |-> IF a \in S THEN f[a] ELSE 0]

\* ZINCRBY on a zset followed by ZREMRANGEBYSCORE -inf 0.
ZAdd(f, g) == [a \in Addr |-> IF g[a] = 0 THEN f[a] ELSE Max({0, f[a] + g[a]})]

\* Variant: rows that are only prepared count as well.
LatestAnyState ==
    LET present == {h \in Height : rows[h] # NoBlock}
    IN  IF present = {} THEN NoCursor ELSE Max(present)

\* GetLatestCommittedSyncBlockHeight
Latest == IF committed = {} THEN NoCursor ELSE Max(committed)

\* Variant: the UTXO height is not compared.
HeightsAgreeWithoutUtxo == Latest = rtCursor

\* validateHeightStates over the three heights: all missing, or all present
\* and equal.
HeightsAgree == Latest = utxoCursor /\ Latest = rtCursor

Steps == {"top", "check", "rbRealtime", "rbUtxo", "rbStake", "rbArtifacts",
          "rbBlocks", "load", "fetch", "serial", "fast", "final", "parsed",
          "flush", "persist", "add", "del", "cursor", "realtime", "staged",
          "mark", "down"}
------------------------------------------------------------------------------
Init ==
    /\ chain \in {c \in Chains : Len(c) = 1}
    /\ reorgs = 0 /\ peak = 1 /\ faults = 0
    /\ rows = NoRows /\ committed = {}
    /\ deltas = [h \in Height |-> Zero]
    /\ undoNew = [h \in Height |-> {}] /\ undoSpent = [h \in Height |-> {}]
    /\ bindings = [a \in Addr |-> NoCursor]
    /\ high = 0
    /\ utxo = {} /\ utxoCursor = NoCursor
    /\ balance = Zero /\ score = Zero /\ rtCursor = NoCursor
    /\ pc = "down" /\ needStop = FALSE
    /\ next = 1 /\ at = 0 /\ from = 0 /\ seen = NoRows
    /\ tracked = {} /\ loaded = 0 /\ rbBound = {}
    /\ cur = NoParse /\ staged = NoStage
    /\ gNew = {} /\ gDel = {} /\ gDelta = Zero /\ wait = <<>>
------------------------------------------------------------------------------
(***************************************************************************)
(* The environment: the node's best chain, signals, the process itself.    *)
(***************************************************************************)
\* The loop compares its rows with the node's hashes, rolls back, and then
\* asks the node again for the blocks that follow.
Reconciling == pc \in {"check", "rbRealtime", "rbUtxo", "rbStake",
                      "rbArtifacts", "rbBlocks", "load", "fetch"}

NodeExtends ==
    /\ Len(chain) < MaxHeight
    /\ \E b \in Block :
         /\ Parent[b] = chain[Len(chain)]
         /\ chain' = Append(chain, b)
    /\ peak' = Max({peak, Len(chain')})
    /\ UNCHANGED <<reorgs, faults, pg, utxoDb, balanceDb, pc, needStop, mem>>

\* The node switches to a branch, or restarts on a prefix of its chain.
NodeReorganises(c) ==
    /\ reorgs < MaxReorgs
    /\ c # chain
    /\ ~(Len(c) > Len(chain) /\ SubSeq(c, 1, Len(chain)) = chain)
    /\ "deep" \in Faults \/ \A h \in Height : h <= peak - Retention =>
                                   h <= Len(c) /\ c[h] = chain[h]
    /\ "race" \in Faults \/ ~Reconciling
    /\ chain' = c /\ reorgs' = reorgs + 1 /\ peak' = Max({peak, Len(c)})
    /\ UNCHANGED <<faults, pg, utxoDb, balanceDb, pc, needStop, mem>>

Budget(kind) == kind \in Faults /\ faults < MaxFaults /\ faults' = faults + 1

\* SIGHUP, SIGINT, SIGTERM or SIGQUIT: triggerStop
Signal ==
    /\ pc # "down" /\ ~needStop
    /\ Budget("stop")
    /\ needStop' = TRUE
    /\ UNCHANGED <<node, pg, utxoDb, balanceDb, pc, mem>>

\* The supervisor starts the process again: memory starts empty.
Boot ==
    /\ pc = "down" /\ pc' = "top" /\ needStop' = FALSE
    /\ next' = 1 /\ at' = 0 /\ from' = 0 /\ seen' = NoRows
    /\ tracked' = {} /\ loaded' = 0 /\ rbBound' = {}
    /\ cur' = NoParse /\ staged' = NoStage
    /\ gNew' = {} /\ gDel' = {} /\ gDelta' = Zero /\ wait' = <<>>
    /\ UNCHANGED <<node, faults, pg, utxoDb, balanceDb>>

\* A storage step is cut short: it returns an error, and the loop sleeps and
\* starts over with its memory as it is, or the process dies.
CutShort ==
    \/ Budget("error") /\ pc' = "top"
    \/ Budget("crash") /\ pc' = "down"

\* An RPC fails.
RpcFails == Budget("rpc") /\ pc' = "top"

\* A storage step fails before it has any effect.
StorageFails ==
    /\ pc \in {"check", "rbRealtime", "rbUtxo", "rbStake", "rbArtifacts",
               "rbBlocks", "flush", "cursor", "realtime", "staged", "mark"}
    /\ CutShort
    /\ UNCHANGED <<node, pg, utxoDb, balanceDb, needStop, mem>>

\* The process dies, or panics on a Redis error in the parser.
Crash ==
    /\ pc # "down" /\ Budget("crash") /\ pc' = "down"
    /\ UNCHANGED <<node, pg, utxoDb, balanceDb, needStop, mem>>
------------------------------------------------------------------------------
(***************************************************************************)
(* The head of the loop: consistency check and rollback check.             *)
(***************************************************************************)
\* EnsureIndexerDataConsistency succeeds.
Ensure ==
    /\ pc = "top" /\ ~needStop /\ HeightsAgree
    /\ next' = IF Latest = NoCursor THEN 1 ELSE Latest + 1
    /\ at' = Latest /\ seen' = NoRows
    /\ pc' = "check"
    /\ UNCHANGED <<node, faults, pg, utxoDb, balanceDb, needStop, from,
                   binding, rbBound, batchMem>>

\* It fails: the loop sleeps and tries again.
EnsureFails ==
    /\ pc = "top" /\ ~needStop /\ ~HeightsAgree
    /\ UNCHANGED vars

Exit ==
    /\ pc = "top" /\ needStop
    /\ pc' = "down"
    /\ UNCHANGED <<node, faults, pg, utxoDb, balanceDb, needStop, mem>>

\* One getblockhash of GetBlockIndexRangeRPC, which asks from the top of a
\* range down to lo and skips heights above the tip only before the first
\* answer.
Walk(lo) ==
    /\ at >= lo
    /\ \/ /\ at <= Len(chain)
          /\ seen' = [seen EXCEPT ![at] = chain[at]]
          /\ at' = at - 1
          /\ UNCHANGED <<pc, faults>>
       \/ /\ at > Len(chain) /\ seen = NoRows
          /\ at' = at - 1
          /\ UNCHANGED <<pc, faults, seen>>
       \/ /\ at > Len(chain) /\ seen # NoRows
          /\ pc' = "top"
          /\ UNCHANGED <<at, faults, seen>>
       \/ RpcFails /\ UNCHANGED <<at, seen>>
    /\ UNCHANGED <<node, pg, utxoDb, balanceDb, needStop, next, from, binding,
                   rbBound, batchMem>>

\* RollbackCheckWithFloor
CheckStart == Max({1, Latest + 1 - Lookback})

CheckWalk == pc = "check" /\ Latest # NoCursor /\ Walk(CheckStart)

\* Variant: a height the node does not have is not a mismatch.
MismatchKnownOnly ==
    {h \in CheckStart .. Latest :
        h \notin committed \/ (seen[h] # NoBlock /\ seen[h] # rows[h])}

Mismatch ==
    {h \in CheckStart .. Latest :
        h \notin committed \/ seen[h] = NoBlock \/ seen[h] # rows[h]}

CheckPasses ==
    /\ pc = "check"
    /\ Latest = NoCursor \/ (at < CheckStart /\ Mismatch = {})
    /\ pc' = "load"
    /\ UNCHANGED <<node, faults, pg, utxoDb, balanceDb, needStop, mem>>

\* The head of RollbackIndexerFromHeight.  The bindings are read here; when
\* that query fails the rollback goes on without them.
CheckRollsBack ==
    /\ pc = "check" /\ Latest # NoCursor /\ at < CheckStart /\ Mismatch # {}
    /\ IF utxoCursor - Min(Mismatch) > Retention
       THEN pc' = "top" /\ UNCHANGED <<faults, at, from, rbBound>>
       ELSE /\ from' = Min(Mismatch) /\ at' = rtCursor /\ pc' = "rbRealtime"
            /\ \/ /\ rbBound' = {a \in Addr : bindings[a] \in 1 .. rtCursor}
                  /\ UNCHANGED faults
               \/ rbBound' = {} /\ Budget("error")
    /\ UNCHANGED <<node, pg, utxoDb, balanceDb, needStop, next, seen, binding,
                   batchMem>>
------------------------------------------------------------------------------
(***************************************************************************)
(* RollbackIndexerFromHeight, one external write at a time.                *)
(***************************************************************************)
\* Variant: the stake zset is left alone.
UnapplyBalanceOnly(S) ==
    /\ balance' = Minus(balance, Masked(deltas[at], S))
    /\ UNCHANGED score

\* Reverses the deltas of height at for the addresses S.
Unapply(S) ==
    LET undo == Minus(Zero, Masked(deltas[at], S))
    IN  /\ balance' = Plus(balance, undo)
        /\ score' = ZAdd(score, Masked(undo, rbBound))

RollbackTo == from - 1

\* rollbackRealtimeBalanceFromHeight: one pipeline per height, downwards.
RbRealtime ==
    /\ pc = "rbRealtime" /\ at >= from
    /\ \/ Unapply(Addr) /\ at' = at - 1 /\ UNCHANGED <<pc, faults>>
       \/ \E S \in SUBSET Addr : Unapply(S) /\ CutShort /\ UNCHANGED at
    /\ UNCHANGED <<node, pg, utxoDb, rtCursor, needStop, next, from, seen,
                   binding, rbBound, batchMem>>

\* Its last pipeline, the realtime height.
RbRealtimeCursor ==
    /\ pc = "rbRealtime" /\ at < from
    /\ rtCursor' = RollbackTo
    /\ pc' = "rbUtxo" /\ at' = utxoCursor
    /\ UNCHANGED <<node, faults, pg, utxoDb, balance, score, needStop, next,
                   from, seen, binding, rbBound, batchMem>>

\* rollbackUtxoOneBlock: DEL the new outputs, SET the spent ones.
RbUtxo ==
    /\ pc = "rbUtxo" /\ at >= from
    /\ \/ /\ utxo' = (utxo \ undoNew[at]) \cup undoSpent[at]
          /\ at' = at - 1
          /\ UNCHANGED <<pc, faults>>
       \/ \E N \in SUBSET undoNew[at], P \in SUBSET undoSpent[at] :
            /\ P # {} => N = undoNew[at]
            /\ utxo' = (utxo \ N) \cup P
            /\ CutShort /\ UNCHANGED at
    /\ UNCHANGED <<node, pg, utxoCursor, balanceDb, needStop, next, from, seen,
                   binding, rbBound, batchMem>>

RbUtxoCursor ==
    /\ pc = "rbUtxo" /\ at < from
    /\ utxoCursor' = RollbackTo
    /\ pc' = "rbStake"
    /\ UNCHANGED <<node, faults, pg, utxo, balanceDb, needStop, mem>>

\* The WHERE clause of the deletes.
RolledBack(h) == h >= from

\* DeleteFIP101InscriptionEventsFromHeight, RollbackStakeIndexerFromHeight
RbStake ==
    /\ pc = "rbStake"
    /\ bindings' = [a \in Addr |-> IF RolledBack(bindings[a]) THEN NoCursor
                                                               ELSE bindings[a]]
    /\ pc' = "rbArtifacts"
    /\ UNCHANGED <<node, faults, blocksTab, artifacts, utxoDb, balanceDb,
                   needStop, mem>>

\* DeleteIndexerArtifactsFromHeight, one transaction
RbArtifacts ==
    /\ pc = "rbArtifacts"
    /\ deltas' = [h \in Height |-> IF RolledBack(h) THEN Zero ELSE deltas[h]]
    /\ undoNew' = [h \in Height |-> IF RolledBack(h) THEN {} ELSE undoNew[h]]
    /\ undoSpent' = [h \in Height |-> IF RolledBack(h) THEN {} ELSE undoSpent[h]]
    /\ pc' = "rbBlocks"
    /\ UNCHANGED <<node, faults, blocksTab, bindings, high, utxoDb, balanceDb,
                   needStop, mem>>

\* DeleteSyncBlocksFromHeight, then InitIndexerStatusCache, whose failure
\* only restarts the loop.
RbBlocks ==
    /\ pc = "rbBlocks"
    /\ rows' = [h \in Height |-> IF RolledBack(h) THEN NoBlock ELSE rows[h]]
    /\ committed' = {h \in committed : ~RolledBack(h)}
    /\ \/ pc' = "load" /\ next' = from /\ UNCHANGED faults
       \/ CutShort /\ UNCHANGED next
    /\ UNCHANGED <<node, artifacts, bindings, utxoDb, balanceDb, needStop, at,
                   from, seen, binding, rbBound, batchMem>>
------------------------------------------------------------------------------
(***************************************************************************)
(* LoadStakeBindingsToHeight(next - 1, false) and the choice of a batch.   *)
(***************************************************************************)
\* What is kept in memory before the new range is read: everything, or
\* nothing after a step back.
KeptTo(h) == IF h < loaded THEN 0 ELSE loaded
Kept(h) == IF h < loaded THEN {} ELSE tracked

LoadedTo(h) ==
    Kept(h) \cup {a \in Addr : bindings[a] > KeptTo(h) /\ bindings[a] <= h}

LoadBindings ==
    /\ pc = "load"
    /\ \/ /\ tracked' = LoadedTo(next - 1) /\ loaded' = next - 1
          /\ at' = Min({next + Batch, MaxHeight}) /\ seen' = NoRows
          /\ pc' = "fetch"
          /\ UNCHANGED faults
       \/ /\ tracked' = Kept(next - 1) /\ loaded' = KeptTo(next - 1)
          /\ CutShort
          /\ UNCHANGED <<at, seen>>
    /\ UNCHANGED <<node, pg, utxoDb, balanceDb, needStop, next, from, rbBound,
                   batchMem>>

\* InitLatestBlockFromRPC: heights next .. next + Batch
FetchWalk == pc = "fetch" /\ Walk(next)

FetchIdle ==
    /\ pc = "fetch" /\ at < next /\ seen = NoRows
    /\ pc' = "top"
    /\ UNCHANGED <<node, faults, pg, utxoDb, balanceDb, needStop, mem>>

FetchDone ==
    /\ pc = "fetch" /\ at < next /\ seen # NoRows
    /\ pc' = "serial" /\ at' = next /\ staged' = NoStage
    /\ UNCHANGED <<node, faults, pg, utxoDb, balanceDb, needStop, next, from,
                   seen, binding, rbBound, cur, gNew, gDel, gDelta, wait>>
------------------------------------------------------------------------------
(***************************************************************************)
(* Parsing, in height order.  next .. at - 1 are staged.                   *)
(***************************************************************************)
\* Variant: reward claim senders are not tracked.
ShouldTrackStakeOnly(o) == Owner[o] \in tracked

ShouldTrack(o) == Owner[o] \in tracked \cup ClaimSenders
TrackedOf(os) == {o \in os : ShouldTrack(o)}

Parsing == at \in Height /\ seen[at] # NoBlock

\* The window is exhausted, getblock fails, or the producer sees NeedStop.
ParseEnds ==
    /\ pc = "serial" /\ pc' = "parsed"
    /\ \/ ~Parsing /\ UNCHANGED faults
       \/ Parsing /\ Budget("rpc")
       \/ Parsing /\ needStop /\ UNCHANGED faults
    /\ UNCHANGED <<node, pg, utxoDb, balanceDb, needStop, mem>>

\* parseGetSpentStakeUtxoData: an input is looked up in the block itself, in
\* the batch, then in Redis.
SerialStart ==
    /\ pc = "serial" /\ Parsing
    /\ LET new == News[seen[at]]
           keys == Spends[seen[at]]
           inBlock == TrackedOf(keys \cap new)
           batched == (keys \ new) \cap gNew
           stored == TrackedOf(((keys \ new) \ gNew) \cap utxo)
           debit == CountByOwner(TrackedOf(batched) \cup stored)
       IN  /\ cur' = [new |-> new \ keys,
                      spent |-> inBlock \cup TrackedOf(batched) \cup stored,
                      delta |-> Minus(Zero, debit)]
           /\ gNew' = gNew \ batched
           /\ gDel' = gDel \cup stored
           /\ gDelta' = Minus(gDelta, debit)
    /\ pc' = "fast"
    /\ UNCHANGED <<node, faults, pg, utxoDb, balanceDb, needStop, next, at,
                   from, seen, binding, rbBound, staged, wait>>

Bound(n) == [i \in 1 .. n |-> [addr |-> Binds[seen[at]][i], height |-> at]]

BindFirst(n) ==
    /\ wait' = wait \o Bound(n)
    /\ tracked' = tracked \cup {Binds[seen[at]][i] : i \in 1 .. n}

\* HandleFastBlock: the block's stake transactions queue binding rows and
\* extend the in-memory bindings.  An error stops the program.
FastBlock ==
    /\ pc = "fast"
    /\ \/ /\ ~needStop /\ BindFirst(Len(Binds[seen[at]])) /\ pc' = "final"
          /\ UNCHANGED <<faults, needStop>>
       \/ /\ ~needStop
          /\ \E n \in 0 .. Len(Binds[seen[at]]) : BindFirst(n)
          /\ Budget("stop") /\ needStop' = TRUE /\ pc' = "parsed"
       \/ /\ needStop /\ pc' = "parsed"
          /\ UNCHANGED <<faults, needStop, wait, tracked>>
    /\ UNCHANGED <<node, pg, utxoDb, balanceDb, next, at, from, seen, loaded,
                   rbBound, cur, staged, gNew, gDel, gDelta>>

\* ParseBlockSerialFinalize: updateStakeUtxoInMap, PersistIndexerBlockArtifacts
Finalize ==
    /\ pc = "final"
    /\ \/ /\ needStop /\ pc' = "parsed"
          /\ UNCHANGED <<at, staged, gNew, gDelta>>
       \/ /\ ~needStop /\ pc' = "serial" /\ at' = at + 1
          /\ LET new == TrackedOf(cur.new)
                 credit == CountByOwner(new)
             IN  /\ staged' = [staged EXCEPT ![at] =
                        [new |-> new, spent |-> TrackedOf(cur.spent),
                         delta |-> Plus(cur.delta, credit)]]
                 /\ gNew' = gNew \cup new
                 /\ gDelta' = Plus(gDelta, credit)
    /\ UNCHANGED <<node, faults, pg, utxoDb, balanceDb, needStop, next, from,
                   seen, binding, rbBound, cur, gDel, wait>>

\* Nothing was staged, or the batch goes to SubmitBlocks.
Parsed ==
    /\ pc = "parsed"
    /\ pc' = IF at > next THEN "flush" ELSE IF needStop THEN "down" ELSE "top"
    /\ UNCHANGED <<node, faults, pg, utxoDb, balanceDb, needStop, mem>>
------------------------------------------------------------------------------
(***************************************************************************)
(* runSubmitBlocksFlow for heights next .. Stage.                          *)
(***************************************************************************)
\* Variant: the height after the last staged one.
StageBeyond == at

Stage == at - 1

\* Variant: the last height of the batch is left out.
InBatchButLast(h) == next <= h /\ h < Stage

InBatch(h) == next <= h /\ h <= Stage

\* Variant: only the last block of a batch keeps its undo rows.
KeepUndoOfLast(h) == h >= Stage

\* ShouldPersistIndexerUndo, MinIndexerUndoKeepHeight
KeepUndo(h) == Stage - h <= Retention

\* FlushIndexerBlockArtifacts, one transaction
Flush ==
    /\ pc = "flush" /\ pc' = "persist"
    /\ rows' = [h \in Height |-> IF InBatch(h) THEN seen[h] ELSE rows[h]]
    /\ committed' = {h \in committed : ~InBatch(h)}
    /\ deltas' = [h \in Height |-> IF InBatch(h) THEN staged[h].delta ELSE deltas[h]]
    /\ undoNew' = [h \in Height |-> IF ~KeepUndo(h) THEN {} ELSE
                     IF InBatch(h) THEN staged[h].new ELSE undoNew[h]]
    /\ undoSpent' = [h \in Height |-> IF ~KeepUndo(h) THEN {} ELSE
                     IF InBatch(h) THEN staged[h].spent ELSE undoSpent[h]]
    /\ high' = Max({high, Stage})
    /\ UNCHANGED <<node, faults, bindings, utxoDb, balanceDb, needStop, mem>>

\* INSERT ... ON CONFLICT (stake_address) DO NOTHING for the first n rows.
Inserted(n) ==
    [a \in Addr |->
        LET mine == {i \in 1 .. n : wait[i].addr = a}
        IN  IF bindings[a] # NoCursor \/ mine = {} THEN bindings[a]
            ELSE wait[Min(mine)].height]

\* persistPreparedStakeWrites: row by row, then the queue is emptied and the
\* bindings are loaded up to Stage.
Persist ==
    /\ pc = "persist"
    /\ \/ /\ bindings' = Inserted(Len(wait)) /\ wait' = <<>>
          /\ tracked' = Kept(Stage) \cup
               {a \in Addr : bindings'[a] > KeptTo(Stage) /\ bindings'[a] <= Stage}
          /\ loaded' = Stage
          /\ pc' = "add"
          /\ UNCHANGED faults
       \/ /\ \E n \in 0 .. Len(wait) : bindings' = Inserted(n)
          /\ CutShort
          /\ UNCHANGED <<wait, tracked, loaded>>
       \/ /\ bindings' = Inserted(Len(wait)) /\ wait' = <<>>
          /\ tracked' = Kept(Stage) /\ loaded' = KeptTo(Stage)
          /\ CutShort
    /\ UNCHANGED <<node, blocksTab, artifacts, utxoDb, balanceDb, needStop,
                   next, at, from, seen, rbBound, cur, staged, gNew, gDel,
                   gDelta>>

\* updateUtxoInPikaAdd: SETNX by eight workers; an error also sets NeedStop.
UtxoAdd ==
    /\ pc = "add"
    /\ \/ utxo' = utxo \cup gNew /\ pc' = "del" /\ UNCHANGED <<faults, needStop>>
       \/ \E S \in SUBSET gNew :
            /\ utxo' = utxo \cup S
            /\ CutShort
            /\ needStop' = (needStop \/ pc' = "top")
    /\ UNCHANGED <<node, pg, utxoCursor, balanceDb, mem>>

\* updateUtxoInPikaDel
UtxoDel ==
    /\ pc = "del"
    /\ \/ utxo' = utxo \ gDel /\ pc' = "cursor" /\ UNCHANGED faults
       \/ \E S \in SUBSET gDel : utxo' = utxo \ S /\ CutShort
    /\ UNCHANGED <<node, pg, utxoCursor, balanceDb, needStop, mem>>

\* The TASK_UTXO pipeline.
UtxoCursor ==
    /\ pc = "cursor"
    /\ utxoCursor' = Stage
    /\ pc' = "realtime"
    /\ UNCHANGED <<node, faults, pg, utxo, balanceDb, needStop, mem>>

\* Adds the batch's deltas for the addresses S.
Apply(S) ==
    /\ balance' = Plus(balance, Masked(gDelta, S))
    /\ score' = ZAdd(score, Masked(gDelta, S \cap tracked))

\* applyRealtimeBalances: one pipeline whose last command sets the height,
\* then the removal of zero keys, whose failure fails the submit.
Realtime ==
    /\ pc = "realtime"
    /\ \/ Apply(Addr) /\ rtCursor' = Stage /\ pc' = "staged" /\ UNCHANGED faults
       \/ Apply(Addr) /\ rtCursor' = Stage /\ CutShort
       \/ \E S \in SUBSET Addr : Apply(S) /\ CutShort /\ UNCHANGED rtCursor
    /\ UNCHANGED <<node, pg, utxoDb, needStop, mem>>

\* flushBalanceChanges(nil): staged commission and status fields
FlushStaged ==
    /\ pc = "staged" /\ pc' = "mark"
    /\ UNCHANGED <<node, faults, pg, utxoDb, balanceDb, needStop, mem>>

\* MarkIndexerBlocksCommitted, then CleanUtxoMap
Mark ==
    /\ pc = "mark"
    /\ committed' = committed \cup {h \in Height : InBatch(h) /\ rows[h] # NoBlock}
    /\ \/ /\ gNew' = {} /\ gDel' = {} /\ gDelta' = Zero
          /\ pc' = IF needStop THEN "down" ELSE "top"
          /\ UNCHANGED faults
       \/ CutShort /\ UNCHANGED <<gNew, gDel, gDelta>>
    /\ UNCHANGED <<node, rows, artifacts, bindings, utxoDb, balanceDb,
                   needStop, next, at, from, seen, binding, rbBound, cur,
                   staged, wait>>
------------------------------------------------------------------------------
Rollback == RbRealtime \/ RbRealtimeCursor \/ RbUtxo \/ RbUtxoCursor
            \/ RbStake \/ RbArtifacts \/ RbBlocks

Submit == Flush \/ Persist \/ UtxoAdd \/ UtxoDel \/ UtxoCursor \/ Realtime
          \/ FlushStaged \/ Mark

Parse == ParseEnds \/ SerialStart \/ FastBlock \/ Finalize \/ Parsed

Loop == Ensure \/ EnsureFails \/ Exit \/ CheckWalk \/ CheckPasses
        \/ CheckRollsBack \/ Rollback \/ LoadBindings \/ FetchWalk
        \/ FetchIdle \/ FetchDone \/ Parse \/ Submit

Environment == NodeExtends \/ (\E c \in Chains : NodeReorganises(c))
               \/ Signal \/ Boot \/ StorageFails \/ Crash

Next == Loop \/ Environment

Spec == Init /\ [][Next]_vars

\* The scheduler keeps running the loop, and the supervisor restarts it.
FairSpec == Spec /\ WF_vars(Loop) /\ WF_vars(Boot)
------------------------------------------------------------------------------
(***************************************************************************)
(* What the stores must hold, computed from the committed blocks alone.    *)
(***************************************************************************)
\* Addresses bound by the blocks at heights 1 .. h of sync_blocks.
BoundBy(h) ==
    UNION {{Binds[rows[g]][i] : i \in DOMAIN Binds[rows[g]]} : g \in 1 .. h}

\* The unspent outputs after height h that were paid to an address bound no
\* later than the block that created them, or to a claim sender.
LedgerUtxo[h \in 0 .. MaxHeight] ==
    IF h = 0 THEN {}
    ELSE (LedgerUtxo[h - 1]
          \cup {o \in News[rows[h]] : Owner[o] \in BoundBy(h) \cup ClaimSenders})
         \ Spends[rows[h]]

\* The address deltas of the heights 1 .. h added up.
SumTo[h \in 0 .. MaxHeight] ==
    IF h = 0 THEN Zero ELSE Plus(SumTo[h - 1], deltas[h])

\* Outputs created and spent inside one block.
Transient == UNION {News[b] \cap Spends[b] : b \in Block}

\* The committed rows of sync_blocks.
Indexed == [h \in committed |-> rows[h]]

\* The head of the loop, with a consistency check about to succeed
\* and linked blocks in sync_blocks.
Settled == pc = "top" /\ HeightsAgree /\ Latest # NoCursor /\ IsChain(Indexed)

Delta == [Addr -> Int]
ParseData == [new : SUBSET Outpoint, spent : SUBSET Outpoint, delta : Delta]

NodeType ==
    /\ chain \in Seq(Block) /\ reorgs \in Nat /\ peak \in Nat

TablesType ==
    /\ rows \in [Height -> Block \cup {NoBlock}] /\ committed \subseteq Height
    /\ deltas \in [Height -> Delta]
    /\ undoNew \in [Height -> SUBSET Outpoint]
    /\ undoSpent \in [Height -> SUBSET Outpoint]
    /\ bindings \in [Addr -> Height \cup {NoCursor}]
    /\ high \in 0 .. MaxHeight

RedisType ==
    /\ utxo \subseteq Outpoint /\ utxoCursor \in NoCursor .. MaxHeight
    /\ balance \in Delta /\ score \in Delta /\ rtCursor \in NoCursor .. MaxHeight

LoopType ==
    /\ faults \in Nat /\ pc \in Steps /\ needStop \in BOOLEAN
    /\ next \in 1 .. MaxHeight + 1 /\ at \in NoCursor .. MaxHeight + 1
    /\ from \in 0 .. MaxHeight
    /\ seen \in [Height -> Block \cup {NoBlock}]
    /\ tracked \subseteq Addr /\ loaded \in 0 .. MaxHeight
    /\ rbBound \subseteq Addr

BatchType ==
    /\ cur \in ParseData /\ staged \in [Height -> ParseData]
    /\ gNew \subseteq Outpoint /\ gDel \subseteq Outpoint /\ gDelta \in Delta
    /\ wait \in Seq([addr : Addr, height : Height])

\* The types of the node, of PostgreSQL, of Redis, of the loop's variables and
\* of the batch being parsed or submitted: every height a handler computes
\* stays in range, however it was interrupted.
TypeOK == NodeType /\ TablesType /\ RedisType /\ LoopType /\ BatchType

\* The committed rows of sync_blocks are the heights 1 .. n for some n, each
\* with a block hash: MarkIndexerBlocksCommitted never leaves a gap, however
\* a submit or a rollback was interrupted.
CommittedPrefix ==
    /\ \A h \in committed : \A g \in 1 .. h : g \in committed
    /\ \A h \in committed : rows[h] # NoBlock

\* Write-ahead: no Redis height passes a block whose row in sync_blocks (its
\* hash) is not yet, or no longer, in PostgreSQL.  FlushIndexerBlockArtifacts
\* writes that row, and a rollback moves both heights down before it deletes it,
\* at every point a failure or a crash can cut.
WriteAhead ==
    \A h \in Height : h <= utxoCursor \/ h <= rtCursor => rows[h] # NoBlock

\* FlushIndexerBlockArtifacts and the deletes of a rollback never touch the
\* hash or the address deltas of a height one of the Redis stores already
\* reflects: a retry flushes only above both cursors.
AppliedArtifactsStable ==
    [][\A h \in Height : h <= utxoCursor \/ h <= rtCursor =>
          rows'[h] = rows[h] /\ deltas'[h] = deltas[h]]_vars

\* Where the program counter is: from the consistency check until the first
\* Redis height moves, while it moves, in a parse, in a submit, in a rollback.
BeforeCursors == {"check", "load", "fetch", "serial", "fast", "final", "parsed",
                  "flush", "persist", "add", "del", "cursor"}
AfterCursors == {"realtime", "staged", "mark"}
InParse == {"serial", "fast", "final", "parsed"}
Submitting == {"flush", "persist", "add", "del", "cursor"} \cup AfterCursors
RollingBack == {"rbRealtime", "rbUtxo", "rbStake", "rbArtifacts", "rbBlocks"}

\* What the stores hold at every step.
StoreInv ==
    /\ \E n \in 0 .. MaxHeight : committed = 1 .. n
    /\ \A h \in committed : rows[h] # NoBlock
    /\ WriteAhead

CommittedBelow == committed = 1 .. next - 1
CursorsBelow == utxoCursor < next /\ rtCursor < next
Fetched == next <= at /\ \A h \in Height : InBatch(h) => seen[h] # NoBlock
Flushed == \A h \in Height : InBatch(h) => rows[h] # NoBlock

\* How the heights in memory relate to the stores, step by step.
PhaseInv ==
    /\ pc \in {"check", "fetch", "rbRealtime", "rbUtxo"} => at <= MaxHeight
    /\ pc \in BeforeCursors \cup AfterCursors => CommittedBelow
    /\ pc \in BeforeCursors => CursorsBelow
    /\ pc \in InParse \cup Submitting => Fetched
    /\ pc \in {"fast", "final"} => Parsing
    /\ pc \in Submitting => next < at
    /\ pc \in Submitting \ {"flush"} => Flushed
    /\ pc \in RollingBack => from \in committed
    /\ pc \in RollingBack \ {"rbRealtime"} => rtCursor < from
    /\ pc \in {"rbStake", "rbArtifacts", "rbBlocks"} => utxoCursor < from

\* The inductive invariant behind CommittedPrefix and WriteAhead, over every
\* step of syncBlockIndexer: a batch starts right above the committed rows and
\* above both Redis heights, and a rollback moves the Redis heights below the
\* height it starts from before it deletes any row.
HeightsInv == StoreInv /\ PhaseInv

\* The committed rows implement the log their readers rely on.
Log == INSTANCE IndexLog WITH log <- Indexed
ImplementsLog == Log!Spec

\* rollbackUtxoOneBlock is only run on heights whose undo rows
\* DeleteIndexerUndoBeforeHeightTx has not pruned.
UndoWithinRetention ==
    pc = "rbUtxo" /\ at >= from => at >= high - Retention

\* When EnsureIndexerDataConsistency accepts the three heights, the realtime
\* balances, the stake scores and the stake bindings are those of the
\* committed chain.
BalancesMatchLedger ==
    Settled =>
        /\ balance = CountByOwner(LedgerUtxo[Latest])
        /\ \A a \in Addr : bindings[a] # NoCursor => score[a] = balance[a]
        /\ {a \in Addr : bindings[a] \in 1 .. Latest} = BoundBy(Latest)

\* The per-height address deltas, which the reward consumers replay, add up
\* to the balances of the committed chain at every committed height.
DeltasMatchLedger ==
    Settled => \A h \in committed : SumTo[h] = CountByOwner(LedgerUtxo[h])

\* The realtime balances in Redis are the sum of the address deltas in
\* PostgreSQL, at the head of the loop and while a rollback unwinds them.
BalanceIsSumOfDeltas ==
    /\ Settled => balance = SumTo[Latest]
    /\ pc = "rbRealtime" /\ at >= 0 => balance = SumTo[at]

\* A parse window holds at most batch_block_count blocks.
BatchWithinLimit == pc = "flush" => at - next <= Batch

\* The UTXO store holds the unspent outputs of the committed chain; rolling a
\* block back may leave outputs that the block both created and spent, and
\* nothing else.
UtxoMatchesLedger ==
    Settled => /\ LedgerUtxo[Latest] \subseteq utxo
               /\ utxo \subseteq LedgerUtxo[Latest] \cup Transient

\* A rollback that ran to its end leaves heights that the consistency check
\* accepts.
RollbackLeavesHeightsAgreeing == pc = "load" => HeightsAgree

\* The index follows the node: once the node's best chain stays put, the
\* committed blocks become that chain and stay so.
FollowsNode == <>[](Indexed = chain)
==============================================================================
