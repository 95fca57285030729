--------------------------- MODULE ProtocolHandlers ---------------------------
(***************************************************************************)
(* The fast path's protocol handlers: how the FIP-101 transactions of a    *)
(* block are judged (ResolveBusinessInvalidFlags), what an accepted one    *)
(* stages in WaitForUpsert and in slowState (HandleBlockByDeps), and how   *)
(* the staged rows reach PostgreSQL and Redis (persistPreparedStakeWrites, *)
(* flushBalanceChanges).  A verdict depends on what is staged and on what  *)
(* is stored, so a batch that is interrupted and parsed again is judged    *)
(* against its own leftovers.                                              *)
(* BlockSync has the steps from the UTXO cursor to the commit mark and the *)
(* bindings kept in memory; they are one step, and left out, here.         *)
(***************************************************************************)
EXTENDS Naturals, Sequences, FiniteSets, FiniteSetsExt, Functions, TLC

CONSTANTS Txs,         \* transaction id -> what the parser made of it
          Families,    \* sets of chains between which the node may change;
                       \* a block is a sequence of ids
          Activation,  \* CommissionActivationBlocks
          Batch,       \* BatchBlockCount
          Legacy,      \* legacyIndexerClaimRewardFixes, <<>> when not enabled
          Senders,     \* RewardClaimSenderAddressKeys
          Faults,      \* of "crash", "error", "kill", "lookup", "reorg", "stop"
          MaxFaults

ASSUME HandlersAssumption ==
    Activation \in Nat /\ Batch \in Nat \ {0} /\ MaxFaults \in Nat

Tags == {"register", "proof", "claim", "stake", "commission"}
TxIDs == DOMAIN Txs

\* A block holds transactions that the parser knows by their tag.
ASSUME ChainAssumption ==
    /\ \A id \in TxIDs : Txs[id].tag \in Tags
    /\ \A F \in Families : F \subseteq Seq(Seq(TxIDs))

VARIABLES chain,   \* the node's blocks
          blocks,  \* the committed blocks
          pc,      \* where runSubmitBlocksFlow is
          batch,   \* the blocks being parsed and submitted
          parsed,  \* how many of them HandleFastBlock has seen
          stopping,  \* NeedStop: the process ends once the batch is submitted
          m,       \* WaitForUpsert, registerOwnerSeen and slowState's hashes
          db,      \* PostgreSQL
          rdb,     \* Redis: delayed commissions and index_ratio by indexer
          total,   \* Redis: total_indexers of the status hash
          faults   \* the faults so far

vars == <<chain, blocks, pc, batch, parsed, stopping, m, db, rdb, total, faults>>

NoID == <<0, 0>>               \* an absent or malformed indexer id
MaxCommission == 1500          \* maxCommissionRatio, in basis points
Tables == {"registers", "proofs", "claims", "bindings", "events"}
Steps == <<"registers", "proofs", "claims", "bindings", "events">>
NoRedis == [delayed |-> <<>>, ratio |-> <<>>]
NoTables == [t \in Tables |-> {}]
WaitForUpsert == [t \in Tables |-> <<>>]
NewManager == [wait |-> WaitForUpsert, seen |-> {}, slow |-> NoRedis]
Chains == UNION Families
Budget(kind) == kind \in Faults /\ Len(faults) < MaxFaults /\ faults' = Append(faults, kind)
------------------------------------------------------------------------------
\* The newest staged register of an indexer, else the stored one.
RegisterOf(mem, rows, id) ==
    LET list == mem.wait["registers"]
        staged == {k \in DOMAIN list : list[k].id = id}
    IN  IF staged # {} THEN {list[Max(staged)]} ELSE {r \in rows["registers"] : r.id = id}

KnownID(mem, rows, id) == id # NoID
isIndexerRegistered(mem, rows, id) == RegisterOf(mem, rows, id) # {}

\* getIndexerUserAddress and getIndexerUserAddressForAuth: a staged register
\* has its event staged beside it, with the same user address.
UserAddressOf(mem, rows, id) == {r.user : r \in RegisterOf(mem, rows, id)}

isValidCommissionRatio(ratio) == ratio \in 0 .. MaxCommission

hasStagedRegisterOwner(mem, user) == \E r \in Range(mem.wait["registers"]) : r.user = user
ExistsStakeIndexerRegisterByUserAddress(rows, user) ==
    \E r \in rows["registers"] : r.user = user

loadDelayedCommissionRatio(mem, redis, id) ==
    IF id \in DOMAIN mem.slow.delayed THEN {mem.slow.delayed[id]}
    ELSE {redis.delayed[id] : i \in {id} \cap DOMAIN redis.delayed}

hasUneffectiveDelayedCommissionRatio(mem, redis, id, h) ==
    \E d \in loadDelayedCommissionRatio(mem, redis, id) : d.effective > h
------------------------------------------------------------------------------
\* buildStakeProofAtHeight and validateStakeTxWithPayload return something;
\* `ok` says that the key, the address type and the first output fit together.
provesStake(mem, rows, tx) == isIndexerRegistered(mem, rows, tx.indexer) /\ tx.prove # 0
validateStakeTx(mem, rows, tx) == isIndexerRegistered(mem, rows, tx.indexer) /\ tx.ok

\* The addresses of the inputs were filled in from the outputs the block spends.
hasRewardClaimSenderInput(tx) == tx.inputs \cap Senders # {}

ResolveLegacyIndexerClaimReward(id) == IF id \in DOMAIN Legacy THEN Legacy[id] ELSE NoID
------------------------------------------------------------------------------
\* ResolveBusinessInvalidFlags: the verdict on one transaction.
RegisterFlagsStoredOnly(mem, rows, tx) ==
    IF \/ ~ isValidCommissionRatio(tx.ratio)
       \/ ExistsStakeIndexerRegisterByUserAddress(rows, tx.user)
    THEN "RegisterRule" ELSE "None"

resolveRegisterInvalidFlags(mem, rows, tx) ==
    IF \/ ~ isValidCommissionRatio(tx.ratio)
       \/ tx.user \in mem.seen
       \/ hasStagedRegisterOwner(mem, tx.user)
       \/ ExistsStakeIndexerRegisterByUserAddress(rows, tx.user)
    THEN "RegisterRule" ELSE "None"

ResolveUpdateRatioInvalidFlags(mem, rows, redis, tx, h) ==
    CASE UserAddressOf(mem, rows, tx.indexer) = {} -> "IndexerNotFound"
      [] tx.user \notin UserAddressOf(mem, rows, tx.indexer) -> "ActorNotOwner"
      [] ~ isValidCommissionRatio(tx.ratio) -> "CommissionRule"
      [] hasUneffectiveDelayedCommissionRatio(mem, redis, tx.indexer, h) -> "CommissionRule"
      [] OTHER -> "None"

ResolveBusinessInvalidFlags(mem, rows, redis, tx, h) ==
    CASE tx.tag = "register" -> resolveRegisterInvalidFlags(mem, rows, tx)
      [] tx.tag = "commission" -> ResolveUpdateRatioInvalidFlags(mem, rows, redis, tx, h)
      [] tx.tag = "proof" ->
           IF provesStake(mem, rows, tx) THEN "None" ELSE "ProofRule"
      [] tx.tag = "stake" ->
           IF validateStakeTx(mem, rows, tx) THEN "None" ELSE "StakeRule"
      [] tx.tag = "claim" -> IF tx.ok /\ hasRewardClaimSenderInput(tx) THEN "None" ELSE "ClaimRule"

\* Whether the verdict needs an answer of a store: the staged rows are asked
\* first, and a delayed commission is looked up only for the owner.
NeedsLookup(mem, rows, tx, store) ==
    LET staged == UserAddressOf(mem, NoTables, tx.indexer)
    IN  CASE store = "redis" ->
               /\ tx.tag = "commission"
               /\ tx.user \in UserAddressOf(mem, rows, tx.indexer)
               /\ isValidCommissionRatio(tx.ratio)
               /\ tx.indexer \notin DOMAIN mem.slow.delayed
          [] tx.tag = "register" ->
               /\ isValidCommissionRatio(tx.ratio)
               /\ tx.user \notin mem.seen /\ ~ hasStagedRegisterOwner(mem, tx.user)
          [] tx.tag = "claim" ->
               /\ tx.ok /\ hasRewardClaimSenderInput(tx)
               /\ tx.indexer # NoID /\ staged = {}
          [] OTHER -> tx.indexer # NoID /\ staged = {}

\* The verdict when the store does not answer.
FlagsOnLookupError(tx, store) ==
    CASE tx.tag = "register" -> "Unknown"
      [] tx.tag = "commission" -> IF store = "redis" THEN "Unknown" ELSE "IndexerNotFound"
      [] tx.tag = "proof" -> "ProofRule"
      [] tx.tag = "stake" -> "StakeRule"
      [] tx.tag = "claim" -> "ClaimRule"
------------------------------------------------------------------------------
\* The rows the handlers build, for the transaction `id` at position i of block h.
RegisterRow(id, tx, h, i) ==
    [id |-> <<h, i>>, user |-> tx.user, ratio |-> tx.ratio, txid |-> id, height |-> h]

buildStakeProof(id, tx, h) ==
    [txid |-> id, indexer |-> tx.indexer, prove |-> tx.prove, height |-> h]

buildStakeClaimedReward(mem, rows, id, tx, h) ==
    LET fixed == IF tx.early \/ tx.indexer # NoID
                 THEN tx.indexer ELSE ResolveLegacyIndexerClaimReward(id)
        owner == UserAddressOf(mem, rows, tx.indexer)
    IN  [txid |-> id, height |-> h, indexer |-> fixed,
         type |-> IF tx.early
                  THEN IF tx.indexer = NoID THEN "early_stake" ELSE "early_indexer"
                  ELSE IF fixed = NoID THEN "stake" ELSE "indexer",
         user |-> IF owner = {} THEN tx.user ELSE CHOOSE u \in owner : TRUE]

StakeBinding(id, tx, h) ==
    [address |-> <<tx.indexer, tx.user>>, indexer |-> tx.indexer, user |-> tx.user,
     txid |-> id, height |-> h]

\* handleUpdateRatioTxLatest: a delayed ratio that has come into effect moves
\* to index_ratio before the new one takes its place.
handleUpdateRatioTx(slow, mem, redis, tx, h) ==
    LET due == {d \in loadDelayedCommissionRatio(mem, redis, tx.indexer) : d.effective <= h}
        new == [ratio |-> tx.ratio, event |-> h, effective |-> h + Activation]
    IN  [delayed |-> (tx.indexer :> new) @@ slow.delayed,
         ratio |-> [i \in {tx.indexer : d \in due} |-> (CHOOSE d \in due : TRUE).ratio]
                       @@ slow.ratio]

HandlerTable ==
    [register |-> "registers", proof |-> "proofs", claim |-> "claims", stake |-> "bindings"]

\* One transaction of HandleBlockByDeps, with its verdict.
HandleTx(mem, rows, redis, flags, id, tx, h, i) ==
    LET row == CASE tx.tag = "register" -> RegisterRow(id, tx, h, i)
                 [] tx.tag = "proof" -> buildStakeProof(id, tx, h)
                 [] tx.tag = "claim" -> buildStakeClaimedReward(mem, rows, id, tx, h)
                 [] tx.tag = "stake" -> StakeBinding(id, tx, h)
        accepted == IF flags = "None" THEN {tx.tag} ELSE {}
        staged == {HandlerTable[t] : t \in accepted \ {"commission"}}
        event == [txid |-> id, flags |-> flags, height |-> h]
    IN  [wait |-> [t \in Tables |->
                     IF t = "events" THEN Append(mem.wait[t], event)
                     ELSE IF t \in staged THEN Append(mem.wait[t], row)
                     ELSE mem.wait[t]],
         seen |-> mem.seen \cup {tx.user : t \in accepted \cap {"register"}},
         slow |-> IF "commission" \in accepted
                  THEN handleUpdateRatioTx(mem.slow, mem, redis, tx, h) ELSE mem.slow]

\* Position i of a block; its lookup in one store may fail.
HandleAt(mem, rows, redis, block, h, bad, i) ==
    LET tx == Txs[block[i]]
        flags == IF i = bad.at /\ NeedsLookup(mem, rows, tx, bad.store)
                 THEN FlagsOnLookupError(tx, bad.store)
                 ELSE ResolveBusinessInvalidFlags(mem, rows, redis, tx, h)
    IN  HandleTx(mem, rows, redis, flags, block[i], tx, h, i)

\* HandleFastBlock: the block's transactions in order.
HandleFastBlock(mem, rows, redis, block, h, bad) ==
    LET handled[i \in 0 .. Len(block)] ==
          IF i = 0 THEN [mem EXCEPT !.seen = {}]
          ELSE HandleAt(handled[i - 1], rows, redis, block, h, bad, i)
    IN  handled[Len(block)]

NoError == [at |-> 0, store |-> "pg"]
------------------------------------------------------------------------------
\* The statements of component/pg: registers are keyed by indexer id, bindings
\* by stake address (the first one stays), the others by transaction id.
Key(t, r) == CASE t = "registers" -> r.id [] t = "bindings" -> r.address [] OTHER -> r.txid

Put(t, S, r) ==
    LET same == {o \in S : Key(t, o) = Key(t, r)}
    IN  IF t = "bindings" /\ same # {} THEN S ELSE (S \ same) \cup {r}

PutAll(t, S, list) ==
    LET stored[k \in 0 .. Len(list)] ==
          IF k = 0 THEN S ELSE Put(t, stored[k - 1], list[k])
    IN  stored[Len(list)]

Upsert(rows, t, list) == [rows EXCEPT ![t] = PutAll(t, @, list)]

Flushed(redis, slow) ==
    [delayed |-> slow.delayed @@ redis.delayed, ratio |-> slow.ratio @@ redis.ratio]
------------------------------------------------------------------------------
Init ==
    /\ chain \in Chains
    /\ blocks = <<>> /\ pc = "idle" /\ batch = <<>> /\ parsed = 0
    /\ stopping = FALSE /\ m = NewManager /\ db = NoTables /\ rdb = NoRedis /\ total = 0
    /\ faults = <<>>

start == Len(blocks) + 1

\* The heights at which the committed block is not the node's.
Differs == {k \in 1 .. Len(blocks) : k > Len(chain) \/ blocks[k] # chain[k]}

\* The loop takes the next blocks of the node's chain; nothing staged by an
\* earlier attempt is dropped.
ParseLongestChain ==
    /\ pc = "idle" /\ Differs = {} /\ start <= Len(chain)
    /\ \E n \in 1 .. Batch :
         /\ start + n - 1 <= Len(chain)
         /\ batch' = SubSeq(chain, start, start + n - 1)
    /\ parsed' = 0 /\ pc' = "parse"
    /\ UNCHANGED <<chain, blocks, stopping, m, db, rdb, total, faults>>

Handle(bad) ==
    /\ pc = "parse"
    /\ m' = HandleFastBlock(m, db, rdb, batch[parsed + 1], start + parsed, bad)
    /\ parsed' = parsed + 1
    /\ pc' = IF parsed + 1 = Len(batch) THEN "registers" ELSE pc
    /\ UNCHANGED <<chain, blocks, batch, stopping, db, rdb, total>>

HandleBlock == Handle(NoError) /\ UNCHANGED faults

LookupFails ==
    /\ pc = "parse" /\ Budget("lookup")
    /\ \E at \in 1 .. Len(batch[parsed + 1]), store \in {"pg", "redis"} :
         Handle([at |-> at, store |-> store])

\* NeedStop is seen before or after HandleFastBlock of the next block (a
\* signal), or set because a handler's own query failed at its transaction k+1
\* after the verdict: the block is not staged, what was handled of it is, and
\* the blocks before it are submitted.
HandlerFailsAt(k) ==
    LET block == batch[parsed + 1]
        before == HandleFastBlock(m, db, rdb, SubSeq(block, 1, k), start + parsed, NoError)
    IN  /\ k < Len(block)
        /\ NeedsLookup(before, db, Txs[block[k + 1]], "pg")
        /\ Txs[block[k + 1]].tag # "register"
        /\ ResolveBusinessInvalidFlags(before, db, rdb, Txs[block[k + 1]], start + parsed) = "None"

Stop ==
    /\ pc = "parse"
    /\ \E k \in 0 .. Len(batch[parsed + 1]) :
         /\ \/ k \in {0, Len(batch[parsed + 1])} /\ Budget("stop")
            \/ HandlerFailsAt(k) /\ Budget("lookup")
         /\ m' = IF parsed = 0 THEN NewManager
                 ELSE HandleFastBlock(m, db, rdb, SubSeq(batch[parsed + 1], 1, k),
                                      start + parsed, NoError)
    /\ batch' = SubSeq(batch, 1, parsed)
    /\ parsed' = 0
    /\ stopping' = (parsed # 0)
    /\ pc' = IF parsed = 0 THEN "idle" ELSE "registers"
    /\ total' = IF parsed = 0 THEN Cardinality(db["registers"]) ELSE total
    /\ UNCHANGED <<chain, blocks, db, rdb>>

AfterClearedEarly(t) ==
    CASE t = "registers" -> "events" [] t = "events" -> "proofs" [] t = "proofs" -> "claims"
      [] t = "claims" -> "bindings" [] t = "bindings" -> "utxo"

After(t) == IF t = "events" THEN "utxo" ELSE Steps[(CHOOSE i \in 1 .. 5 : Steps[i] = t) + 1]

PersistClearsSlow ==
    /\ pc \in Tables
    /\ db' = Upsert(db, pc, m.wait[pc])
    /\ total' = IF pc = "registers" THEN Cardinality(db'["registers"]) ELSE total
    /\ m' = IF pc = "events" THEN NewManager ELSE m
    /\ pc' = After(pc)
    /\ UNCHANGED <<chain, blocks, batch, parsed, stopping, rdb, faults>>

PersistCountsFirst ==
    /\ pc \in Tables
    /\ db' = Upsert(db, pc, m.wait[pc])
    /\ total' = IF pc = "registers" THEN Cardinality(db["registers"]) ELSE total
    /\ m' = IF pc = "events" THEN [m EXCEPT !.wait = WaitForUpsert] ELSE m
    /\ pc' = After(pc)
    /\ UNCHANGED <<chain, blocks, batch, parsed, stopping, rdb, faults>>

\* One list of persistPreparedStakeWrites; the registers are counted, and the
\* lists are emptied once the last one is stored.
Persist ==
    /\ pc \in Tables
    /\ db' = Upsert(db, pc, m.wait[pc])
    /\ total' = IF pc = "registers" THEN Cardinality(db'["registers"]) ELSE total
    /\ m' = IF pc = "events" THEN [m EXCEPT !.wait = WaitForUpsert] ELSE m
    /\ pc' = After(pc)
    /\ UNCHANGED <<chain, blocks, batch, parsed, stopping, rdb, faults>>

\* A statement fails, the rows before it stay; the loop tries the batch again
\* with what the manager holds.
PersistFails ==
    /\ pc \in Tables /\ Budget("error")
    /\ \E k \in 0 .. Len(m.wait[pc]) : db' = Upsert(db, pc, SubSeq(m.wait[pc], 1, k))
    /\ pc' = "idle" /\ batch' = <<>> /\ parsed' = 0 /\ stopping' = FALSE
    /\ m' = IF stopping THEN NewManager ELSE m
    /\ total' = IF stopping THEN Cardinality(db'["registers"]) ELSE total
    /\ UNCHANGED <<chain, blocks, rdb>>

\* commitUtxoWritesAndCursor to MarkIndexerBlocksCommitted; a process that was
\* told to stop ends here and starts anew.
Commit ==
    /\ pc = "utxo"
    /\ rdb' = Flushed(rdb, m.slow)
    /\ m' = IF stopping THEN NewManager ELSE [m EXCEPT !.slow = NoRedis]
    /\ blocks' = blocks \o batch
    /\ pc' = "idle" /\ batch' = <<>> /\ parsed' = 0 /\ stopping' = FALSE
    /\ total' = IF stopping THEN Cardinality(db["registers"]) ELSE total
    /\ UNCHANGED <<chain, db, faults>>

\* The process ends, while it parses (kill) or between two statements (crash),
\* and starts anew: InitIndexerStatusCache counts the registers again.
Crash ==
    /\ \/ pc = "parse" /\ Budget("kill") /\ UNCHANGED db
       \/ /\ pc \in Tables /\ Budget("crash")
          /\ \E k \in 0 .. Len(m.wait[pc]) : db' = Upsert(db, pc, SubSeq(m.wait[pc], 1, k))
       \/ pc = "utxo" /\ Budget("crash") /\ UNCHANGED db
    /\ total' = Cardinality(db'["registers"])
    /\ m' = NewManager /\ pc' = "idle" /\ batch' = <<>> /\ parsed' = 0 /\ stopping' = FALSE
    /\ UNCHANGED <<chain, blocks, rdb>>

\* The node changes to another chain.
Reorg ==
    /\ Budget("reorg")
    /\ chain' \in UNION {F \in Families : chain \in F} \ {chain}
    /\ UNCHANGED <<blocks, pc, batch, parsed, stopping, m, db, rdb, total>>

\* RollbackIndexerFromHeight: events and stake rows of the heights that differ
\* go, the status is counted again; the commissions in Redis and what the
\* manager holds stay.
KeepsEvents(rows, from) ==
    [t \in Tables |-> {r \in rows[t] : t = "events" \/ r.height < from}]

Before(rows, from) == [t \in Tables |-> {r \in rows[t] : r.height < from}]

Rollback ==
    /\ pc = "idle" /\ Differs # {}
    /\ blocks' = SubSeq(blocks, 1, Min(Differs) - 1)
    /\ db' = Before(db, Min(Differs))
    /\ total' = Cardinality(db'["registers"])
    /\ UNCHANGED <<chain, pc, batch, parsed, stopping, m, rdb, faults>>

Next ==
    \/ ParseLongestChain \/ HandleBlock \/ LookupFails \/ Stop
    \/ Persist \/ PersistFails \/ Commit \/ Crash \/ Reorg \/ Rollback

Spec == Init /\ [][Next]_vars
------------------------------------------------------------------------------
\* What an uninterrupted run over the committed blocks would hold: all of them
\* in one batch, from an empty store.
Replay(bs) ==
    LET replayed[h \in 0 .. Len(bs)] ==
          IF h = 0 THEN NewManager
          ELSE HandleFastBlock(replayed[h - 1], NoTables, NoRedis, bs[h], h, NoError)
    IN  replayed[Len(bs)]

ReplayTables(bs) == [t \in Tables |-> PutAll(t, {}, Replay(bs).wait[t])]

Settled == pc = "idle" /\ m.wait = WaitForUpsert
Only(kinds) == Range(faults) \subseteq kinds

\* The tables hold exactly what one run over the committed blocks would have
\* stored.
TablesReplayed == Settled => db = ReplayTables(blocks)

\* Once a batch is committed, the tables of component/pg are those of one run:
\* how the blocks were cut into batches, what was staged and what was stored
\* when a transaction was judged, a process killed while it parsed and what a
\* rollback removed make no difference.  A rollback leaves delayed commissions
\* in Redis, so with one there must be none.
TablesAreReplay ==
    Only({"kill", "reorg"}) /\ ("reorg" \in Range(faults) => rdb.delayed = <<>>)
        => TablesReplayed

\* The commissions in Redis are those of one run over the committed blocks
\* (handleUpdateRatioTxLatest, stageCommissionRatioForHeight), however often
\* the process was killed while it parsed.
CommissionIsReplay ==
    Settled /\ Only({"kill"}) => rdb = Flushed(NoRedis, Replay(blocks).slow)

\* A user address owns at most one row of stake_indexer_registers, in every
\* state (resolveRegisterInvalidFlags): staged, seen and stored registers are
\* all asked, whatever was interrupted.
OneIndexerPerOwner ==
    \A r, s \in db["registers"] : r.user = s.user => r = s

\* Proofs and bindings name a stored indexer, in every state of a run on one
\* chain: the registers are stored first, whatever is interrupted, tried again
\* or stopped (persistPreparedStakeWrites).
RowsHaveIndexer ==
    "reorg" \notin Range(faults) =>
    \A r \in db["proofs"] \cup db["bindings"] :
        \E i \in db["registers"] : i.id = r.indexer

\* An event stored as valid has its row, on one chain: the events are the last
\* list of persistPreparedStakeWrites.
ValidEventHasRow ==
    "reorg" \notin Range(faults) =>
    \A e \in db["events"] :
        LET tx == Txs[e.txid]
        IN  e.flags = "None" =>
            CASE tx.tag = "register" -> \E r \in db["registers"] : r.txid = e.txid
              [] tx.tag = "proof" -> \E r \in db["proofs"] : r.txid = e.txid
              [] tx.tag = "claim" -> \E r \in db["claims"] : r.txid = e.txid
              [] tx.tag = "stake" ->
                   \E r \in db["bindings"] : r.address = <<tx.indexer, tx.user>>
              [] OTHER -> TRUE

\* total_indexers of the status hash is the number of registers, whenever the
\* loop is idle with nothing staged (persistPreparedStakeWrites,
\* InitIndexerStatusCache).
StatusCountsRegisters == Settled => total = Cardinality(db["registers"])

\* The first register with an acceptable ratio of a user address is the valid
\* one; only later registrations are business-invalid.
FirstRegisterIsValid ==
    Settled =>
    \A e \in db["events"] :
        LET tx == Txs[e.txid]
            at == CHOOSE i \in 1 .. Len(blocks[e.height]) : blocks[e.height][i] = e.txid
            Earlier(h, i) ==
              LET o == Txs[blocks[h][i]]
              IN  /\ o.tag = "register" /\ o.user = tx.user
                  /\ isValidCommissionRatio(o.ratio)
                  /\ h < e.height \/ (h = e.height /\ i < at)
        IN  /\ tx.tag = "register"
            /\ isValidCommissionRatio(tx.ratio)
            /\ e.flags # "None"
            => \E h \in 1 .. e.height : \E i \in 1 .. Len(blocks[h]) : Earlier(h, i)

\* The rows stored for a committed height belong to transactions of the block
\* committed there, once the loop is idle with nothing staged.
RowsAreFromChain ==
    Settled =>
    \A t \in Tables : \A r \in db[t] :
        r.height <= Len(blocks) => r.txid \in Range(blocks[r.height])
==============================================================================
