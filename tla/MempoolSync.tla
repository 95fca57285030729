---------------------------- MODULE MempoolSync ----------------------------
(***************************************************************************)
(* The pending view of the indexer: the mempool synchronisation that the   *)
(* loop of main.go runs when it has caught up (internal/entry/mempool and  *)
(* internal/exec/manager/mempool_protocol_sync.go), the reset it runs      *)
(* before it parses blocks and at start-up, and the HTTP queries that      *)
(* combine the pending view with the confirmed one.                        *)
(*                                                                         *)
(* A transaction is a name; TxOf gives the protocol message it carries,    *)
(* whether the business rules accept it (ProtocolHandlers models them),    *)
(* what it pays to stake addresses, and the outputs <<tx, address>> it     *)
(* spends.  A block is committed in one step here: BlockSync models the    *)
(* writes of a commit and of a rollback one by one.                        *)
(***************************************************************************)
EXTENDS Integers, Sequences, FiniteSets, FiniteSetsExt, Functions

CONSTANTS
    Txs,        \* transactions
    TxOf,       \* [Txs -> [op, valid, addr, outs, ins]]
    Addr,       \* stake addresses
    IndexerOf,  \* [Addr -> indexer] of the binding of a stake address
    UserOf,     \* [Addr -> user address]
    TxidMode,   \* the node lists transaction ids instead of raw transactions
    Forks,      \* marks that tell two blocks with the same content apart
    MaxBlocks, MaxMoves, \* bounds on the chain and on what the node does
    Faults, MaxFaults    \* kinds of failures that may happen, and how many

Indexers == {IndexerOf[a] : a \in Addr}
Users == {UserOf[a] : a \in Addr}

\* constant.MEMPOOL_HEIGHT, above every height
MEMPOOL_HEIGHT == MaxBlocks + 1
NoRow == 0

ASSUME PendingAssumption ==
    /\ TxidMode \in BOOLEAN /\ MaxBlocks \in Nat
    /\ IsFiniteSet(Txs) /\ IsFiniteSet(Addr)
    /\ \A t \in Txs :
        /\ TxOf[t].op \in {"stake", "claim", "support", "other", "none"}
        /\ TxOf[t].valid \in BOOLEAN
        /\ TxOf[t].addr \in Addr
        /\ TxOf[t].outs \in [Addr -> Nat]
        /\ TxOf[t].ins \subseteq Txs \X Addr

VARIABLES
    pool, chain, moves,  \* the node: its mempool and its best chain
    reorged,             \* whether it has ever left a branch
    db,      \* committed blocks, each with the bindings and outputs after it
    evs,     \* stake_mempool_events: transaction ids
    insc,    \* fip101_inscription_events: height by transaction, or NoRow
    cache,   \* Redis hashes of pending deltas and the status field
    snap,    \* Redis staker snapshots, by indexer
    pc, job, faults

node == <<pool, chain, moves, reorged>>
tables == <<evs, insc, cache, snap>>
vars == <<pool, chain, moves, reorged, db, evs, insc, cache, snap, pc, job, faults>>

-----------------------------------------------------------------------------
\* What a transaction moves

Value(o) == TxOf[o[1]].outs[o[2]]
Spends(S) == UNION {TxOf[t].ins : t \in S}
Pays(S) == {o \in S \X Addr : Value(o) > 0}
AtAddr(O, a) == {o \in O : o[2] = a}
Worth(O) == SumFunctionOnSet([o \in O |-> Value(o)], O)
IsStake(t) == TxOf[t].op = "stake" /\ TxOf[t].valid
Binds(S) == {TxOf[t].addr : t \in {u \in S : IsStake(u)}}
Protocol(S) == {t \in S : TxOf[t].op # "none"}

\* The confirmed state: stake addresses with a binding, their unspent outputs
Empty == [bound |-> {}, utxo |-> {}]
State(d) == IF d = <<>> THEN Empty ELSE d[Len(d)].state
Blocks(d) == [i \in 1 .. Len(d) |-> d[i].block]

\* A committed block: outputs count from the block that binds their address,
\* and an output the store does not hold is spent without effect.
ApplyBlock(s, S) ==
    LET bound == s.bound \cup Binds(S)
    IN  [bound |-> bound,
         utxo |-> (s.utxo \cup {o \in Pays(S) : o[2] \in bound}) \ Spends(S)]

Balance(s, a) == Worth(AtAddr(s.utxo, a))
SumBalance(s, A) == SumFunctionOnSet([a \in A |-> Balance(s, a)], A)
Of(A, i) == {a \in A : IndexerOf[a] = i}
OfUser(A, i, u) == {a \in A : IndexerOf[a] = i /\ UserOf[a] = u}

\* stake total and zset of an indexer
StakeTotal(s, i) == SumBalance(s, Of(s.bound, i))
StakeScore(s, i, u) == SumBalance(s, OfUser(s.bound, i, u))

-----------------------------------------------------------------------------
\* accumulateMempoolStakeBalanceDeltaByAddresses: inputs that cannot be
\* resolved are left out
AddressDeltas(S, tracked, lost) ==
    [a \in Addr |-> IF a \in tracked
        THEN Worth(AtAddr(Pays(S), a)) - Worth(AtAddr(Spends(S) \ lost, a))
        ELSE 0]

PlusDeltas(d, e) == [a \in Addr |-> d[a] + e[a]]

SumDelta(d, A) == SumFunctionOnSet(d, A)

\* stake addresses of valid pending stakes without a confirmed binding
FirstBinds(S, bound) == Binds(S) \ bound

\* Variant: first binds are not merged into the deltas of an indexer.
ConfirmedIndexerDeltas(d, bound, first) ==
    [i \in Indexers |-> SumDelta(d, Of(bound, i))]

\* buildMempoolIndexerDeltas and mergeMempoolFirstBindIndexerDeltas
IndexerDeltas(d, bound, first) ==
    [i \in Indexers |-> SumDelta(d, Of(bound \cup first, i))]

StakerDeltas(d, bound) ==
    [i \in Indexers |-> [u \in Users |-> SumDelta(d, OfUser(bound, i, u))]]

\* buildMempoolFirstBindUserAmountsByIndexer: only positive deltas
FirstBindAmounts(d, first) ==
    [i \in Indexers |-> [u \in Users |->
        SumDelta(d, {a \in OfUser(first, i, u) : d[a] > 0})]]

\* applyStakeDeltaUint of the synchronisation and applyStakeDelta of the
\* queries: clamped at zero
ApplyStakeDeltaUint(base, delta) ==
    IF base + delta < 0 THEN 0 ELSE base + delta

ApplyStakeDelta(base, delta) ==
    IF base + delta < 0 THEN 0 ELSE base + delta

NoCache == [bal |-> [a \in Addr |-> 0], idx |-> [i \in Indexers |-> 0],
            stakers |-> [i \in Indexers |-> [u \in Users |-> 0]]]

\* saveMempoolStakeBalanceDeltas
StakeBalanceDeltas(d, bound, first) ==
    LET idx == IndexerDeltas(d, bound, first)
    IN  [bal |-> d, idx |-> idx, stakers |-> StakerDeltas(d, bound),
         total |-> SumFunctionOnSet(idx, Indexers)]

\* Variant: the snapshot holds only the users the mempool touches.
TouchedOnly(s, d, bound, first, i) ==
    LET delta == StakerDeltas(d, bound)[i]
        amount == FirstBindAmounts(d, first)[i]
        merged == [u \in Users |-> IF delta[u] = 0 THEN 0
                   ELSE ApplyStakeDeltaUint(StakeScore(s, i, u), delta[u])]
    IN  [amount |-> [u \in Users |->
                        IF merged[u] > 0 THEN merged[u] ELSE amount[u]],
         pending |-> {u \in Users : \/ delta[u] # 0 /\ merged[u] > 0
                                    \/ amount[u] > 0}]

\* Variant: first binds do not mark their user as pending.
FirstBindsUnmarked(s, d, bound, first, i) ==
    LET delta == StakerDeltas(d, bound)[i]
        amount == FirstBindAmounts(d, first)[i]
        merged == [u \in Users |-> ApplyStakeDeltaUint(StakeScore(s, i, u), delta[u])]
    IN  [amount |-> [u \in Users |->
                        IF merged[u] > 0 THEN merged[u] ELSE amount[u]],
         pending |-> {u \in Users : delta[u] # 0 /\ merged[u] > 0}]

\* saveMempoolIndexerStakerSnapshots, one indexer: the confirmed zset, then
\* the deltas (a user left without stake is dropped and not pending), then
\* the first binds of users that are not there yet
MergeStakers(s, d, bound, first, i) ==
    LET delta == StakerDeltas(d, bound)[i]
        amount == FirstBindAmounts(d, first)[i]
        merged == [u \in Users |-> ApplyStakeDeltaUint(StakeScore(s, i, u), delta[u])]
    IN  [amount |-> [u \in Users |->
                        IF merged[u] > 0 THEN merged[u] ELSE amount[u]],
         pending |-> {u \in Users : \/ delta[u] # 0 /\ merged[u] > 0
                                    \/ amount[u] > 0}]

StakerSnapshots(s, d, bound, first) ==
    LET active == {i \in Indexers : \E u \in Users :
                        \/ StakerDeltas(d, bound)[i][u] # 0
                        \/ FirstBindAmounts(d, first)[i][u] > 0}
    IN  [i \in active |-> MergeStakers(s, d, bound, first, i)]

NoSnap == [i \in {} |-> {}]

\* transactions of S for which RunProtocolSync builds an event: all protocol
\* messages but valid claims of early supporters
EventTxs(S) ==
    {t \in Protocol(S) : ~(TxOf[t].op = "support" /\ TxOf[t].valid)}

-----------------------------------------------------------------------------
NoJob == [list |-> {}, oldEvs |-> {}, oldInsc |-> {}, got |-> {},
          delta |-> [a \in Addr |-> 0], bound |-> {}, first |-> {},
          complete |-> TRUE, lost |-> {}]

Init ==
    /\ pool = {} /\ chain = <<>> /\ moves = 0 /\ reorged = FALSE
    /\ db = <<>>
    /\ evs = {} /\ insc = [t \in Txs |-> NoRow]
    /\ cache = [bal |-> NoCache.bal, idx |-> NoCache.idx,
                stakers |-> NoCache.stakers, total |-> 0]
    /\ snap = NoSnap
    /\ pc = "idle" /\ job = NoJob /\ faults = 0

\* A failure of a kind the run admits
Budget(kind) ==
    /\ kind \in Faults /\ faults < MaxFaults
    /\ faults' = faults + 1

Goto(from, to) == pc = from /\ pc' = to

-----------------------------------------------------------------------------
\* The node

Mined(c) == UNION {c[i].txs : i \in 1 .. Len(c)}
Known == pool \cup Mined(chain)

\* S can follow the transactions in base: parents there, nothing spent twice
Fits(base, S) ==
    /\ \A t \in S : \A o \in TxOf[t].ins : o[1] \in base \cup S
    /\ \A t \in S : \A u \in (base \cup S) \ {t} :
        TxOf[t].ins \cap TxOf[u].ins = {}

Move == moves < MaxMoves /\ moves' = moves + 1

EnterPool(t) ==
    /\ Move
    /\ t \notin Known /\ Fits(Known, {t})
    /\ pool' = pool \cup {t}
    /\ UNCHANGED <<chain, reorged, db, tables, pc, job, faults>>

\* Eviction or replacement, with the transactions that depend on it
LeavePool(S) ==
    /\ Move
    /\ S # {} /\ S \subseteq pool
    /\ Fits(Mined(chain), pool \ S)
    /\ pool' = pool \ S
    /\ UNCHANGED <<chain, reorged, db, tables, pc, job, faults>>

Mine(S, f) ==
    /\ Move
    /\ Len(chain) < MaxBlocks
    /\ S \subseteq pool /\ Fits(Mined(chain), S)
    /\ chain' = Append(chain, [txs |-> S, fork |-> f])
    /\ pool' = pool \ S
    /\ UNCHANGED <<reorged, db, tables, pc, job, faults>>

\* A longer branch replaces the blocks above k; what it lost is pending again
Reorg(k, S, f) ==
    /\ Move
    /\ k < Len(chain) /\ Len(chain) < MaxBlocks
    /\ f # chain[k + 1].fork
    /\ LET kept == SubSeq(chain, 1, k)
           back == pool \cup (Mined(chain) \ Mined(kept))
       IN  /\ S \subseteq back /\ Fits(Mined(kept), S)
           /\ chain' = kept \o [n \in 1 .. Len(chain) + 1 - k |->
                        [txs |-> IF n = 1 THEN S ELSE {}, fork |-> f]]
           /\ pool' = back \ S
    /\ reorged' = TRUE
    /\ UNCHANGED <<db, tables, pc, job, faults>>

Node ==
    \/ \E t \in Txs : EnterPool(t)
    \/ \E S \in SUBSET pool : LeavePool(S)
    \/ \E S \in SUBSET pool, f \in Forks : Mine(S, f)
    \/ \E k \in 0 .. Len(chain) - 1, S \in SUBSET Known, f \in Forks : Reorg(k, S, f)

-----------------------------------------------------------------------------
\* The loop of syncBlockIndexer

\* RollbackCheckWithFloor: cut to the common prefix.  The delete of
\* inscription events from a height on takes the pending ones with it.
CheckChain ==
    /\ Goto("idle", "plan")
    /\ LET same == {n \in 0 .. Len(db) :
                        n <= Len(chain) /\ SubSeq(Blocks(db), 1, n) = SubSeq(chain, 1, n)}
           keep == Max(same)
       IN  IF keep = Len(db) THEN UNCHANGED <<db, insc>>
           ELSE /\ db' = SubSeq(db, 1, keep)
                /\ insc' = [t \in Txs |-> IF insc[t] > keep THEN NoRow ELSE insc[t]]
    /\ UNCHANGED <<node, evs, cache, snap, job, faults>>

\* InitLatestBlockFromRPC, then either parse or synchronise the mempool; the
\* loop starts over when the call fails.
Plan ==
    /\ pc = "plan"
    /\ \/ /\ pc' = IF Len(chain) > Len(db) THEN "resetEvents" ELSE "list"
          /\ UNCHANGED faults
       \/ pc' = "idle" /\ Budget("rpc")
    /\ UNCHANGED <<node, db, tables, job>>

\* Variant: the events stay until the next synchronisation.
ResetNothing ==
    /\ \/ Goto("resetEvents", "resetCache")
       \/ Goto("bootEvents", "bootCache")
    /\ UNCHANGED <<node, db, tables, job, faults>>

\* ResetMempoolSnapshotOnStartup, PostgreSQL part: before blocks are parsed
\* and when the process starts
ResetEvents ==
    /\ \/ Goto("resetEvents", "resetCache")
       \/ Goto("bootEvents", "bootCache")
    /\ evs' = {}
    /\ UNCHANGED <<node, db, insc, cache, snap, job, faults>>

\* its Redis part: the keys of deltas and snapshots, not the status field
ResetCache ==
    /\ \/ Goto("resetCache", "parse")
       \/ Goto("bootCache", "bootStatus")
    /\ cache' = [bal |-> NoCache.bal, idx |-> NoCache.idx,
                 stakers |-> NoCache.stakers, total |-> cache.total]
    /\ snap' = NoSnap
    /\ UNCHANGED <<node, db, evs, insc, job, faults>>

\* Either part may fail; the loop then starts over.
ResetFails ==
    /\ pc \in {"resetEvents", "resetCache"} /\ pc' = "idle"
    /\ Budget("write")
    /\ UNCHANGED <<node, db, tables, job>>

\* InitIndexerStatusCache
InitStatus ==
    /\ Goto("bootStatus", "idle")
    /\ cache' = [cache EXCEPT !.total = 0]
    /\ UNCHANGED <<node, db, evs, insc, snap, job, faults>>

\* The committed blocks are on the best chain, and the next block extends them
\* (BlockSync has the race in which it does not).
OnChain == Len(chain) >= Len(db) /\ SubSeq(chain, 1, Len(db)) = Blocks(db)
Extends == Len(chain) > Len(db) /\ OnChain

\* Variant: a commit keeps the inscription rows that are already there.
CommitKeepsRows ==
    /\ pc = "parse" /\ Extends
    /\ LET block == chain[Len(db) + 1]
           state == ApplyBlock(State(db), block.txs)
       IN  /\ db' = Append(db, [block |-> block, state |-> state])
           /\ insc' = [t \in Txs |-> IF t \in Protocol(block.txs) /\ insc[t] = NoRow
                                      THEN Len(db) + 1 ELSE insc[t]]
    /\ pc' \in {"parse", "idle"}
    /\ UNCHANGED <<node, evs, cache, snap, job, faults>>

\* One more block is parsed and committed, with its inscription events
Commit ==
    /\ pc = "parse" /\ Extends
    /\ LET block == chain[Len(db) + 1]
           state == ApplyBlock(State(db), block.txs)
       IN  /\ db' = Append(db, [block |-> block, state |-> state])
           /\ insc' = [t \in Txs |-> IF t \in Protocol(block.txs)
                                      THEN Len(db) + 1 ELSE insc[t]]
    /\ pc' \in {"parse", "idle"}
    /\ UNCHANGED <<node, evs, cache, snap, job, faults>>

\* Nothing (left) to parse, or a failure before the commit
EndParse ==
    /\ Goto("parse", "idle")
    /\ \/ ~Extends /\ UNCHANGED faults
       \/ Budget("parse")
    /\ UNCHANGED <<node, db, tables, job>>

-----------------------------------------------------------------------------
\* RunProtocolSync

PendingInscriptions == {t \in Txs : insc[t] = MEMPOOL_HEIGHT}

\* The bindings, the tip hash, the listing and the stored transaction ids.  The
\* code hands the tip hash to getrawtxmempool; what the node does with it is not
\* known here, and the listing is the mempool of the moment whatever the tip is.
List ==
    /\ Goto("list", "fetch")
    /\ job' = [NoJob EXCEPT !.list = pool, !.oldEvs = evs,
                  !.oldInsc = PendingInscriptions,
                  !.bound = State(db).bound]
    /\ UNCHANGED <<node, db, tables, faults>>

ListFails ==
    /\ Goto("list", "idle")
    /\ Budget("rpc")
    /\ UNCHANGED <<node, db, tables, job>>

\* What the calls for single transactions yield: everything in raw mode;
\* with ids, a transaction that left the mempool may be gone.
Loads(G) == TxidMode \/ G = job.list

\* loadInputAddressAndSatoshi: an input whose output is not in the UTXO store
\* needs its parent from the node; without it the input is left out.
MayLose == {o \in Spends(job.list) \ State(db).utxo : o[1] \notin pool}

\* Anything else that is missing was lost to a failing call.
Calls(G, L) ==
    \/ job.list \cap pool \subseteq G /\ L \subseteq MayLose /\ UNCHANGED faults
    \/ ~(job.list \cap pool \subseteq G /\ L \subseteq MayLose) /\ Budget("rpc")

\* Variant: a transaction that could not be loaded is skipped silently.
FetchSkips(G, L) ==
    /\ Goto("fetch", "second")
    /\ Loads(G) /\ Calls(G, L)
    /\ job' = [job EXCEPT !.got = G, !.lost = L, !.complete = TRUE,
                  !.first = FirstBinds(G, job.bound),
                  !.delta = AddressDeltas(G, job.bound, L)]
    /\ UNCHANGED <<node, db, tables>>

\* First pass: the deltas of confirmed stake addresses and the events.
\* Without a confirmed address no input is looked up for the deltas.
Fetch(G, L) ==
    /\ Goto("fetch", "second")
    /\ job.bound = {} => L = {}
    /\ Loads(G) /\ Calls(G, L)
    /\ job' = [job EXCEPT !.got = G, !.lost = L, !.complete = (G = job.list),
                  !.first = FirstBinds(G, job.bound),
                  !.delta = AddressDeltas(G, job.bound, L)]
    /\ UNCHANGED <<node, db, tables>>

\* Second pass, when a pending stake binds a new address: every transaction
\* is loaded again for the deltas of those addresses.  Inputs that the first
\* pass resolved are in mempoolOutpointCache, the others are looked up.
FetchFirstBinds(G, L) ==
    /\ Goto("second", "events")
    /\ \/ /\ job.first = {} /\ G = {} /\ L = {}
          /\ UNCHANGED <<job, faults>>
       \/ /\ job.first # {}
          /\ L \cap (IF job.bound = {} THEN {} ELSE Spends(job.got) \ job.lost) = {}
          /\ Loads(G) /\ Calls(G, L)
          /\ job' = [job EXCEPT !.complete = job.complete /\ G = job.list,
                        !.lost = job.lost \cup L,
                        !.delta = PlusDeltas(job.delta,
                                    AddressDeltas(G, job.first, L))]
    /\ UNCHANGED <<node, db, tables>>

\* RunProtocolWriteFlow.  A write of several rows that fails leaves some of
\* them written, a Redis pipeline that fails was applied or not; then the loop
\* starts over.
Proceed(from, to) == Goto(from, to) /\ UNCHANGED <<job, faults>>
Fail(from) == Goto(from, "idle") /\ job' = NoJob /\ Budget("write")

UpsertRows(S) == evs' = evs \cup S
DeleteRows(S) == evs' = evs \ S

UpsertEvents ==
    /\ \/ Proceed("events", "insc") /\ UpsertRows(EventTxs(job.got))
       \/ Fail("events") /\ \E S \in SUBSET EventTxs(job.got) : UpsertRows(S)
    /\ UNCHANGED <<node, db, insc, cache, snap>>

Upserted(S) ==
    [t \in Txs |-> IF t \in S THEN MEMPOOL_HEIGHT ELSE insc[t]]

\* An incomplete synchronisation ends here.
UpsertInscriptions ==
    /\ \/ /\ job.complete /\ Proceed("insc", "deltas")
          /\ insc' = Upserted(Protocol(job.got))
       \/ /\ ~job.complete /\ Goto("insc", "idle") /\ job' = NoJob
          /\ insc' = Upserted(Protocol(job.got))
          /\ UNCHANGED faults
       \/ Fail("insc") /\ \E S \in SUBSET Protocol(job.got) : insc' = Upserted(S)
    /\ UNCHANGED <<node, db, evs, cache, snap>>

SaveDeltas ==
    /\ LET saved == StakeBalanceDeltas(job.delta, job.bound, job.first)
       IN  \/ Proceed("deltas", "snaps") /\ cache' = saved
           \/ Fail("deltas") /\ cache' \in {cache, saved}
    /\ UNCHANGED <<node, db, evs, insc, snap>>

\* The confirmed stakers are read here, the deltas come from the passes.
SaveSnapshots ==
    /\ LET saved == StakerSnapshots(State(db), job.delta, job.bound, job.first)
       IN  \/ Proceed("snaps", "delEvents") /\ snap' = saved
           \/ Fail("snaps") /\ snap' \in {snap, saved}
    /\ UNCHANGED <<node, db, evs, insc, cache>>

\* Variant: only rows that were listed again are examined.
StaleOfList == (job.oldEvs \cap job.list) \ EventTxs(job.got)

StaleEvents == job.oldEvs \ EventTxs(job.got)

DeleteEvents ==
    /\ \/ Proceed("delEvents", "delInsc") /\ DeleteRows(StaleEvents)
       \/ Fail("delEvents") /\ \E S \in SUBSET StaleEvents : DeleteRows(S)
    /\ UNCHANGED <<node, db, insc, cache, snap>>

\* DeleteMempoolFIP101InscriptionEventsByTxIDs: one statement, and only
\* rows that are still pending
DeletedPending(S) ==
    [t \in Txs |-> IF t \in S /\ insc[t] = MEMPOOL_HEIGHT THEN NoRow ELSE insc[t]]

DeleteInscriptions ==
    /\ \/ /\ Proceed("delInsc", "synced")
          /\ insc' = DeletedPending(job.oldInsc \ Protocol(job.got))
       \/ Fail("delInsc") /\ UNCHANGED insc
    /\ UNCHANGED <<node, db, evs, cache, snap>>

\* time.Sleep(mempoolLoopInterval)
Sleep ==
    /\ Goto("synced", "idle") /\ job' = NoJob
    /\ UNCHANGED <<node, db, tables, faults>>

\* The process dies and bootstrap runs again
Crash ==
    /\ Budget("crash")
    /\ pc' = "bootEvents" /\ job' = NoJob
    /\ UNCHANGED <<node, db, tables>>

Loop ==
    \/ CheckChain \/ Plan \/ ResetEvents \/ ResetCache \/ ResetFails
    \/ InitStatus \/ Commit \/ EndParse \/ List \/ ListFails
    \/ \E G \in SUBSET job.list : \E L \in SUBSET Spends(job.list) : Fetch(G, L)
    \/ \E G \in SUBSET job.list : \E L \in SUBSET Spends(job.list) : FetchFirstBinds(G, L)
    \/ UpsertEvents \/ UpsertInscriptions \/ SaveDeltas \/ SaveSnapshots
    \/ DeleteEvents \/ DeleteInscriptions \/ Sleep

Next == Node \/ Loop \/ Crash

Spec == Init /\ [][Next]_vars

\* The loop is one goroutine that never blocks for ever: each of its calls
\* returns or fails.
FairSpec == Spec /\ WF_vars(Loop)

-----------------------------------------------------------------------------
\* Queries of interfaces/http

\* GetIndexers: total_staked of an indexer and of all
IndexerTotal(i) == ApplyStakeDelta(StakeTotal(State(db), i), cache.idx[i])
IndexersTotal == SumFunctionOnSet([i \in Indexers |-> IndexerTotal(i)], Indexers)

\* GetIndexerStatus from the status cache
StatusTotal ==
    ApplyStakeDelta(SumBalance(State(db), State(db).bound), cache.total)

\* GetIndexerStakers: the pending snapshot when there is one; users with no
\* amount are not listed
ListStakersByZSet(z, pending) ==
    {[user |-> u, amount |-> z[u], pending |-> u \in pending] :
        u \in {v \in Users : z[v] > 0}}

Stakers(i) ==
    IF i \in DOMAIN snap
    THEN ListStakersByZSet(snap[i].amount, snap[i].pending)
    ELSE ListStakersByZSet([u \in Users |-> StakeScore(State(db), i, u)], {})

\* GetUserStakings: confirmed bindings with their deltas, then pending first
\* binds with a positive one
PositionOf(a) == Balance(State(db), a) + cache.bal[a]
ConfirmedPositions(u, i) ==
    {a \in OfUser(State(db).bound, i, u) : PositionOf(a) > 0}
FirstBindPositions(u, i) ==
    {a \in OfUser(Binds(evs), i, u) \ ConfirmedPositions(u, i) : cache.bal[a] > 0}
UserStaking(u, i) ==
    SumFunctionOnSet([a \in Addr |-> PositionOf(a)], ConfirmedPositions(u, i))
        + SumDelta(cache.bal, FirstBindPositions(u, i))

\* GetStakeRewardBalanceByUserAddress: claims deducted from what is claimable
ClaimedRows == {t \in Mined(Blocks(db)) : TxOf[t].op = "claim" /\ TxOf[t].valid}
PendingClaims == {t \in evs : TxOf[t].op = "claim" /\ TxOf[t].valid}
Deducted == ClaimedRows \cup PendingClaims

-----------------------------------------------------------------------------
\* Properties

\* A synchronisation that runs to its end leaves exactly the messages of the
\* mempool it listed in stake_mempool_events and among the pending rows of
\* fip101_inscription_events, whatever earlier incomplete, failed or killed
\* ones left behind (RunProtocolWriteFlow deletes what is stored and not
\* current).
SyncedTables ==
    pc = "synced" =>
        /\ evs = EventTxs(job.list)
        /\ PendingInscriptions = Protocol(job.list)

\* What the node lists is not committed already (it may be after a
\* reorganisation between the rollback check and the listing), every input is
\* resolved, and spends what the confirmed state counts or what the mempool
\* itself pays.
Accounted ==
    /\ job.list \cap Mined(Blocks(db)) = {}
    /\ job.lost = {}
    /\ Spends(job.list) \subseteq State(db).utxo \cup Pays(job.list)

SumAmounts(S) == SumFunctionOnSet([r \in S |-> r.amount], S)

\* After a synchronisation the four views of pending stake agree: the total
\* of GetIndexers is the one of GetIndexerStatus, the stakers of an indexer
\* add up to its total, and each staker sees the same amount in
\* GetUserStakings.  They come from different keys, written by
\* saveMempoolStakeBalanceDeltas and saveMempoolIndexerStakerSnapshots.
PendingViewsAgree ==
    pc = "synced" /\ Accounted =>
        /\ IndexersTotal = StatusTotal
        /\ \A i \in Indexers : LET s == Stakers(i) IN
            /\ IndexerTotal(i) = SumAmounts(s)
            /\ \A u \in Users : UserStaking(u, i) = SumAmounts({r \in s : r.user = u})

\* The pending total of an indexer is its confirmed total once a block with
\* the listed mempool is committed: the deltas of
\* accumulateMempoolStakeBalanceDelta, first binds included, foretell what
\* the parsing of blocks computes in another way.
PendingForetellsCommit ==
    pc = "synced" /\ Accounted =>
        LET after == ApplyBlock(State(db), job.list)
        IN  \A i \in Indexers : IndexerTotal(i) = StakeTotal(after, i)

\* A claim is never deducted from the claimable amount twice, as confirmed
\* and as pending, as long as no block was reorganised away: the events are
\* reset before blocks are parsed.  (A reorganisation between the rollback
\* check and the listing puts a committed claim among the pending ones as
\* well, until the next rollback or synchronisation.)
NeverDeductedTwice == ~reorged => ClaimedRows \cap PendingClaims = {}

\* A staker shown as pending is one whose amount the mempool changes, and
\* the other way round (the pending set of saveMempoolIndexerStakerSnapshots
\* that listStakersByZSet reads), as long as no user has two stake addresses
\* with one indexer (MempoolTwo.cfg shows one who has).
PendingMeansAffected ==
    pc = "synced" =>
        \A i \in Indexers : \A r \in Stakers(i) :
            r.pending <=> r.amount # StakeScore(State(db), i, r.user)

\* A committed inscription event keeps its height while its block is on the
\* best chain.
EventsKept ==
    pc = "plan" /\ OnChain =>
        \A h \in 1 .. Len(db) :
            \A t \in Protocol(db[h].block.txs) : insc[t] = h

\* Neither the upsert nor the clean-up of the synchronisation, which share the
\* table, take a committed event back to pending or delete it, as long as no
\* block was reorganised away.  (It fails when the node leaves a branch during
\* a synchronisation and returns to it.)
ConfirmedEventsKept == ~reorged => EventsKept

\* Between two passes of the loop the status field holds the sum of the
\* stored indexer deltas (both are written by saveMempoolStakeBalanceDeltas).
StatusAppliesDeltas ==
    pc = "idle" => cache.total = SumFunctionOnSet(cache.idx, Indexers)

\* A claim that is deducted stays deducted while it is in the mempool or on
\* the best chain.
ClaimStaysDeducted ==
    [][\A t \in Deducted :
            t \in pool' \cup Mined(chain') => t \in Deducted']_vars

\* When the node has come to rest, synchronisations keep completing and, from
\* some point on, each leaves the events of the mempool the node has.
FollowsPool ==
    /\ []<>(pc = "synced")
    /\ <>[](pc = "synced" => evs = EventTxs(pool) /\ Blocks(db) = chain)

=============================================================================
