-------------------------- MODULE BlockSyncProofs --------------------------
(***************************************************************************)
(* The block indexer, for every block tree, batch size, lookback,          *)
(* retention and set of faults: first the inductive invariant and its      *)
(* types; then that the heights stay in order, and the theorems that       *)
(* follow: type correctness, the committed prefix, write-ahead, stability  *)
(* of applied artifacts, refinement of IndexLog.                           *)
(***************************************************************************)
EXTENDS BlockSync, FiniteSetTheorems, SequenceTheorems, WellFoundedInduction,
        TLAPS

\* A nonempty set of naturals has a least element, and Min is it.
LEMMA MinProperties ==
    ASSUME NEW T, T \subseteq Nat, T # {}
    PROVE  Min(T) \in T /\ \A y \in T : Min(T) <= y
<1>1. \E x \in T : \A y \in T : ~ (<<y, x>> \in OpToRel(<, Nat))
  BY NatLessThanWellFounded, WFMin, Zenon
<1>2. \A x, y \in Nat : y < x => <<y, x>> \in OpToRel(<, Nat)
  BY Zenon DEF OpToRel
<1>3. \E x \in T : \A y \in T : ~ (y < x)
  BY <1>1, <1>2, Zenon
<1>4. \E x \in T : \A y \in T : x <= y
  BY <1>3
<1>. QED
  BY <1>4, Zenon DEF Min

\* Max of a nonempty interval 1 .. n is n.
LEMMA MaxInterval ==
    ASSUME NEW n \in Nat, n >= 1
    PROVE  Max(1 .. n) = n
<1>1. \E x \in 1 .. n : \A y \in 1 .. n : x >= y
  OBVIOUS
<1>2. Max(1 .. n) \in 1 .. n /\ \A y \in 1 .. n : Max(1 .. n) >= y
  BY <1>1 DEF Max
<1>. QED
  BY <1>2

\* Max and Min of two integers.
LEMMA MaxMinPair ==
    ASSUME NEW a \in Int, NEW b \in Int
    PROVE  /\ Max({a, b}) \in {a, b} /\ Max({a, b}) >= a /\ Max({a, b}) >= b
           /\ Min({a, b}) \in {a, b} /\ Min({a, b}) <= a /\ Min({a, b}) <= b
<1>1. \E x \in {a, b} : \A y \in {a, b} : x >= y
  OBVIOUS
<1>2. \E x \in {a, b} : \A y \in {a, b} : x =< y
  OBVIOUS
<1>3. Max({a, b}) \in {a, b} /\ \A y \in {a, b} : Max({a, b}) >= y
  BY <1>1 DEF Max
<1>4. Min({a, b}) \in {a, b} /\ \A y \in {a, b} : Min({a, b}) =< y
  BY <1>2 DEF Min
<1>. QED
  BY <1>3, <1>4

\* Max and Min of two naturals.
LEMMA MaxMinNat ==
    ASSUME NEW a \in Nat, NEW b \in Nat
    PROVE  Max({a, b}) \in Nat /\ Min({a, b}) \in Nat
<1>1. a \in Int /\ b \in Int
  OBVIOUS
<1>2. Max({a, b}) \in {a, b} /\ Min({a, b}) \in {a, b}
  BY <1>1, MaxMinPair, Zenon
<1>. QED
  BY <1>2

\* The balance arithmetic stays in the integers.
LEMMA DeltaClosed ==
    /\ Zero \in Delta
    /\ \A f, g \in Delta : Plus(f, g) \in Delta /\ Minus(f, g) \in Delta
    /\ \A f \in Delta : \A S : Masked(f, S) \in Delta
    /\ \A f, g \in Delta : ZAdd(f, g) \in Delta
    /\ \A os \in SUBSET Outpoint : CountByOwner(os) \in Delta
<1>1. Zero \in Delta
  BY DEF Zero, Delta
<1>2. \A f, g \in Delta : Plus(f, g) \in Delta /\ Minus(f, g) \in Delta
  BY DEF Plus, Minus, Delta
<1>3. \A f \in Delta : \A S : Masked(f, S) \in Delta
  BY DEF Masked, Delta
<1>4. ASSUME NEW f \in Delta, NEW g \in Delta
      PROVE  ZAdd(f, g) \in Delta
  <2>1. ASSUME NEW a \in Addr
        PROVE  Max({0, f[a] + g[a]}) \in Int
    <3>1. 0 \in Int /\ f[a] + g[a] \in Int
      BY DEF Delta
    <3>2. Max({0, f[a] + g[a]}) \in {0, f[a] + g[a]}
      BY <3>1, MaxMinPair, Zenon
    <3>. QED
      BY <3>1, <3>2
  <2>. QED
    BY <2>1 DEF ZAdd, Delta
<1>5. ASSUME NEW os \in SUBSET Outpoint
      PROVE  CountByOwner(os) \in Delta
  <2>1. ASSUME NEW a \in Addr
        PROVE  Cardinality({o \in os : Owner[o] = a}) \in Int
    <3>1. IsFiniteSet({o \in os : Owner[o] = a})
      BY FS_Subset, BlockAssumption
    <3>2. Cardinality({o \in os : Owner[o] = a}) \in Nat
      BY <3>1, FS_CardinalityType
    <3>. QED
      BY <3>2
  <2>. QED
    BY <2>1 DEF CountByOwner, Delta
<1>. QED
  BY <1>1, <1>2, <1>3, <1>4, <1>5

------------------------------------------------------------------------------
(***************************************************************************)
(* Type correctness and the heights, proved together: the bounds on at,    *)
(* next and from in TypeOK need HeightsInv.                                *)
(***************************************************************************)
IInv == TypeOK /\ HeightsInv

\* A function on 1 .. n is a sequence.
LEMMA FunctionIsSeq ==
    ASSUME NEW S, NEW n \in Nat, NEW f \in [1 .. n -> S]
    PROVE  f \in Seq(S)
OBVIOUS

\* A best chain is a sequence of blocks.
LEMMA ChainsAreSeqs == \A c \in Chains : c \in Seq(Block)
<1>. SUFFICES ASSUME NEW c \in Chains PROVE c \in Seq(Block)
  OBVIOUS
<1>1. PICK n \in Height : c \in [1 .. n -> Block]
  BY DEF Chains
<1>2. n \in Nat
  BY BoundAssumption DEF Height
<1>. QED
  BY <1>1, <1>2

\* A fresh database and an idle process satisfy the invariant.
LEMMA InitIInv == Init => IInv
<1>. SUFFICES ASSUME Init PROVE IInv
  OBVIOUS
<1>1. Zero \in Delta
  BY DeltaClosed
<1>2. NoParse \in ParseData
  BY <1>1 DEF NoParse, ParseData
<1>3. NodeType
  BY ChainsAreSeqs DEF Init, NodeType
<1>4. TablesType
  <2>1. 0 \in 0 .. MaxHeight
    BY BoundAssumption
  <2>. QED
    BY <1>1, <2>1 DEF Init, TablesType, NoRows
<1>5. RedisType
  BY <1>1, BoundAssumption DEF Init, RedisType, NoCursor
<1>6. LoopType
  <2>1. 1 \in 1 .. MaxHeight + 1 /\ 0 \in NoCursor .. MaxHeight + 1 /\ 0 \in 0 .. MaxHeight
    BY BoundAssumption DEF NoCursor
  <2>. QED
    BY <2>1, Zenon DEF Init, LoopType, NoRows, Steps
<1>7. BatchType
  BY <1>1, <1>2 DEF Init, BatchType, NoStage
<1>8. StoreInv
  <2>1. 0 \in 0 .. MaxHeight /\ 1 .. 0 = {}
    BY BoundAssumption
  <2>2. WriteAhead
    BY DEF Init, WriteAhead, NoCursor, Height
  <2>. QED
    BY <2>1, <2>2 DEF Init, StoreInv
<1>9. PhaseInv
  BY DEF Init, PhaseInv, BeforeCursors, AfterCursors, InParse, Submitting, RollingBack
<1>. QED
  BY <1>3, <1>4, <1>5, <1>6, <1>7, <1>8, <1>9 DEF IInv, TypeOK, HeightsInv

------------------------------------------------------------------------------
(***************************************************************************)
(* Heights computed from the stores.                                       *)
(***************************************************************************)
\* GetLatestCommittedSyncBlockHeight on a prefix of the heights.
LEMMA LatestOfPrefix ==
    ASSUME NEW n \in 0 .. MaxHeight, committed = 1 .. n
    PROVE  Latest = IF n = 0 THEN NoCursor ELSE n
<1>1. CASE n = 0
  BY <1>1 DEF Latest
<1>2. CASE n # 0
  <2>1. n \in Nat /\ n >= 1 /\ 1 \in 1 .. n
    BY <1>2, BoundAssumption
  <2>. QED
    BY <1>2, <2>1, MaxInterval DEF Latest
<1>. QED
  BY <1>1, <1>2

\* The range of the latest committed height and of the first compared one.
LEMMA LatestRange ==
    ASSUME StoreInv
    PROVE  /\ Latest \in NoCursor .. MaxHeight
           /\ Latest # 0
           /\ committed = 1 .. Latest
           /\ CheckStart \in Nat \ {0}
<1>. USE BoundAssumption DEF NoCursor
<1>1. PICK n \in 0 .. MaxHeight : committed = 1 .. n
  BY DEF StoreInv
<1>2. Latest = IF n = 0 THEN NoCursor ELSE n
  BY <1>1, LatestOfPrefix
<1>3. Latest \in NoCursor .. MaxHeight /\ Latest # 0 /\ committed = 1 .. Latest
  BY <1>1, <1>2
<1>4. 1 \in Int /\ Latest + 1 - Lookback \in Int
  BY <1>3
<1>5. /\ Max({1, Latest + 1 - Lookback}) \in {1, Latest + 1 - Lookback}
      /\ Max({1, Latest + 1 - Lookback}) >= 1
  BY <1>4, MaxMinPair, Zenon
<1>. QED
  BY <1>3, <1>4, <1>5 DEF CheckStart

\* The height a rollback starts from is a committed one.
LEMMA MismatchIsCommitted ==
    ASSUME StoreInv, Latest # NoCursor, Mismatch # {}
    PROVE  Min(Mismatch) \in committed /\ Min(Mismatch) \in 1 .. MaxHeight
<1>. USE LatestRange DEF NoCursor
<1>1. Mismatch \subseteq CheckStart .. Latest
  BY DEF Mismatch
<1>2. Mismatch \subseteq Nat
  BY <1>1, BoundAssumption
<1>3. Min(Mismatch) \in Mismatch
  BY <1>2, MinProperties, Zenon
<1>4. Min(Mismatch) \in CheckStart .. Latest
  BY <1>1, <1>3, Zenon
<1>. QED
  BY <1>4, BoundAssumption

\* The heights at which a step indexes a table exist: the block being parsed,
\* the last block of a batch, the height a rollback undoes or starts from.
LEMMA PhaseHeights ==
    ASSUME TablesType, LoopType, PhaseInv
    PROVE  /\ pc \in {"fast", "final"} => at \in Height /\ seen[at] \in Block
           /\ pc \in Submitting => /\ Stage \in 0 .. MaxHeight
                                   /\ next <= Stage
           /\ pc \in {"check", "fetch"} => at <= MaxHeight
           /\ pc \in {"rbRealtime", "rbUtxo"} /\ at >= from => at \in Height
           /\ pc \in RollingBack => from \in Height
<1>1. /\ next \in Int /\ next >= 1 /\ next <= MaxHeight + 1
      /\ at \in Int /\ at <= MaxHeight + 1
      /\ from \in Int /\ MaxHeight \in Nat
  BY BoundAssumption DEF LoopType, NoCursor
<1>2. pc \in {"fast", "final"} => at \in Height /\ seen[at] \in Block
  BY DEF PhaseInv, Parsing, LoopType
<1>3. pc \in Submitting => next < at
  BY DEF PhaseInv
<1>4. pc \in Submitting => Stage \in 0 .. MaxHeight /\ next <= Stage
  BY <1>1, <1>3 DEF Stage
<1>5. pc \in {"check", "fetch", "rbRealtime", "rbUtxo"} => at <= MaxHeight
  BY DEF PhaseInv
<1>6. pc \in RollingBack => from \in Height
  BY DEF PhaseInv, TablesType
<1>7. pc \in {"rbRealtime", "rbUtxo"} => from \in Height
  BY <1>6 DEF RollingBack
<1>8. pc \in {"rbRealtime", "rbUtxo"} /\ at >= from => at \in Height
  BY <1>1, <1>5, <1>7 DEF Height
<1>. QED
  BY <1>2, <1>4, <1>5, <1>6, <1>8

------------------------------------------------------------------------------
(***************************************************************************)
(* Every step keeps the types.                                             *)
(***************************************************************************)
\* A fault is counted, and the loop starts over or the process stops.
LEMMA CutShortType ==
    CutShort /\ faults \in Nat => faults' \in Nat /\ pc' \in {"top", "down"}
BY DEF CutShort, Budget

\* The node's side keeps its types when it is left alone.
LEMMA KeepNode == NodeType /\ UNCHANGED node => NodeType'
BY DEF NodeType, node

\* So do the tables.
LEMMA KeepTables == TablesType /\ UNCHANGED pg => TablesType'
BY DEF TablesType, pg

\* So does Redis.
LEMMA KeepRedis == RedisType /\ UNCHANGED <<utxoDb, balanceDb>> => RedisType'
BY DEF RedisType, utxoDb, balanceDb

\* So does the batch.
LEMMA KeepBatch == BatchType /\ UNCHANGED batchMem => BatchType'
BY DEF BatchType, batchMem

\* So does the process memory, whatever the program counter and NeedStop do.
LEMMA KeepMem ==
    ASSUME LoopType, BatchType, UNCHANGED mem,
           faults' \in Nat, pc' \in Steps, needStop' \in BOOLEAN
    PROVE  LoopType' /\ BatchType'
<1>1. LoopType'
  BY DEF LoopType, mem
<1>2. BatchType'
  BY DEF BatchType, mem
<1>. QED
  BY <1>1, <1>2

\* A step that changes only the loop's variables and the batch.
LEMMA KeepStores ==
    ASSUME TypeOK, UNCHANGED <<node, pg, utxoDb, balanceDb>>, LoopType', BatchType'
    PROVE  TypeOK'
<1>1. NodeType' /\ TablesType' /\ RedisType'
  BY KeepNode, KeepTables, KeepRedis DEF TypeOK
<1>. QED
  BY <1>1 DEF TypeOK

\* A step that only moves the program counter or NeedStop.
LEMMA Quiet ==
    ASSUME TypeOK, UNCHANGED <<node, pg, utxoDb, balanceDb, mem>>,
           faults' \in Nat, pc' \in Steps, needStop' \in BOOLEAN
    PROVE  TypeOK'
<1>1. LoopType' /\ BatchType'
  BY KeepMem DEF TypeOK
<1>. QED
  BY <1>1, KeepStores

\* One getblockhash records a block of the node's chain.
LEMMA WalkType ==
    ASSUME TypeOK, NEW lo \in Nat \ {0}, Walk(lo), pc \in Steps, at <= MaxHeight
    PROVE  TypeOK'
<1>0. /\ faults \in Nat /\ at \in NoCursor .. MaxHeight + 1
      /\ seen \in [Height -> Block \cup {NoBlock}] /\ chain \in Seq(Block)
  BY DEF TypeOK, LoopType, NodeType
<1>1. at \in Height /\ at - 1 \in NoCursor .. MaxHeight + 1
  BY <1>0, BoundAssumption DEF Walk, Height, NoCursor
<1>2. at <= Len(chain) => chain[at] \in Block
  BY <1>0, <1>1, BoundAssumption DEF Height
<1>3. at' \in NoCursor .. MaxHeight + 1
  BY <1>0, <1>1, Zenon DEF Walk
<1>4. seen' \in [Height -> Block \cup {NoBlock}]
  BY <1>0, <1>1, <1>2, Zenon DEF Walk
<1>5. faults' \in Nat /\ pc' \in Steps
  BY <1>0 DEF Walk, RpcFails, Budget, Steps
<1>6. UNCHANGED <<node, pg, utxoDb, balanceDb, needStop, next, from, binding,
                  rbBound, batchMem>>
  BY DEF Walk
<1>7. LoopType'
  BY <1>3, <1>4, <1>5, <1>6, Zenon DEF TypeOK, LoopType, binding
<1>8. BatchType'
  BY <1>6, KeepBatch DEF TypeOK
<1>. QED
  BY <1>6, <1>7, <1>8, KeepStores

\* Every step of the node, of the process and of a fault keeps the types.
LEMMA EnvironmentType == TypeOK /\ Environment => TypeOK'
<1>. SUFFICES ASSUME TypeOK, Environment PROVE TypeOK'
  OBVIOUS
<1>0. faults \in Nat /\ needStop \in BOOLEAN /\ pc \in Steps
  BY DEF TypeOK, LoopType
<1>1. ASSUME NodeType', UNCHANGED <<faults, pg, utxoDb, balanceDb, pc, needStop, mem>>
      PROVE  TypeOK'
  <2>1. LoopType' /\ BatchType'
    BY <1>0, <1>1, KeepMem DEF TypeOK
  <2>2. TablesType' /\ RedisType'
    BY <1>1, KeepTables, KeepRedis, SMTT(30) DEF TypeOK
  <2>. QED
    BY <1>1, <2>1, <2>2 DEF TypeOK
<1>2. CASE NodeExtends
  <2>1. chain \in Seq(Block) /\ peak \in Nat /\ reorgs \in Nat
    BY DEF TypeOK, NodeType
  <2>2. chain' \in Seq(Block) /\ UNCHANGED reorgs /\ peak' = Max({peak, Len(chain')})
    BY <1>2, <2>1 DEF NodeExtends
  <2>3. Len(chain') \in Nat
    BY <2>2
  <2>4. Max({peak, Len(chain')}) \in Nat
    BY <2>1, <2>3, MaxMinNat, Zenon
  <2>5. NodeType'
    BY <2>1, <2>2, <2>4 DEF NodeType
  <2>. QED
    BY <1>1, <1>2, <2>5, Zenon DEF NodeExtends
<1>3. ASSUME NEW c \in Chains, NodeReorganises(c) PROVE TypeOK'
  <2>1. c \in Seq(Block) /\ peak \in Nat /\ reorgs \in Nat
    BY ChainsAreSeqs DEF TypeOK, NodeType
  <2>2. Len(c) \in Nat
    BY <2>1
  <2>3. Max({peak, Len(c)}) \in Nat
    BY <2>1, <2>2, MaxMinNat, Zenon
  <2>4. chain' = c /\ reorgs' = reorgs + 1 /\ peak' = Max({peak, Len(c)})
    BY <1>3 DEF NodeReorganises
  <2>5. NodeType'
    BY <2>1, <2>3, <2>4 DEF NodeType
  <2>. QED
    BY <1>1, <1>3, <2>5 DEF NodeReorganises
<1>4. CASE Signal
  BY <1>0, <1>4, Quiet DEF Signal, Budget
<1>5. CASE Boot
  <2>1. NoParse \in ParseData /\ NoRows \in [Height -> Block \cup {NoBlock}]
    BY DeltaClosed, Zenon DEF NoParse, ParseData, NoRows
  <2>2. next' \in 1 .. MaxHeight + 1 /\ at' \in NoCursor .. MaxHeight + 1
        /\ from' \in 0 .. MaxHeight /\ loaded' \in 0 .. MaxHeight
    BY <1>5, BoundAssumption DEF Boot, NoCursor
  <2>3. LoopType'
    BY <1>0, <1>5, <2>1, <2>2, Zenon DEF Boot, LoopType, Steps
  <2>4. BatchType'
    BY <1>5, <2>1, DeltaClosed DEF Boot, BatchType, NoStage
  <2>. QED
    BY <1>5, <2>3, <2>4, KeepStores DEF Boot
<1>6. CASE StorageFails
  BY <1>0, <1>6, Quiet, CutShortType DEF StorageFails, Steps
<1>7. CASE Crash
  BY <1>0, <1>7, Quiet DEF Crash, Budget, Steps
<1>. QED
  BY <1>2, <1>3, <1>4, <1>5, <1>6, <1>7 DEF Environment

\* The consistency check and the walk over the node's hashes keep the types.
LEMMA CheckType ==
    IInv /\ (Ensure \/ Exit \/ CheckWalk \/ CheckPasses \/ CheckRollsBack) => TypeOK'
<1>. SUFFICES ASSUME TypeOK, StoreInv, PhaseInv,
                     Ensure \/ Exit \/ CheckWalk \/ CheckPasses \/ CheckRollsBack
              PROVE  TypeOK'
  BY DEF IInv, HeightsInv
<1>0. faults \in Nat /\ needStop \in BOOLEAN /\ pc \in Steps
  BY DEF TypeOK, LoopType
<1>1. CASE Ensure
  <2>1. next' \in 1 .. MaxHeight + 1 /\ at' \in NoCursor .. MaxHeight + 1
    BY <1>1, LatestRange, BoundAssumption DEF Ensure, NoCursor
  <2>2. seen' \in [Height -> Block \cup {NoBlock}]
    BY <1>1, Zenon DEF Ensure, NoRows
  <2>3. LoopType'
    BY <1>1, <2>1, <2>2, Zenon DEF Ensure, TypeOK, LoopType, binding, Steps
  <2>4. BatchType'
    BY <1>1, KeepBatch DEF Ensure, TypeOK
  <2>. QED
    BY <1>1, <2>3, <2>4, KeepStores, Zenon DEF Ensure
<1>2. CASE Exit
  BY <1>0, <1>2, Quiet DEF Exit, Steps
<1>3. CASE CheckWalk
  <2>1. CheckStart \in Nat \ {0}
    BY LatestRange
  <2>2. at <= MaxHeight
    BY <1>3 DEF CheckWalk, PhaseInv
  <2>. QED
    BY <1>0, <1>3, <2>1, <2>2, WalkType DEF CheckWalk
<1>4. CASE CheckPasses
  BY <1>0, <1>4, Quiet, Zenon DEF CheckPasses, Steps
<1>5. CASE CheckRollsBack
  <2>1. Min(Mismatch) \in 1 .. MaxHeight
    BY <1>5, MismatchIsCommitted, Zenon DEF CheckRollsBack
  <2>2. /\ at \in NoCursor .. MaxHeight + 1 /\ from \in 0 .. MaxHeight
        /\ rtCursor \in NoCursor .. MaxHeight /\ rbBound \subseteq Addr
    BY Zenon DEF TypeOK, LoopType, RedisType
  <2>3. at' \in NoCursor .. MaxHeight + 1 /\ from' \in 0 .. MaxHeight
    BY <1>5, <2>1, <2>2, BoundAssumption DEF CheckRollsBack, NoCursor
  <2>4. faults' \in Nat /\ rbBound' \subseteq Addr /\ pc' \in Steps
    BY <1>0, <1>5, <2>2 DEF CheckRollsBack, Budget, Steps
  <2>5. UNCHANGED <<node, pg, utxoDb, balanceDb, needStop, next, seen, binding, batchMem>>
    BY <1>5, Zenon DEF CheckRollsBack
  <2>6. LoopType'
    BY <2>3, <2>4, <2>5, Zenon DEF TypeOK, LoopType, binding
  <2>7. BatchType'
    BY <2>5, KeepBatch DEF TypeOK
  <2>. QED
    BY <2>5, <2>6, <2>7, KeepStores
<1>. QED
  BY <1>1, <1>2, <1>3, <1>4, <1>5

\* The steps of a rollback keep the types.
LEMMA RollbackType == IInv /\ Rollback => TypeOK'
<1>. SUFFICES ASSUME TypeOK, PhaseInv, Rollback PROVE TypeOK'
  BY DEF IInv, HeightsInv
<1>0. /\ faults \in Nat /\ needStop \in BOOLEAN /\ pc \in Steps
      /\ at \in NoCursor .. MaxHeight + 1 /\ from \in 0 .. MaxHeight
  BY Zenon DEF TypeOK, LoopType
<1>a. NodeType /\ TablesType /\ RedisType /\ LoopType /\ BatchType
  BY DEF TypeOK
<1>1. CASE RbRealtime
  <2>1. at \in Height
    BY <1>1, <1>a, PhaseHeights, Zenon DEF RbRealtime
  <2>2. deltas[at] \in Delta /\ balance \in Delta /\ score \in Delta
    BY <1>a, <2>1, Zenon DEF TablesType, RedisType
  <2>3. ASSUME NEW S, Unapply(S) PROVE balance' \in Delta /\ score' \in Delta
    BY <2>2, <2>3, DeltaClosed, Zenon DEF Unapply
  <2>4. balance' \in Delta /\ score' \in Delta
    BY <1>1, <2>3, Zenon DEF RbRealtime
  <2>5. faults' \in Nat /\ pc' \in Steps /\ (at' = at \/ at' = at - 1)
    BY <1>0, <1>1, CutShortType, Zenon DEF RbRealtime, Steps
  <2>6. at' \in NoCursor .. MaxHeight + 1
    BY <2>1, <2>5, BoundAssumption DEF Height, NoCursor
  <2>7. UNCHANGED <<node, pg, utxoDb, rtCursor, needStop, next, from, seen, binding,
                    rbBound, batchMem>>
    BY <1>1, Zenon DEF RbRealtime
  <2>8. RedisType'
    BY <1>a, <2>4, <2>7, Zenon DEF RedisType, utxoDb
  <2>9. LoopType'
    BY <1>a, <2>5, <2>6, <2>7, Zenon DEF LoopType, binding
  <2>. QED
    BY <1>a, <2>7, <2>8, <2>9, KeepNode, KeepTables, KeepBatch DEF TypeOK
<1>2. CASE RbRealtimeCursor
  <2>1. rtCursor' \in NoCursor .. MaxHeight /\ at' \in NoCursor .. MaxHeight + 1
    BY <1>0, <1>a, <1>2, BoundAssumption
       DEF RbRealtimeCursor, RollbackTo, RedisType, NoCursor
  <2>2. /\ UNCHANGED <<node, faults, pg, utxoDb, balance, score, needStop, next,
                       from, seen, binding, rbBound, batchMem>>
        /\ pc' = "rbUtxo"
    BY <1>2, Zenon DEF RbRealtimeCursor
  <2>3. RedisType'
    BY <1>a, <2>1, <2>2, Zenon DEF RedisType, utxoDb
  <2>4. LoopType'
    BY <1>a, <2>1, <2>2, Zenon DEF LoopType, binding, Steps
  <2>. QED
    BY <1>a, <2>2, <2>3, <2>4, KeepNode, KeepTables, KeepBatch, Zenon DEF TypeOK
<1>3. CASE RbUtxo
  <2>1. at \in Height
    BY <1>3, <1>a, PhaseHeights, Zenon DEF RbUtxo
  <2>2. undoSpent[at] \subseteq Outpoint /\ utxo \subseteq Outpoint
    BY <1>a, <2>1, Zenon DEF TablesType, RedisType
  <2>3. utxo' \subseteq Outpoint
    BY <1>3, <2>2, Zenon DEF RbUtxo
  <2>4. faults' \in Nat /\ pc' \in Steps /\ (at' = at \/ at' = at - 1)
    BY <1>0, <1>3, CutShortType, Zenon DEF RbUtxo, Steps
  <2>5. at' \in NoCursor .. MaxHeight + 1
    BY <2>1, <2>4, BoundAssumption DEF Height, NoCursor
  <2>6. UNCHANGED <<node, pg, utxoCursor, balanceDb, needStop, next, from, seen,
                    binding, rbBound, batchMem>>
    BY <1>3, Zenon DEF RbUtxo
  <2>7. RedisType'
    BY <1>a, <2>3, <2>6 DEF RedisType, balanceDb
  <2>8. LoopType'
    BY <1>a, <2>4, <2>5, <2>6, Zenon DEF LoopType, binding
  <2>. QED
    BY <1>a, <2>6, <2>7, <2>8, KeepNode, KeepTables, KeepBatch, Zenon DEF TypeOK
<1>4. CASE RbUtxoCursor
  <2>1. utxoCursor' \in NoCursor .. MaxHeight
    BY <1>0, <1>4, BoundAssumption DEF RbUtxoCursor, RollbackTo, NoCursor
  <2>2. /\ UNCHANGED <<node, faults, pg, utxo, balanceDb, needStop, mem>>
        /\ pc' \in Steps
    BY <1>4, Zenon DEF RbUtxoCursor, Steps
  <2>3. RedisType'
    BY <1>a, <2>1, <2>2, Zenon DEF RedisType, balanceDb
  <2>. QED
    BY <1>0, <1>a, <2>2, <2>3, KeepNode, KeepTables, KeepMem, Zenon DEF TypeOK
<1>5. ASSUME UNCHANGED <<node, utxoDb, balanceDb, needStop, mem>>,
             faults' \in Nat, pc' \in Steps, TablesType'
      PROVE  TypeOK'
  BY <1>0, <1>a, <1>5, KeepNode, KeepRedis, KeepMem, Zenon DEF TypeOK
<1>6. CASE RbStake
  <2>1. TablesType'
    BY <1>a, <1>6, Zenon DEF RbStake, TablesType, blocksTab, artifacts
  <2>. QED
    BY <1>0, <1>5, <1>6, <2>1, Zenon DEF RbStake, Steps
<1>7. CASE RbArtifacts
  <2>1. TablesType'
    BY <1>a, <1>7, DeltaClosed, Zenon DEF RbArtifacts, TablesType, blocksTab
  <2>. QED
    BY <1>0, <1>5, <1>7, <2>1, Zenon DEF RbArtifacts, Steps
<1>8. CASE RbBlocks
  <2>1. TablesType'
    BY <1>a, <1>8, Zenon DEF RbBlocks, TablesType, artifacts
  <2>2. from \in Height
    BY <1>8, <1>a, PhaseHeights, Zenon DEF RbBlocks, RollingBack
  <2>3. next' = from \/ next' = next
    BY <1>8, Zenon DEF RbBlocks
  <2>4. next' \in 1 .. MaxHeight + 1
    BY <1>a, <2>2, <2>3, BoundAssumption DEF LoopType, Height
  <2>5. faults' \in Nat /\ pc' \in Steps
    BY <1>0, <1>8, CutShortType, Zenon DEF RbBlocks, Steps
  <2>6. UNCHANGED <<node, utxoDb, balanceDb, needStop, at, from, seen, binding,
                    rbBound, batchMem>>
    BY <1>8, Zenon DEF RbBlocks
  <2>7. LoopType'
    BY <1>a, <2>4, <2>5, <2>6, Zenon DEF LoopType, binding
  <2>. QED
    BY <1>a, <2>1, <2>6, <2>7, KeepNode, KeepRedis, KeepBatch, Zenon DEF TypeOK
<1>. QED
  BY <1>1, <1>2, <1>3, <1>4, <1>6, <1>7, <1>8 DEF Rollback

\* Loading the bindings and fetching the next blocks keep the types.
LEMMA FetchType ==
    IInv /\ (LoadBindings \/ FetchWalk \/ FetchIdle \/ FetchDone) => TypeOK'
<1>. SUFFICES ASSUME TypeOK, PhaseInv,
                     LoadBindings \/ FetchWalk \/ FetchIdle \/ FetchDone
              PROVE  TypeOK'
  BY DEF IInv, HeightsInv
<1>a. TablesType /\ LoopType /\ BatchType
  BY DEF TypeOK
<1>0. /\ faults \in Nat /\ needStop \in BOOLEAN /\ pc \in Steps
      /\ at \in NoCursor .. MaxHeight + 1 /\ next \in 1 .. MaxHeight + 1
      /\ tracked \subseteq Addr /\ loaded \in 0 .. MaxHeight
      /\ seen \in [Height -> Block \cup {NoBlock}]
  BY <1>a, Zenon DEF LoopType
<1>1. CASE LoadBindings
  <2>1. next + Batch \in Int /\ MaxHeight \in Int
    BY <1>0, BoundAssumption
  <2>2. /\ Min({next + Batch, MaxHeight}) \in {next + Batch, MaxHeight}
        /\ Min({next + Batch, MaxHeight}) <= MaxHeight
    BY <2>1, MaxMinPair, Zenon
  <2>3. Min({next + Batch, MaxHeight}) \in NoCursor .. MaxHeight + 1
    BY <1>0, <2>1, <2>2, BoundAssumption, SMTT(30) DEF NoCursor
  <2>4. at' \in NoCursor .. MaxHeight + 1 /\ seen' \in [Height -> Block \cup {NoBlock}]
    BY <1>0, <1>1, <2>3, Zenon DEF LoadBindings, NoRows
  <2>5. tracked' \subseteq Addr
    BY <1>0, <1>1, Zenon DEF LoadBindings, LoadedTo, Kept
  <2>6. loaded' \in 0 .. MaxHeight
    BY <1>0, <1>1, BoundAssumption, SMTT(30) DEF LoadBindings, KeptTo
  <2>7. faults' \in Nat /\ pc' \in Steps
    BY <1>0, <1>1, CutShortType, Zenon DEF LoadBindings, Steps
  <2>8. UNCHANGED <<node, pg, utxoDb, balanceDb, needStop, next, from, rbBound, batchMem>>
    BY <1>1, Zenon DEF LoadBindings
  <2>9. LoopType'
    BY <1>a, <2>4, <2>5, <2>6, <2>7, <2>8, Zenon DEF LoopType
  <2>. QED
    BY <1>a, <2>8, <2>9, KeepBatch, KeepStores, Zenon
<1>2. CASE FetchWalk
  <2>1. next \in Nat \ {0}
    BY <1>0
  <2>2. at <= MaxHeight
    BY <1>2, Zenon DEF FetchWalk, PhaseInv
  <2>. QED
    BY <1>0, <1>2, <2>1, <2>2, WalkType, Zenon DEF FetchWalk
<1>3. CASE FetchIdle
  BY <1>0, <1>3, Quiet, Zenon DEF FetchIdle, Steps
<1>4. CASE FetchDone
  <2>1. at' \in NoCursor .. MaxHeight + 1
    BY <1>0, <1>4, BoundAssumption, SMTT(30) DEF FetchDone, NoCursor
  <2>2. NoStage \in [Height -> ParseData]
    BY DeltaClosed, Zenon DEF NoStage, NoParse, ParseData
  <2>3. LoopType'
    BY <1>a, <1>4, <2>1, Zenon DEF FetchDone, LoopType, binding, Steps
  <2>4. BatchType'
    BY <1>a, <1>4, <2>2, Zenon DEF FetchDone, BatchType
  <2>. QED
    BY <1>4, <2>3, <2>4, KeepStores, Zenon DEF FetchDone
<1>. QED
  BY <1>1, <1>2, <1>3, <1>4

\* Parsing keeps the types.
LEMMA ParseType == IInv /\ Parse => TypeOK'
<1>. SUFFICES ASSUME TypeOK, PhaseInv, Parse PROVE TypeOK'
  BY DEF IInv, HeightsInv
<1>a. TablesType /\ LoopType /\ BatchType
  BY DEF TypeOK
<1>0. /\ faults \in Nat /\ needStop \in BOOLEAN /\ pc \in Steps
      /\ at \in NoCursor .. MaxHeight + 1
      /\ seen \in [Height -> Block \cup {NoBlock}] /\ tracked \subseteq Addr
  BY <1>a, Zenon DEF LoopType
<1>b. ASSUME NEW os \in SUBSET Outpoint PROVE TrackedOf(os) \subseteq Outpoint
  BY DEF TrackedOf
<1>1. CASE ParseEnds
  BY <1>0, <1>1, Quiet DEF ParseEnds, Budget, Steps
<1>2. CASE SerialStart
  <2>1. at \in Height /\ seen[at] \in Block
    BY <1>0, <1>2, Zenon DEF SerialStart, Parsing
  <2>2. News[seen[at]] \subseteq Outpoint /\ Spends[seen[at]] \subseteq Outpoint
    BY <2>1, BlockAssumption, Zenon
  <2>. DEFINE new == News[seen[at]]
              keys == Spends[seen[at]]
              inBlock == TrackedOf(keys \cap new)
              batched == (keys \ new) \cap gNew
              stored == TrackedOf(((keys \ new) \ gNew) \cap utxo)
              debit == CountByOwner(TrackedOf(batched) \cup stored)
  <2>3. /\ inBlock \subseteq Outpoint /\ TrackedOf(batched) \subseteq Outpoint
        /\ stored \subseteq Outpoint
    BY <1>b, <2>2, Zenon
  <2>4. /\ new \ keys \subseteq Outpoint
        /\ inBlock \cup TrackedOf(batched) \cup stored \subseteq Outpoint
        /\ TrackedOf(batched) \cup stored \subseteq Outpoint
    BY <2>2, <2>3, Zenon
  <2>5. debit \in Delta
    BY <2>4, DeltaClosed, ZenonT(40)
  <2>6. /\ cur' = [new |-> new \ keys,
                   spent |-> inBlock \cup TrackedOf(batched) \cup stored,
                   delta |-> Minus(Zero, debit)]
        /\ gNew' = gNew \ batched /\ gDel' = gDel \cup stored
        /\ gDelta' = Minus(gDelta, debit)
    BY <1>2, Zenon DEF SerialStart
  <2>7. /\ pc' = "fast"
        /\ UNCHANGED <<node, faults, pg, utxoDb, balanceDb, needStop, next, at, from,
                       seen, binding, rbBound, staged, wait>>
    BY <1>2, Zenon DEF SerialStart
  <2>. HIDE DEF new, keys, inBlock, batched, stored, debit
  <2>8. Minus(Zero, debit) \in Delta /\ Minus(gDelta, debit) \in Delta
    BY <1>a, <2>5, DeltaClosed, Zenon DEF BatchType
  <2>9. cur' \in ParseData
    BY <2>4, <2>6, <2>8, Zenon DEF ParseData
  <2>10. BatchType'
    BY <1>a, <2>3, <2>6, <2>7, <2>8, <2>9, Zenon DEF BatchType
  <2>11. LoopType'
    BY <1>a, <2>7, Zenon DEF LoopType, binding, Steps
  <2>. QED
    BY <2>7, <2>10, <2>11, KeepStores, Zenon
<1>3. CASE FastBlock
  <2>1. at \in Height /\ seen[at] \in Block
    BY <1>a, <1>3, PhaseHeights, Zenon DEF FastBlock
  <2>2. Binds[seen[at]] \in Seq(Addr)
    BY <2>1, BlockAssumption, Zenon
  <2>. DEFINE W == [addr : Addr, height : Height]
  <2>3. ASSUME NEW n \in 0 .. Len(Binds[seen[at]]), BindFirst(n)
        PROVE  wait' \in Seq(W) /\ tracked' \subseteq Addr
    <3>1. \A i \in 1 .. n : Binds[seen[at]][i] \in Addr
      BY <2>2, SMTT(30)
    <3>2. Bound(n) \in [1 .. n -> W]
      BY <2>1, <3>1, Zenon DEF Bound
    <3>3. n \in Nat
      BY <2>2
    <3>4. Bound(n) \in Seq(W)
      BY <3>2, <3>3, FunctionIsSeq, Zenon
    <3>5. wait \in Seq(W)
      BY <1>a, Zenon DEF BatchType
    <3>6. wait' = wait \o Bound(n)
          /\ tracked' = tracked \cup {Binds[seen[at]][i] : i \in 1 .. n}
      BY <2>3, Zenon DEF BindFirst
    <3>. HIDE DEF W
    <3>7. wait' \in Seq(W)
      BY <3>4, <3>5, <3>6, SMTT(30)
    <3>8. tracked' \subseteq Addr
      BY <1>0, <3>1, <3>6, Zenon
    <3>. QED
      BY <3>7, <3>8, Zenon
  <2>4. Len(Binds[seen[at]]) \in 0 .. Len(Binds[seen[at]])
    BY <2>2
  <2>5. wait' \in Seq(W) /\ tracked' \subseteq Addr
    <3>1. wait \in Seq(W)
      BY <1>a DEF BatchType
    <3>2. \/ \E n \in 0 .. Len(Binds[seen[at]]) : BindFirst(n)
          \/ UNCHANGED <<wait, tracked>>
      BY <1>3, <2>4, Zenon DEF FastBlock
    <3>. HIDE DEF W
    <3>. QED
      BY <1>0, <2>3, <3>1, <3>2
  <2>6. faults' \in Nat /\ pc' \in Steps
    BY <1>0, <1>3 DEF FastBlock, Budget, Steps
  <2>7. needStop' \in BOOLEAN
    BY <1>0, <1>3, Zenon DEF FastBlock
  <2>8. UNCHANGED <<node, pg, utxoDb, balanceDb, next, at, from, seen, loaded, rbBound,
                    cur, staged, gNew, gDel, gDelta>>
    BY <1>3, Zenon DEF FastBlock
  <2>9. LoopType'
    BY <1>a, <2>5, <2>6, <2>7, <2>8, Zenon DEF LoopType
  <2>10. BatchType'
    BY <1>a, <2>5, <2>8, Zenon DEF BatchType
  <2>. QED
    BY <2>8, <2>9, <2>10, KeepStores, Zenon
<1>4. CASE Finalize
  <2>1. at \in Height
    BY <1>a, <1>4, PhaseHeights, Zenon DEF Finalize
  <2>. DEFINE new == TrackedOf(cur.new)
              entry == [new |-> new, spent |-> TrackedOf(cur.spent),
                        delta |-> Plus(cur.delta, CountByOwner(new))]
  <2>2. /\ cur.new \subseteq Outpoint /\ cur.spent \subseteq Outpoint
        /\ cur.delta \in Delta /\ gDelta \in Delta
    BY <1>a, Zenon DEF BatchType, ParseData
  <2>3. new \subseteq Outpoint /\ TrackedOf(cur.spent) \subseteq Outpoint
    BY <1>b, <2>2, Zenon
  <2>4. CountByOwner(new) \in Delta
    BY <2>3, DeltaClosed, Zenon
  <2>5. /\ Plus(cur.delta, CountByOwner(new)) \in Delta
        /\ Plus(gDelta, CountByOwner(new)) \in Delta
    BY <2>2, <2>4, DeltaClosed, Zenon
  <2>6. /\ UNCHANGED staged \/ staged' = [staged EXCEPT ![at] = entry]
        /\ gNew' \in {gNew, gNew \cup new}
        /\ gDelta' \in {gDelta, Plus(gDelta, CountByOwner(new))}
        /\ at' \in {at, at + 1} /\ pc' \in {"parsed", "serial"}
    BY <1>4, ZenonT(40) DEF Finalize
  <2>7. UNCHANGED <<node, faults, pg, utxoDb, balanceDb, needStop, next, from, seen,
                    binding, rbBound, cur, gDel, wait>>
    BY <1>4, Zenon DEF Finalize
  <2>. HIDE DEF new
  <2>8. entry \in ParseData
    BY <2>3, <2>5, Zenon DEF ParseData
  <2>. HIDE DEF entry
  <2>9. staged' \in [Height -> ParseData]
    BY <1>a, <2>6, <2>8, Zenon DEF BatchType
  <2>10. BatchType'
    BY <1>a, <2>2, <2>3, <2>5, <2>6, <2>7, <2>9, Zenon DEF BatchType
  <2>11. at' \in NoCursor .. MaxHeight + 1
    BY <2>1, <2>6, BoundAssumption DEF Height, NoCursor
  <2>12. pc' \in Steps
    BY <2>6, Zenon DEF Steps
  <2>13. LoopType'
    BY <1>a, <2>7, <2>11, <2>12, Zenon DEF LoopType, binding
  <2>. QED
    BY <2>7, <2>10, <2>13, KeepStores, Zenon
<1>5. CASE Parsed
  <2>1. pc' \in Steps
    BY <1>5, Zenon DEF Parsed, Steps
  <2>. QED
    BY <1>0, <1>5, <2>1, Quiet, Zenon DEF Parsed
<1>. QED
  BY <1>1, <1>2, <1>3, <1>4, <1>5 DEF Parse

\* The steps of a submit keep the types.
LEMMA SubmitType == IInv /\ Submit => TypeOK'
<1>. SUFFICES ASSUME TypeOK, PhaseInv, Submit PROVE TypeOK'
  BY DEF IInv, HeightsInv
<1>a. NodeType /\ TablesType /\ RedisType /\ LoopType /\ BatchType
  BY DEF TypeOK
<1>0. /\ faults \in Nat /\ needStop \in BOOLEAN /\ pc \in Steps
      /\ tracked \subseteq Addr /\ loaded \in 0 .. MaxHeight
  BY <1>a, Zenon DEF LoopType
<1>b. pc \in Submitting => Stage \in 0 .. MaxHeight
  BY <1>a, PhaseHeights, Zenon
<1>1. CASE Flush
  <2>1. Stage \in 0 .. MaxHeight /\ high \in 0 .. MaxHeight
    BY <1>a, <1>b, <1>1, Zenon DEF Flush, Submitting, TablesType
  <2>2. high \in Int /\ Stage \in Int
    BY <2>1
  <2>3. Max({high, Stage}) \in {high, Stage}
    BY <2>2, MaxMinPair, Zenon
  <2>4. high' \in 0 .. MaxHeight
    BY <1>1, <2>1, <2>3, ZenonT(40) DEF Flush
  <2>5. rows' \in [Height -> Block \cup {NoBlock}] /\ committed' \subseteq Height
    BY <1>a, <1>1, Zenon DEF Flush, TablesType, LoopType
  <2>6. \A h \in Height : /\ staged[h].delta \in Delta
                          /\ staged[h].new \subseteq Outpoint
                          /\ staged[h].spent \subseteq Outpoint
    BY <1>a, SMTT(30) DEF BatchType, ParseData
  <2>7. deltas' \in [Height -> Delta]
    BY <1>a, <1>1, <2>6, ZenonT(40) DEF Flush, TablesType
  <2>8. /\ undoNew' \in [Height -> SUBSET Outpoint]
        /\ undoSpent' \in [Height -> SUBSET Outpoint]
    BY <1>a, <1>1, <2>6, ZenonT(40) DEF Flush, TablesType
  <2>9. /\ UNCHANGED <<node, faults, bindings, utxoDb, balanceDb, needStop, mem>>
        /\ pc' \in Steps
    BY <1>1, Zenon DEF Flush, Steps
  <2>10. TablesType'
    BY <1>a, <2>4, <2>5, <2>7, <2>8, <2>9, Zenon DEF TablesType
  <2>. QED
    BY <1>0, <1>a, <2>9, <2>10, KeepNode, KeepRedis, KeepMem, Zenon DEF TypeOK
<1>2. CASE Persist
  <2>. DEFINE W == [addr : Addr, height : Height]
  <2>0. wait \in Seq(W) /\ <<>> \in Seq(W)
    BY <1>a DEF BatchType
  <2>1. ASSUME NEW n \in 0 .. Len(wait)
        PROVE  Inserted(n) \in [Addr -> Height \cup {NoCursor}]
    <3>1. ASSUME NEW a \in Addr, NEW mine, mine = {i \in 1 .. n : wait[i].addr = a},
                 mine # {}
          PROVE  wait[Min(mine)].height \in Height
      <4>1. mine \subseteq Nat
        BY <3>1
      <4>2. Min(mine) \in mine
        BY <3>1, <4>1, MinProperties, Zenon
      <4>3. Min(mine) \in 1 .. Len(wait)
        BY <2>0, <3>1, <4>2
      <4>4. wait[Min(mine)] \in W
        BY <2>0, <4>3, ElementOfSeq, Zenon
      <4>. QED
        BY <4>4, Zenon
    <3>2. bindings \in [Addr -> Height \cup {NoCursor}]
      BY <1>a, Zenon DEF TablesType
    <3>. QED
      BY <3>1, <3>2, Zenon DEF Inserted
  <2>2. Len(wait) \in 0 .. Len(wait)
    BY <2>0, SMTT(30)
  <2>3. bindings' \in [Addr -> Height \cup {NoCursor}]
    BY <1>2, <2>1, <2>2, Zenon DEF Persist
  <2>4. Stage \in 0 .. MaxHeight
    BY <1>b, <1>2, Zenon DEF Persist, Submitting
  <2>5. tracked' \subseteq Addr
    BY <1>0, <1>2, Zenon DEF Persist, Kept
  <2>6. loaded' \in 0 .. MaxHeight
    BY <1>0, <1>2, <2>4, BoundAssumption, SMTT(30) DEF Persist, KeptTo
  <2>7. wait' = <<>> \/ wait' = wait
    BY <1>2, Zenon DEF Persist
  <2>8. wait' \in Seq(W)
    BY <2>0, <2>7, Zenon
  <2>9. faults' \in Nat /\ pc' \in Steps
    BY <1>0, <1>2, CutShortType, Zenon DEF Persist, Steps
  <2>10. UNCHANGED <<node, blocksTab, artifacts, utxoDb, balanceDb, needStop, next, at,
                     from, seen, rbBound, cur, staged, gNew, gDel, gDelta>>
    BY <1>2, Zenon DEF Persist
  <2>11. TablesType'
    BY <1>a, <2>3, <2>10, Zenon DEF TablesType, blocksTab, artifacts
  <2>12. LoopType'
    BY <1>a, <2>5, <2>6, <2>9, <2>10, Zenon DEF LoopType
  <2>13. BatchType'
    BY <1>a, <2>8, <2>10, Zenon DEF BatchType
  <2>. QED
    BY <1>a, <2>10, <2>11, <2>12, <2>13, KeepNode, KeepRedis, Zenon DEF TypeOK
<1>c. ASSUME UNCHANGED <<node, pg, mem>>, faults' \in Nat, pc' \in Steps,
             needStop' \in BOOLEAN, RedisType'
      PROVE  TypeOK'
  BY <1>a, <1>c, KeepNode, KeepTables, KeepMem, Zenon DEF TypeOK
<1>3. CASE UtxoAdd
  <2>1. faults' \in Nat /\ pc' \in Steps
    BY <1>0, <1>3, CutShortType, Zenon DEF UtxoAdd, Steps
  <2>2. needStop' \in BOOLEAN
    BY <1>0, <1>3, Zenon DEF UtxoAdd
  <2>3. utxo' \subseteq Outpoint
    BY <1>a, <1>3, Zenon DEF UtxoAdd, RedisType, BatchType
  <2>4. UNCHANGED <<node, pg, utxoCursor, balanceDb, mem>>
    BY <1>3, Zenon DEF UtxoAdd
  <2>5. RedisType'
    BY <1>a, <2>3, <2>4, Zenon DEF RedisType, balanceDb
  <2>. QED
    BY <1>c, <2>1, <2>2, <2>4, <2>5, Zenon
<1>4. CASE UtxoDel
  <2>1. faults' \in Nat /\ pc' \in Steps
    BY <1>0, <1>4, CutShortType, Zenon DEF UtxoDel, Steps
  <2>2. utxo' \subseteq Outpoint
    BY <1>a, <1>4, Zenon DEF UtxoDel, RedisType
  <2>3. UNCHANGED <<node, pg, utxoCursor, balanceDb, needStop, mem>>
    BY <1>4, Zenon DEF UtxoDel
  <2>4. RedisType'
    BY <1>a, <2>2, <2>3, Zenon DEF RedisType, balanceDb
  <2>. QED
    BY <1>0, <1>c, <2>1, <2>3, <2>4, Zenon
<1>5. CASE UtxoCursor
  <2>1. utxoCursor' = Stage /\ Stage \in 0 .. MaxHeight
    BY <1>b, <1>5, Zenon DEF UtxoCursor, Submitting
  <2>2. utxoCursor' \in NoCursor .. MaxHeight
    BY <2>1, BoundAssumption DEF NoCursor
  <2>3. UNCHANGED <<node, faults, pg, utxo, balanceDb, needStop, mem>> /\ pc' \in Steps
    BY <1>5, Zenon DEF UtxoCursor, Steps
  <2>4. RedisType'
    BY <1>a, <2>2, <2>3, Zenon DEF RedisType, balanceDb
  <2>. QED
    BY <1>0, <1>c, <2>3, <2>4, Zenon
<1>6. CASE Realtime
  <2>1. Stage \in 0 .. MaxHeight /\ (rtCursor' = Stage \/ rtCursor' = rtCursor)
    BY <1>b, <1>6, Zenon DEF Realtime, Submitting, AfterCursors
  <2>2. rtCursor' \in NoCursor .. MaxHeight
    BY <1>a, <2>1, BoundAssumption DEF RedisType, NoCursor
  <2>3. balance \in Delta /\ score \in Delta /\ gDelta \in Delta
    BY <1>a, Zenon DEF RedisType, BatchType
  <2>4. ASSUME NEW S, Apply(S) PROVE balance' \in Delta /\ score' \in Delta
    BY <2>3, <2>4, DeltaClosed, Zenon DEF Apply
  <2>5. balance' \in Delta /\ score' \in Delta
    BY <1>6, <2>4, Zenon DEF Realtime
  <2>6. faults' \in Nat /\ pc' \in Steps
    BY <1>0, <1>6, CutShortType, Zenon DEF Realtime, Steps
  <2>7. UNCHANGED <<node, pg, utxoDb, needStop, mem>>
    BY <1>6, Zenon DEF Realtime
  <2>8. RedisType'
    BY <1>a, <2>2, <2>5, <2>7, Zenon DEF RedisType, utxoDb
  <2>. QED
    BY <1>0, <1>c, <2>6, <2>7, <2>8, Zenon
<1>7. CASE FlushStaged
  BY <1>0, <1>7, Quiet, Zenon DEF FlushStaged, Steps
<1>8. CASE Mark
  <2>1. faults' \in Nat /\ pc' \in Steps
    BY <1>0, <1>8, CutShortType, Zenon DEF Mark, Steps
  <2>2. /\ UNCHANGED <<node, rows, artifacts, bindings, utxoDb, balanceDb, needStop,
                       next, at, from, seen, binding, rbBound, cur, staged, wait>>
        /\ committed' \subseteq committed \cup Height
        /\ gNew' \subseteq gNew /\ gDel' \subseteq gDel /\ gDelta' \in {gDelta, Zero}
    BY <1>8, Zenon DEF Mark
  <2>3. TablesType'
    BY <1>a, <2>2, Zenon DEF TablesType, artifacts
  <2>4. LoopType'
    BY <1>a, <2>1, <2>2, Zenon DEF LoopType, binding
  <2>5. BatchType'
    BY <1>a, <2>2, DeltaClosed, Zenon DEF BatchType
  <2>. QED
    BY <1>a, <2>2, <2>3, <2>4, <2>5, KeepNode, KeepRedis, Zenon DEF TypeOK
<1>. QED
  BY <1>1, <1>2, <1>3, <1>4, <1>5, <1>6, <1>7, <1>8, Zenon DEF Submit

\* Every step keeps the types.
LEMMA TypeStep == IInv /\ [Next]_vars => TypeOK'
<1>. SUFFICES ASSUME IInv, [Next]_vars PROVE TypeOK'
  OBVIOUS
<1>1. CASE UNCHANGED vars \/ EnsureFails
  <2>1. UNCHANGED <<node, pg, utxoDb, balanceDb, mem, faults, pc, needStop>>
    BY <1>1, Zenon DEF EnsureFails, vars, node, pg, utxoDb, balanceDb, mem
  <2>2. TypeOK /\ faults \in Nat /\ pc \in Steps /\ needStop \in BOOLEAN
    BY Zenon DEF IInv, TypeOK, LoopType
  <2>. QED
    BY <2>1, <2>2, Quiet, Zenon
<1>2. TypeOK
  BY DEF IInv
<1>. QED
  BY <1>1, <1>2, EnvironmentType, CheckType, RollbackType, FetchType, ParseType, SubmitType
     DEF Next, Loop

-----------------------------------------------------------------------------
(***************************************************************************)
(* The heights stay in order.                                              *)
(***************************************************************************)
\* The stores keep their invariant when no row and no Redis height moves.
LEMMA KeepStoreInv ==
    StoreInv /\ UNCHANGED <<rows, committed, utxoCursor, rtCursor>> => StoreInv'
BY Zenon DEF StoreInv, WriteAhead

\* When the loop starts over or the process stops, nothing is said of memory.
LEMMA RestartPhase == pc' \in {"top", "down"} => PhaseInv'
BY Zenon DEF PhaseInv, BeforeCursors, AfterCursors, InParse, Submitting, RollingBack

\* So a failure that moves no row and no Redis height keeps the invariant.
LEMMA Restart ==
    ASSUME HeightsInv, UNCHANGED <<rows, committed, utxoCursor, rtCursor>>,
           pc' \in {"top", "down"}
    PROVE  HeightsInv'
BY KeepStoreInv, RestartPhase, Zenon DEF HeightsInv

\* A step that writes no block row, no Redis height and no height in memory
\* keeps the invariant when its program counter moves inside one phase.
LEMMA SamePhase ==
    ASSUME HeightsInv,
           UNCHANGED <<rows, committed, utxoCursor, rtCursor, next, at, from, seen>>,
           \/ pc' = pc
           \/ pc = "check" /\ pc' = "load"
           \/ pc = "serial" /\ pc' = "parsed"
           \/ pc \in {"fast", "final"} /\ pc' \in {"final", "parsed"}
           \/ pc = "persist" /\ pc' = "add"
           \/ pc = "add" /\ pc' = "del"
           \/ pc = "del" /\ pc' = "cursor"
           \/ pc = "staged" /\ pc' = "mark"
           \/ pc = "rbStake" /\ pc' = "rbArtifacts"
           \/ pc = "rbArtifacts" /\ pc' = "rbBlocks"
    PROVE  HeightsInv'
<1>1. UNCHANGED <<CommittedBelow, CursorsBelow, Fetched, Flushed, Parsing>>
  BY Zenon DEF CommittedBelow, CursorsBelow, Fetched, Flushed, Parsing, InBatch, Stage
<1>2. PhaseInv'
  BY <1>1, Zenon DEF HeightsInv, PhaseInv, BeforeCursors, AfterCursors, InParse, Submitting,
              RollingBack
<1>. QED
  BY <1>2, KeepStoreInv, Zenon DEF HeightsInv

\* The heights and the two hash tables, without the rest of the types.
HeightTypes ==
    /\ MaxHeight \in Nat /\ next \in Int /\ at \in Int /\ from \in Int
    /\ utxoCursor \in Int /\ rtCursor \in Int /\ next >= 1 /\ next <= MaxHeight + 1
    /\ at <= MaxHeight + 1 /\ utxoCursor <= MaxHeight /\ rtCursor <= MaxHeight
    /\ committed \subseteq Height

\* They follow from the type invariant.
LEMMA HeightTypesHold == TypeOK => HeightTypes
BY BoundAssumption DEF TypeOK, TablesType, RedisType, LoopType, HeightTypes, NoCursor

\* The steps of the node, of the process and of a fault.
LEMMA EnvironmentHeights == HeightsInv /\ Environment => HeightsInv'
<1>. SUFFICES ASSUME HeightsInv, Environment PROVE HeightsInv'
  OBVIOUS
<1>1. ASSUME UNCHANGED <<pg, utxoDb, balanceDb>>
      PROVE  UNCHANGED <<rows, committed, utxoCursor, rtCursor>>
  BY <1>1, Zenon DEF pg, utxoDb, balanceDb
<1>2. ASSUME UNCHANGED mem PROVE UNCHANGED <<next, at, from, seen>>
  BY <1>2, Zenon DEF mem
<1>3. CASE NodeExtends
  BY <1>1, <1>2, <1>3, SamePhase, Zenon DEF NodeExtends
<1>4. ASSUME NEW c \in Chains, NodeReorganises(c) PROVE HeightsInv'
  BY <1>1, <1>2, <1>4, SamePhase, Zenon DEF NodeReorganises
<1>5. CASE Signal
  BY <1>1, <1>2, <1>5, SamePhase, Zenon DEF Signal
<1>6. CASE Boot
  BY <1>1, <1>6, Restart, Zenon DEF Boot
<1>7. CASE StorageFails
  BY <1>1, <1>7, Restart, Zenon DEF StorageFails, CutShort
<1>8. CASE Crash
  BY <1>1, <1>8, Restart, Zenon DEF Crash
<1>. QED
  BY <1>3, <1>4, <1>5, <1>6, <1>7, <1>8 DEF Environment

\* The consistency check, the rollback check and the fetch of a batch.
LEMMA HeadHeights ==
    ASSUME IInv, \/ Ensure \/ Exit \/ CheckWalk \/ CheckPasses \/ CheckRollsBack
                 \/ LoadBindings \/ FetchWalk \/ FetchIdle \/ FetchDone
    PROVE  HeightsInv'
<1>0. TypeOK /\ HeightTypes /\ HeightsInv /\ StoreInv /\ PhaseInv
  BY HeightTypesHold DEF IInv, HeightsInv
<1>a. ASSUME UNCHANGED <<pg, utxoDb, balanceDb>>
      PROVE  UNCHANGED <<rows, committed, utxoCursor, rtCursor>> /\ StoreInv'
  BY <1>0, <1>a, KeepStoreInv, Zenon DEF pg, utxoDb, balanceDb
<1>b. ASSUME UNCHANGED mem PROVE UNCHANGED <<next, at, from, seen>>
  BY <1>b, Zenon DEF mem
\* Between the consistency check and the fetch.
<1>c. ASSUME StoreInv', CommittedBelow', CursorsBelow', pc' \in {"check", "load", "fetch"},
             pc' # "load" => at' <= MaxHeight
      PROVE  HeightsInv'
  BY <1>c, Zenon DEF HeightsInv, PhaseInv, BeforeCursors, AfterCursors, InParse, Submitting,
              RollingBack
<1>d. pc \in {"check", "load", "fetch"} => CommittedBelow /\ CursorsBelow
  BY <1>0, Zenon DEF PhaseInv, BeforeCursors
<1>e. pc \in {"check", "fetch"} => at <= MaxHeight
  BY <1>0, Zenon DEF PhaseInv
<1>f. ASSUME UNCHANGED <<committed, utxoCursor, rtCursor, next>>
      PROVE  UNCHANGED <<CommittedBelow, CursorsBelow>>
  BY <1>f, Zenon DEF CommittedBelow, CursorsBelow
<1>1. CASE Ensure
  <2>1. /\ committed = 1 .. Latest /\ Latest = utxoCursor /\ Latest = rtCursor
        /\ Latest \in NoCursor .. MaxHeight
    BY <1>0, <1>1, LatestRange, Zenon DEF Ensure, HeightsAgree
  <2>2. /\ UNCHANGED <<rows, committed, utxoCursor, rtCursor>> /\ StoreInv'
        /\ pc' = "check" /\ at' = Latest
        /\ next' = IF Latest = NoCursor THEN 1 ELSE Latest + 1
    BY <1>1, <1>a, Zenon DEF Ensure
  <2>3. committed = 1 .. next' - 1 /\ utxoCursor < next' /\ rtCursor < next'
        /\ at' <= MaxHeight
    BY <1>0, <2>1, <2>2 DEF HeightTypes, NoCursor
  <2>4. CommittedBelow' /\ CursorsBelow'
    BY <2>2, <2>3, Zenon DEF CommittedBelow, CursorsBelow
  <2>. QED
    BY <1>c, <2>2, <2>3, <2>4, Zenon
<1>2. CASE Exit
  BY <1>0, <1>2, <1>a, Restart, Zenon DEF Exit
\* One getblockhash.
<1>g. ASSUME NEW lo, Walk(lo), pc \in {"check", "fetch"} PROVE HeightsInv'
  <2>1. /\ UNCHANGED <<pg, utxoDb, balanceDb, next>>
        /\ pc' = "top" \/ (pc' = pc /\ at' = at - 1)
    BY <1>g, Zenon DEF Walk, RpcFails
  <2>2. UNCHANGED <<rows, committed, utxoCursor, rtCursor>> /\ StoreInv'
    BY <2>1, <1>a, Zenon
  <2>3. CASE pc' = "top"
    BY <1>0, <2>2, <2>3, Restart, Zenon
  <2>4. CASE pc' = pc /\ at' = at - 1
    <3>1. CommittedBelow' /\ CursorsBelow'
      BY <1>d, <1>f, <1>g, <2>1, <2>2, Zenon
    <3>2. at' <= MaxHeight
      BY <1>0, <1>e, <1>g, <2>4 DEF HeightTypes
    <3>. QED
      BY <1>c, <1>g, <2>2, <2>4, <3>1, <3>2, Zenon
  <2>. QED
    BY <2>1, <2>3, <2>4, Zenon
<1>3. CASE CheckWalk
  BY <1>3, <1>g, Zenon DEF CheckWalk
<1>4. CASE CheckPasses
  BY <1>0, <1>4, <1>a, <1>b, SamePhase, Zenon DEF CheckPasses
<1>5. CASE CheckRollsBack
  <2>1. Min(Mismatch) \in committed
    BY <1>0, <1>5, MismatchIsCommitted, Zenon DEF CheckRollsBack
  <2>2. /\ UNCHANGED <<pg, utxoDb, balanceDb>>
        /\ pc' = "top" \/ (pc' = "rbRealtime" /\ from' = Min(Mismatch) /\ at' = rtCursor)
    BY <1>5, Zenon DEF CheckRollsBack
  <2>3. UNCHANGED <<rows, committed, utxoCursor, rtCursor>> /\ StoreInv'
    BY <1>a, <2>2, Zenon
  <2>4. CASE pc' = "top"
    BY <1>0, <2>3, <2>4, Restart
  <2>5. CASE pc' = "rbRealtime" /\ from' = Min(Mismatch) /\ at' = rtCursor
    <3>1. at' <= MaxHeight /\ from' \in committed'
      BY <1>0, <2>1, <2>3, <2>5, Zenon DEF HeightTypes
    <3>2. PhaseInv'
      BY <2>5, <3>1, Zenon DEF PhaseInv, BeforeCursors, AfterCursors, InParse, Submitting,
                        RollingBack
    <3>. QED
      BY <2>3, <3>2, Zenon DEF HeightsInv
  <2>. QED
    BY <2>2, <2>4, <2>5, Zenon
<1>6. CASE LoadBindings
  <2>1. next + Batch \in Int /\ MaxHeight \in Int
    BY <1>0, BoundAssumption DEF HeightTypes
  <2>2. Min({next + Batch, MaxHeight}) <= MaxHeight
    BY <2>1, MaxMinPair, Zenon
  <2>3. /\ UNCHANGED <<pg, utxoDb, balanceDb, next>> /\ pc = "load"
        /\ \/ pc' \in {"top", "down"}
           \/ pc' = "fetch" /\ at' = Min({next + Batch, MaxHeight})
    BY <1>6, Zenon DEF LoadBindings, CutShort
  <2>4. UNCHANGED <<rows, committed, utxoCursor, rtCursor>> /\ StoreInv'
    BY <1>a, <2>3, Zenon
  <2>5. CASE pc' \in {"top", "down"}
    BY <1>0, <2>4, <2>5, Restart, Zenon
  <2>6. CASE pc' = "fetch" /\ at' = Min({next + Batch, MaxHeight})
    BY <1>c, <1>d, <1>f, <2>2, <2>3, <2>4, <2>6, Zenon
  <2>. QED
    BY <2>3, <2>5, <2>6, Zenon
<1>7. CASE FetchWalk
  BY <1>7, <1>g DEF FetchWalk
<1>8. CASE FetchIdle
  BY <1>0, <1>8, <1>a, Restart, Zenon DEF FetchIdle
<1>9. CASE FetchDone
  <2>1. /\ UNCHANGED <<pg, utxoDb, balanceDb, next, seen>> /\ pc = "fetch"
        /\ pc' = "serial" /\ at' = next
    BY <1>9, Zenon DEF FetchDone
  <2>2. UNCHANGED <<rows, committed, utxoCursor, rtCursor>> /\ StoreInv'
    BY <1>a, <2>1, Zenon
  <2>3. CommittedBelow' /\ CursorsBelow'
    BY <1>d, <1>f, <2>1, <2>2, Zenon
  <2>4. Fetched'
    BY <1>0, <2>1 DEF Fetched, InBatch, Stage, HeightTypes, Height
  <2>5. PhaseInv'
    BY <2>1, <2>3, <2>4, Zenon
       DEF PhaseInv, BeforeCursors, AfterCursors, InParse, Submitting,
                            RollingBack
  <2>. QED
    BY <2>2, <2>5 DEF HeightsInv
<1>. QED
  BY <1>1, <1>2, <1>3, <1>4, <1>5, <1>6, <1>7, <1>8, <1>9, Zenon

\* A rollback lowers the Redis heights before it deletes the rows.
LEMMA RollbackHeights == IInv /\ Rollback => HeightsInv'
<1>. SUFFICES ASSUME IInv, Rollback PROVE HeightsInv'
  OBVIOUS
<1>0. TypeOK /\ HeightTypes /\ HeightsInv /\ StoreInv /\ PhaseInv
  BY HeightTypesHold DEF IInv, HeightsInv
<1>a. /\ pc \in RollingBack => from \in committed
      /\ pc \in RollingBack \ {"rbRealtime"} => rtCursor < from
      /\ pc \in {"rbStake", "rbArtifacts", "rbBlocks"} => utxoCursor < from
      /\ pc \in {"rbRealtime", "rbUtxo"} => at <= MaxHeight
  BY <1>0, Zenon DEF PhaseInv
\* In a rollback.
<1>b. ASSUME StoreInv', from' \in committed',
             \/ pc' = "rbRealtime" /\ at' <= MaxHeight
             \/ pc' = "rbUtxo" /\ at' <= MaxHeight /\ rtCursor' < from'
             \/ pc' = "rbStake" /\ rtCursor' < from' /\ utxoCursor' < from'
      PROVE  HeightsInv'
  BY <1>b, Zenon DEF HeightsInv, PhaseInv, BeforeCursors, AfterCursors, InParse, Submitting,
              RollingBack
<1>c. from \in committed => \A h \in Height : h <= from => rows[h] # NoBlock
  <2>1. PICK n \in 0 .. MaxHeight : committed = 1 .. n
    BY <1>0, Zenon DEF StoreInv
  <2>2. ASSUME from \in committed, NEW h \in Height, h <= from PROVE h \in committed
    BY <1>0, <2>1, <2>2 DEF HeightTypes, Height
  <2>. QED
    BY <1>0, <2>2, Zenon DEF StoreInv
<1>1. CASE RbRealtime
  <2>1. /\ UNCHANGED <<pg, utxoDb, rtCursor, from>> /\ pc = "rbRealtime"
        /\ pc' \in {"top", "down"} \/ (pc' = pc /\ at' = at - 1)
    BY <1>1, Zenon DEF RbRealtime, CutShort
  <2>2. UNCHANGED <<rows, committed, utxoCursor, rtCursor>>
    BY <2>1, Zenon DEF pg, utxoDb
  <2>3. CASE pc' \in {"top", "down"}
    BY <1>0, <2>2, <2>3, Restart, Zenon
  <2>4. CASE pc' = pc /\ at' = at - 1
    <3>1. at' <= MaxHeight
      BY <1>0, <1>a, <2>1, <2>4 DEF HeightTypes
    <3>2. from' \in committed'
      BY <1>a, <2>1, <2>2, Zenon DEF RollingBack
    <3>. QED
      BY <1>0, <1>b, <2>1, <2>2, <2>4, <3>1, <3>2, KeepStoreInv, Zenon
  <2>. QED
    BY <2>1, <2>3, <2>4, Zenon
<1>2. CASE RbRealtimeCursor
  <2>1. /\ UNCHANGED <<pg, utxoDb, from>> /\ pc = "rbRealtime"
        /\ rtCursor' = from - 1 /\ pc' = "rbUtxo" /\ at' = utxoCursor
    BY <1>2, Zenon DEF RbRealtimeCursor, RollbackTo
  <2>2. UNCHANGED <<rows, committed, utxoCursor>>
    BY <2>1, Zenon DEF pg, utxoDb
  <2>3. from \in committed
    BY <1>a, <2>1, Zenon DEF RollingBack
  <2>4. rtCursor' < from' /\ at' <= MaxHeight
    BY <1>0, <2>1 DEF HeightTypes
  <2>5. WriteAhead'
    BY <1>0, <1>c, <2>1, <2>2, <2>3, SMTT(30) DEF StoreInv, WriteAhead, HeightTypes, Height
  <2>6. StoreInv'
    BY <1>0, <2>2, <2>5, Zenon DEF StoreInv
  <2>. QED
    BY <1>b, <2>1, <2>2, <2>3, <2>4, <2>6, Zenon
<1>3. CASE RbUtxo
  <2>1. /\ UNCHANGED <<pg, utxoCursor, balanceDb, from>> /\ pc = "rbUtxo"
        /\ pc' \in {"top", "down"} \/ (pc' = pc /\ at' = at - 1)
    BY <1>3, Zenon DEF RbUtxo, CutShort
  <2>2. UNCHANGED <<rows, committed, utxoCursor, rtCursor>>
    BY <2>1, Zenon DEF pg, balanceDb
  <2>3. CASE pc' \in {"top", "down"}
    BY <1>0, <2>2, <2>3, Restart
  <2>4. CASE pc' = pc /\ at' = at - 1
    <3>1. at' <= MaxHeight
      BY <1>0, <1>a, <2>1, <2>4 DEF HeightTypes
    <3>2. from' \in committed' /\ rtCursor' < from'
      BY <1>a, <2>1, <2>2, Zenon DEF RollingBack
    <3>. QED
      BY <1>0, <1>b, <2>1, <2>2, <2>4, <3>1, <3>2, KeepStoreInv, Zenon
  <2>. QED
    BY <2>1, <2>3, <2>4, Zenon
<1>4. CASE RbUtxoCursor
  <2>1. /\ UNCHANGED <<pg, balanceDb, mem>> /\ pc = "rbUtxo"
        /\ utxoCursor' = from - 1 /\ pc' = "rbStake"
    BY <1>4, Zenon DEF RbUtxoCursor, RollbackTo
  <2>2. UNCHANGED <<rows, committed, rtCursor, from>>
    BY <2>1, Zenon DEF pg, balanceDb, mem
  <2>3. from \in committed /\ rtCursor < from
    BY <1>a, <2>1, Zenon DEF RollingBack
  <2>4. utxoCursor' < from'
    BY <1>0, <2>1, <2>2 DEF HeightTypes
  <2>5. WriteAhead'
    BY <1>0, <1>c, <2>1, <2>2, <2>3 DEF StoreInv, WriteAhead, HeightTypes, Height
  <2>6. StoreInv'
    BY <1>0, <2>2, <2>5, Zenon DEF StoreInv
  <2>. QED
    BY <1>b, <2>1, <2>2, <2>3, <2>4, <2>6, Zenon
<1>5. CASE RbStake
  <2>1. UNCHANGED <<rows, committed, utxoCursor, rtCursor, next, at, from, seen>>
    BY <1>5, Zenon DEF RbStake, blocksTab, utxoDb, balanceDb, mem
  <2>. QED
    BY <1>0, <1>5, <2>1, SamePhase, Zenon DEF RbStake
<1>6. CASE RbArtifacts
  <2>1. UNCHANGED <<rows, committed, utxoCursor, rtCursor, next, at, from, seen>>
    BY <1>6, Zenon DEF RbArtifacts, blocksTab, utxoDb, balanceDb, mem
  <2>. QED
    BY <1>0, <1>6, <2>1, SamePhase, Zenon DEF RbArtifacts
<1>7. CASE RbBlocks
  <2>1. PICK n \in 0 .. MaxHeight : committed = 1 .. n
    BY <1>0 DEF StoreInv
  <2>2. from \in 1 .. n /\ rtCursor < from /\ utxoCursor < from
    BY <1>7, <1>a, <2>1, Zenon DEF RbBlocks, RollingBack
  <2>3. /\ committed' = {h \in committed : ~(h >= from)}
        /\ \A h \in Height : ~(h >= from) => rows'[h] = rows[h]
        /\ UNCHANGED <<utxoDb, balanceDb, from>>
        /\ pc' \in {"top", "down"} \/ (pc' = "load" /\ next' = from)
    BY <1>7, Zenon DEF RbBlocks, RolledBack, CutShort
  <2>4. UNCHANGED <<utxoCursor, rtCursor>>
    BY <2>3, Zenon DEF utxoDb, balanceDb
  <2>5. from - 1 \in 0 .. MaxHeight /\ committed' = 1 .. from - 1
    BY <1>0, <2>1, <2>2, <2>3 DEF HeightTypes
  <2>6. ASSUME NEW h \in Height, h < from PROVE rows'[h] # NoBlock
    BY <1>0, <1>c, <2>1, <2>2, <2>3, <2>6 DEF HeightTypes, Height
  <2>7. \A h \in committed' : rows'[h] # NoBlock
    BY <1>0, <2>5, <2>6 DEF HeightTypes, Height
  <2>8. WriteAhead'
    BY <1>0, <2>2, <2>4, <2>6 DEF WriteAhead, HeightTypes, Height
  <2>9. StoreInv'
    BY <2>5, <2>7, <2>8, Zenon DEF StoreInv
  <2>10. CASE pc' \in {"top", "down"}
    BY <2>9, <2>10, RestartPhase, Zenon DEF HeightsInv
  <2>11. CASE pc' = "load" /\ next' = from
    <3>1. CommittedBelow' /\ CursorsBelow'
      BY <2>2, <2>4, <2>5, <2>11, Zenon DEF CommittedBelow, CursorsBelow
    <3>2. PhaseInv'
      BY <2>11, <3>1, Zenon DEF PhaseInv, BeforeCursors, AfterCursors, InParse, Submitting,
                         RollingBack
    <3>. QED
      BY <2>9, <3>2, Zenon DEF HeightsInv
  <2>. QED
    BY <2>3, <2>10, <2>11, Zenon
<1>. QED
  BY <1>1, <1>2, <1>3, <1>4, <1>5, <1>6, <1>7, Zenon DEF Rollback

\* A batch is staged right above the committed rows, and its rows are written
\* before a Redis height reaches them.
LEMMA ParseHeights == IInv /\ Parse => HeightsInv'
<1>. SUFFICES ASSUME IInv, Parse PROVE HeightsInv'
  OBVIOUS
<1>0. TypeOK /\ HeightTypes /\ HeightsInv /\ StoreInv /\ PhaseInv
  BY HeightTypesHold DEF IInv, HeightsInv
<1>a. ASSUME UNCHANGED <<pg, utxoDb, balanceDb>>
      PROVE  UNCHANGED <<rows, committed, utxoCursor, rtCursor>> /\ StoreInv'
  BY <1>0, <1>a, KeepStoreInv, Zenon DEF pg, utxoDb, balanceDb
<1>b. ASSUME UNCHANGED mem PROVE UNCHANGED <<next, at, from, seen>>
  BY <1>b DEF mem
<1>c. pc \in InParse => CommittedBelow /\ CursorsBelow /\ Fetched
  BY <1>0, Zenon DEF PhaseInv, InParse, BeforeCursors
\* While parsing.
<1>d. ASSUME StoreInv', CommittedBelow', CursorsBelow', Fetched',
             pc' = "serial" \/ (pc' = "fast" /\ Parsing')
      PROVE  HeightsInv'
  BY <1>d, Zenon DEF HeightsInv, PhaseInv, BeforeCursors, AfterCursors, InParse, Submitting,
              RollingBack
<1>e. ASSUME UNCHANGED <<committed, utxoCursor, rtCursor, next>>
      PROVE  UNCHANGED <<CommittedBelow, CursorsBelow>>
  BY <1>e, Zenon DEF CommittedBelow, CursorsBelow
<1>1. CASE ParseEnds
  BY <1>0, <1>1, <1>a, <1>b, SamePhase, Zenon DEF ParseEnds
<1>2. CASE SerialStart
  <2>1. /\ UNCHANGED <<pg, utxoDb, balanceDb, next, at, from, seen>>
        /\ pc = "serial" /\ pc' = "fast" /\ Parsing
    BY <1>2, Zenon DEF SerialStart
  <2>2. UNCHANGED <<Fetched, Parsing>>
    BY <2>1, Zenon DEF Fetched, Parsing, InBatch, Stage
  <2>3. CommittedBelow /\ CursorsBelow /\ Fetched
    BY <1>c, <2>1, Zenon DEF InParse
  <2>4. /\ UNCHANGED <<rows, committed, utxoCursor, rtCursor>> /\ StoreInv'
    BY <1>a, <2>1, Zenon
  <2>. QED
    BY <1>d, <1>e, <2>1, <2>2, <2>3, <2>4, Zenon
<1>3. CASE FastBlock
  <2>1. /\ UNCHANGED <<pg, utxoDb, balanceDb, next, at, from, seen>>
        /\ pc = "fast" /\ pc' \in {"final", "parsed"}
    BY <1>3, Zenon DEF FastBlock
  <2>. QED
    BY <1>0, <1>a, <2>1, SamePhase, Zenon
<1>4. CASE Finalize
  <2>1. /\ UNCHANGED <<pg, utxoDb, balanceDb, next, from, seen>> /\ pc = "final"
        /\ (pc' = "parsed" /\ UNCHANGED at) \/ (pc' = "serial" /\ at' = at + 1)
    BY <1>4, Zenon DEF Finalize
  <2>2. UNCHANGED <<rows, committed, utxoCursor, rtCursor>> /\ StoreInv'
    BY <1>a, <2>1, Zenon
  <2>3. CASE pc' = "parsed" /\ UNCHANGED at
    BY <1>0, <2>1, <2>2, <2>3, SamePhase, Zenon
  <2>4. CASE pc' = "serial" /\ at' = at + 1
    <3>1. Parsing /\ Fetched /\ CommittedBelow /\ CursorsBelow
      BY <1>0, <1>c, <2>1, Zenon DEF PhaseInv, InParse
    <3>2. ASSUME NEW h \in Height, InBatch(h)' PROVE InBatch(h) \/ h = at
      BY <1>0, <2>1, <2>4, <3>2 DEF InBatch, Stage, HeightTypes, Height
    <3>3. \A h \in Height : InBatch(h)' => seen[h] # NoBlock
      BY <3>1, <3>2, Zenon DEF Fetched, Parsing
    <3>4. next <= at
      BY <3>1, Zenon DEF Fetched
    <3>5. next' <= at'
      BY <1>0, <2>1, <2>4, <3>4, SMTT(30) DEF HeightTypes
    <3>6. Fetched'
      BY <2>1, <3>3, <3>5, Zenon DEF Fetched
    <3>. QED
      BY <1>d, <1>e, <2>1, <2>2, <2>4, <3>1, <3>6, Zenon
  <2>. QED
    BY <2>1, <2>3, <2>4, Zenon
<1>5. CASE Parsed
  <2>1. UNCHANGED <<rows, committed, utxoCursor, rtCursor, next, at, from, seen>>
        /\ StoreInv' /\ pc = "parsed"
    BY <1>5, <1>a, <1>b, Zenon DEF Parsed
  <2>2. pc' \in {"top", "down"} \/ (pc' = "flush" /\ at > next)
    BY <1>5, Zenon DEF Parsed
  <2>3. CASE pc' \in {"top", "down"}
    BY <1>0, <2>1, <2>3, Restart, Zenon
  <2>4. CASE pc' = "flush" /\ at > next
    <3>1. UNCHANGED <<CommittedBelow, CursorsBelow, Fetched>>
      BY <2>1, Zenon DEF CommittedBelow, CursorsBelow, Fetched, InBatch, Stage
    <3>2. CommittedBelow' /\ CursorsBelow' /\ Fetched'
      BY <1>c, <2>1, <3>1, Zenon DEF InParse
    <3>3. next' < at'
      BY <1>0, <2>1, <2>4, Zenon DEF HeightTypes
    <3>4. PhaseInv'
      BY <2>4, <3>2, <3>3, Zenon
         DEF PhaseInv, BeforeCursors, AfterCursors, InParse, Submitting,
                              RollingBack
    <3>. QED
      BY <2>1, <3>4, Zenon DEF HeightsInv
  <2>. QED
    BY <2>2, <2>3, <2>4, Zenon
<1>. QED
  BY <1>1, <1>2, <1>3, <1>4, <1>5, Zenon DEF Parse

\* A submit writes rows first, then the Redis heights, then marks the rows.
LEMMA SubmitHeights == IInv /\ Submit => HeightsInv'
<1>. SUFFICES ASSUME IInv, Submit PROVE HeightsInv'
  OBVIOUS
<1>0. TypeOK /\ HeightTypes /\ HeightsInv /\ StoreInv /\ PhaseInv
  BY HeightTypesHold DEF IInv, HeightsInv
<1>a. pc \in Submitting => CommittedBelow /\ Fetched /\ next < at
  BY <1>0, Zenon DEF PhaseInv, Submitting, BeforeCursors, AfterCursors
<1>b. pc \in Submitting \ {"flush"} => Flushed
  BY <1>0, Zenon DEF PhaseInv
<1>c. ASSUME UNCHANGED mem PROVE UNCHANGED <<next, at, from, seen>>
  BY <1>c DEF mem
<1>d. pc \in Submitting => Stage \in Int /\ next <= Stage /\ Stage <= MaxHeight
  BY <1>0, <1>a DEF HeightTypes, Stage
\* Once the batch is flushed, every height up to Stage has its row.
<1>e. ASSUME CommittedBelow, Flushed, NEW h \in Height, h <= Stage
      PROVE  rows[h] # NoBlock
  <2>1. CASE InBatch(h)
    BY <1>e, <2>1, Zenon DEF Flushed
  <2>2. CASE ~InBatch(h)
    <3>1. h \in committed
      BY <1>0, <1>e, <2>2, SMTT(30) DEF InBatch, CommittedBelow, HeightTypes, Height
    <3>. QED
      BY <1>0, <3>1, Zenon DEF StoreInv
  <2>. QED
    BY <2>1, <2>2, Zenon
<1>f. ASSUME UNCHANGED <<next, at, seen>> PROVE UNCHANGED <<Stage, Fetched>>
  BY <1>f, Zenon DEF Stage, Fetched, InBatch
<1>g. ASSUME UNCHANGED <<next, at, rows>> PROVE UNCHANGED Flushed
  BY <1>g, Zenon DEF Stage, Flushed, InBatch
<1>1. CASE Flush
  <2>1. /\ committed' = {h \in committed : ~InBatch(h)}
        /\ \A h \in Height : rows'[h] = IF InBatch(h) THEN seen[h] ELSE rows[h]
        /\ UNCHANGED <<utxoDb, balanceDb, mem>> /\ pc = "flush" /\ pc' = "persist"
    BY <1>1, Zenon DEF Flush
  <2>2. UNCHANGED <<utxoCursor, rtCursor, next, at, from, seen>>
    BY <1>c, <2>1, Zenon DEF utxoDb, balanceDb
  <2>3. CommittedBelow /\ CursorsBelow /\ Fetched /\ next < at
    BY <1>0, <1>a, <2>1, Zenon DEF PhaseInv, Submitting, BeforeCursors
  <2>4. committed' = committed
    <3>1. \A h \in committed : ~InBatch(h)
      BY <1>0, <2>3, SMTT(30) DEF CommittedBelow, InBatch, HeightTypes
    <3>. QED
      BY <2>1, <3>1, Zenon
  <2>5. \A h \in Height : /\ rows[h] # NoBlock => rows'[h] # NoBlock
                          /\ InBatch(h) => rows'[h] # NoBlock
    BY <2>1, <2>3, Zenon DEF Fetched
  <2>6. WriteAhead'
    BY <1>0, <2>2, <2>5, Zenon DEF StoreInv, WriteAhead
  <2>7. \A h \in committed' : rows'[h] # NoBlock
    BY <1>0, <2>4, <2>5, Zenon DEF StoreInv, HeightTypes
  <2>8. StoreInv'
    BY <1>0, <2>4, <2>6, <2>7, Zenon DEF StoreInv
  <2>9. Flushed'
    BY <2>2, <2>5, Zenon DEF Flushed, InBatch, Stage
  <2>10. CommittedBelow' /\ CursorsBelow' /\ Fetched' /\ next' < at'
    BY <1>f, <2>2, <2>3, <2>4, Zenon DEF CommittedBelow, CursorsBelow
  <2>11. PhaseInv'
    BY <2>1, <2>9, <2>10, Zenon
       DEF PhaseInv, BeforeCursors, AfterCursors, InParse, Submitting,
                             RollingBack
  <2>. QED
    BY <2>8, <2>11, Zenon DEF HeightsInv
<1>2. CASE Persist
  <2>1. /\ UNCHANGED <<blocksTab, utxoDb, balanceDb, next, at, from, seen>>
        /\ pc = "persist" /\ pc' \in {"add", "top", "down"}
    BY <1>2, Zenon DEF Persist, CutShort
  <2>2. UNCHANGED <<rows, committed, utxoCursor, rtCursor>>
    BY <2>1, Zenon DEF blocksTab, utxoDb, balanceDb
  <2>. QED
    BY <1>0, <2>1, <2>2, SamePhase, Restart, Zenon
<1>3. CASE UtxoAdd
  <2>1. /\ UNCHANGED <<pg, utxoCursor, balanceDb, mem>>
        /\ pc = "add" /\ pc' \in {"del", "top", "down"}
    BY <1>3, Zenon DEF UtxoAdd, CutShort
  <2>2. UNCHANGED <<rows, committed, utxoCursor, rtCursor>>
    BY <2>1, Zenon DEF pg, balanceDb
  <2>. QED
    BY <1>0, <1>c, <2>1, <2>2, SamePhase, Restart, Zenon
<1>4. CASE UtxoDel
  <2>1. /\ UNCHANGED <<pg, utxoCursor, balanceDb, mem>>
        /\ pc = "del" /\ pc' \in {"cursor", "top", "down"}
    BY <1>4, Zenon DEF UtxoDel, CutShort
  <2>2. UNCHANGED <<rows, committed, utxoCursor, rtCursor>>
    BY <2>1, Zenon DEF pg, balanceDb
  <2>. QED
    BY <1>0, <1>c, <2>1, <2>2, SamePhase, Restart, Zenon
<1>5. CASE UtxoCursor
  <2>1. /\ UNCHANGED <<pg, balanceDb, mem>> /\ utxoCursor' = Stage
        /\ pc = "cursor" /\ pc' = "realtime"
    BY <1>5, Zenon DEF UtxoCursor
  <2>2. UNCHANGED <<rows, committed, rtCursor, next, at, seen>>
    BY <1>c, <2>1, Zenon DEF pg, balanceDb
  <2>3. CommittedBelow /\ Fetched /\ Flushed /\ next < at /\ Stage \in Int
    BY <1>a, <1>b, <1>d, <2>1, Zenon DEF Submitting
  <2>4. WriteAhead'
    BY <1>0, <1>e, <2>1, <2>2, <2>3, Zenon DEF StoreInv, WriteAhead
  <2>5. StoreInv'
    BY <1>0, <2>2, <2>4, Zenon DEF StoreInv
  <2>6. CommittedBelow' /\ Fetched' /\ Flushed' /\ next' < at'
    BY <1>f, <1>g, <2>2, <2>3, Zenon DEF CommittedBelow
  <2>7. PhaseInv'
    BY <2>1, <2>6, Zenon DEF PhaseInv, BeforeCursors, AfterCursors, InParse, Submitting,
                      RollingBack
  <2>. QED
    BY <2>5, <2>7 DEF HeightsInv
<1>6. CASE Realtime
  <2>1. /\ UNCHANGED <<pg, utxoDb, mem>> /\ (rtCursor' = Stage \/ rtCursor' = rtCursor)
        /\ pc = "realtime" /\ pc' \in {"staged", "top", "down"}
    BY <1>6, Zenon DEF Realtime, CutShort
  <2>2. UNCHANGED <<rows, committed, utxoCursor, next, at, seen>>
    BY <1>c, <2>1, Zenon DEF pg, utxoDb
  <2>3. CommittedBelow /\ Fetched /\ Flushed /\ next < at /\ Stage \in Int
    BY <1>a, <1>b, <1>d, <2>1, Zenon DEF Submitting, AfterCursors
  <2>4. WriteAhead'
    BY <1>0, <1>e, <2>1, <2>2, <2>3, Zenon DEF StoreInv, WriteAhead
  <2>5. StoreInv'
    BY <1>0, <2>2, <2>4 DEF StoreInv
  <2>6. CommittedBelow' /\ Fetched' /\ Flushed' /\ next' < at'
    BY <1>f, <1>g, <2>2, <2>3 DEF CommittedBelow
  <2>7. PhaseInv'
    BY <2>1, <2>6, RestartPhase, Zenon DEF PhaseInv, BeforeCursors, AfterCursors, InParse,
                                    Submitting, RollingBack
  <2>. QED
    BY <2>5, <2>7 DEF HeightsInv
<1>7. CASE FlushStaged
  <2>1. /\ UNCHANGED <<pg, utxoDb, balanceDb, mem>> /\ pc = "staged" /\ pc' = "mark"
    BY <1>7, Zenon DEF FlushStaged
  <2>2. UNCHANGED <<rows, committed, utxoCursor, rtCursor>>
    BY <2>1, Zenon DEF pg, utxoDb, balanceDb
  <2>. QED
    BY <1>0, <1>c, <2>1, <2>2, SamePhase, Zenon
<1>8. CASE Mark
  <2>1. CommittedBelow /\ Flushed /\ Stage \in Int /\ next <= Stage /\ Stage <= MaxHeight
    BY <1>8, <1>a, <1>b, <1>d, Zenon DEF Mark, Submitting, AfterCursors
  <2>2. committed' = committed \cup {h \in Height : InBatch(h)}
    BY <1>8, <2>1, Zenon DEF Mark, Flushed
  <2>3. UNCHANGED <<rows, utxoDb, balanceDb>> /\ pc' \in {"top", "down"}
    BY <1>8, Zenon DEF Mark, CutShort
  <2>4. UNCHANGED <<utxoCursor, rtCursor>>
    BY <2>3, Zenon DEF utxoDb, balanceDb
  <2>5. ASSUME NEW h \in Int PROVE h \in committed' <=> h \in 1 .. Stage
    BY <1>0, <2>1, <2>2 DEF CommittedBelow, HeightTypes, InBatch, Height
  <2>6. committed' \subseteq Int
    <3>1. Height \subseteq Int
      BY DEF Height
    <3>2. committed \subseteq Int
      BY <1>0, <3>1, Zenon DEF HeightTypes
    <3>. QED
      BY <2>2, <3>1, <3>2, Zenon
  <2>7. 1 .. Stage \subseteq Int
    OBVIOUS
  <2>8. committed' = 1 .. Stage
    BY <2>5, <2>6, <2>7, Zenon
  <2>9. Stage \in 0 .. MaxHeight
    BY <1>0, <2>1 DEF HeightTypes
  <2>10. \A h \in committed' : rows'[h] # NoBlock
    BY <1>0, <2>1, <2>2, <2>3, Zenon DEF StoreInv, Flushed
  <2>11. WriteAhead'
    BY <1>0, <2>3, <2>4, Zenon DEF StoreInv, WriteAhead
  <2>12. StoreInv'
    BY <2>8, <2>9, <2>10, <2>11, Zenon DEF StoreInv
  <2>. QED
    BY <2>3, <2>12, RestartPhase, Zenon DEF HeightsInv
<1>. QED
  BY <1>1, <1>2, <1>3, <1>4, <1>5, <1>6, <1>7, <1>8, Zenon DEF Submit

\* Every step keeps the heights in order.
LEMMA HeightsStep == IInv /\ [Next]_vars => HeightsInv'
<1>. SUFFICES ASSUME IInv, [Next]_vars PROVE HeightsInv'
  OBVIOUS
<1>1. HeightsInv
  BY DEF IInv
<1>2. CASE UNCHANGED vars \/ EnsureFails
  <2>1. UNCHANGED <<rows, committed, utxoCursor, rtCursor, next, at, from, seen, pc>>
    BY <1>2, Zenon DEF EnsureFails, vars
  <2>. QED
    BY <1>1, <2>1, SamePhase, Zenon
<1>. QED
  BY <1>1, <1>2, EnvironmentHeights, HeadHeights, RollbackHeights, ParseHeights,
     SubmitHeights, Zenon DEF Next, Loop

\* The inductive invariant holds in every reachable state.
THEOREM Invariance == Spec => []IInv
<1>1. IInv /\ [Next]_vars => IInv'
  BY TypeStep, HeightsStep, Zenon DEF IInv
<1>. QED
  BY <1>1, InitIInv, PTL DEF Spec

\* Type correctness for every tree of blocks, batch size and set of faults.
THEOREM TypeCorrect == Spec => []TypeOK
<1>1. IInv => TypeOK
  BY DEF IInv
<1>. QED
  BY <1>1, Invariance, PTL

\* However submits and rollbacks are interrupted, the committed rows of
\* sync_blocks have no gap and carry a block hash.
THEOREM CommittedPrefixHolds == Spec => []CommittedPrefix
<1>1. IInv => CommittedPrefix
  <2>. SUFFICES ASSUME StoreInv PROVE CommittedPrefix
    BY DEF IInv, HeightsInv
  <2>1. PICK n \in 0 .. MaxHeight : committed = 1 .. n
    BY Zenon DEF StoreInv
  <2>2. \A h \in committed : \A g \in 1 .. h : g \in committed
    BY <2>1, BoundAssumption
  <2>. QED
    BY <2>2, Zenon DEF StoreInv, CommittedPrefix
<1>. QED
  BY <1>1, Invariance, PTL

\* No Redis height ever passes a block whose row is not in PostgreSQL, at any
\* point where a failure or a crash can cut a submit or a rollback.
THEOREM WriteAheadHolds == Spec => []WriteAhead
<1>1. IInv => WriteAhead
  BY DEF IInv, HeightsInv, StoreInv
<1>. QED
  BY <1>1, Invariance, PTL

\* The steps that write the hash, the state or the deltas of a block.
LEMMA RowWriters ==
    [Next]_vars => \/ UNCHANGED <<rows, committed, deltas>>
                   \/ Flush \/ Mark \/ RbArtifacts \/ RbBlocks
<1>. SUFFICES ASSUME [Next]_vars,
                     ~(Flush \/ Mark \/ RbArtifacts \/ RbBlocks)
              PROVE  UNCHANGED <<rows, committed, deltas>>
  BY Zenon
<1>1. ASSUME UNCHANGED pg PROVE UNCHANGED <<rows, committed, deltas>>
  BY <1>1, Zenon DEF pg
<1>2. CASE Environment
  <2>1. UNCHANGED pg
    BY <1>2, Zenon DEF Environment, NodeExtends, NodeReorganises, Signal, Boot, StorageFails,
                Crash
  <2>. QED
    BY <1>1, <2>1, Zenon
<1>3. CASE RbRealtime \/ RbRealtimeCursor \/ RbUtxo \/ RbUtxoCursor
  <2>1. UNCHANGED pg
    BY <1>3, Zenon DEF RbRealtime, RbRealtimeCursor, RbUtxo, RbUtxoCursor
  <2>. QED
    BY <1>1, <2>1
<1>4. CASE RbStake \/ Persist
  BY <1>4, Zenon DEF RbStake, Persist, blocksTab, artifacts
<1>5. CASE Parse
  <2>1. UNCHANGED pg
    BY <1>5, Zenon DEF Parse, ParseEnds, SerialStart, FastBlock, Finalize, Parsed
  <2>. QED
    BY <1>1, <2>1
<1>6. CASE UtxoAdd \/ UtxoDel \/ UtxoCursor \/ Realtime \/ FlushStaged
  <2>1. UNCHANGED pg
    BY <1>6, Zenon DEF UtxoAdd, UtxoDel, UtxoCursor, Realtime, FlushStaged
  <2>. QED
    BY <1>1, <2>1
<1>7. CASE Ensure \/ Exit \/ CheckWalk \/ CheckPasses \/ CheckRollsBack
  <2>1. UNCHANGED pg
    BY <1>7, Zenon DEF Ensure, Exit, CheckWalk, Walk, CheckPasses, CheckRollsBack
  <2>. QED
    BY <1>1, <2>1
<1>8. CASE LoadBindings \/ FetchWalk \/ FetchIdle \/ FetchDone
  <2>1. UNCHANGED pg
    BY <1>8, Zenon DEF LoadBindings, FetchWalk, Walk, FetchIdle, FetchDone
  <2>. QED
    BY <1>1, <2>1
<1>9. CASE UNCHANGED vars \/ EnsureFails
  BY <1>9, Zenon DEF EnsureFails, vars
<1>. QED
  BY <1>2, <1>3, <1>4, <1>5, <1>6, <1>7, <1>8, <1>9, Zenon
     DEF Next, Loop, Rollback, Submit

\* Nothing Flush writes is at or below a Redis height or a committed row.
LEMMA BatchIsAbove ==
    ASSUME IInv, pc = "flush", NEW h \in Height, InBatch(h)
    PROVE  h > utxoCursor /\ h > rtCursor /\ h \notin committed
<1>1. CommittedBelow /\ CursorsBelow
  BY Zenon DEF IInv, HeightsInv, PhaseInv, BeforeCursors
<1>2. HeightTypes
  BY HeightTypesHold DEF IInv
<1>. QED
  BY <1>1, <1>2 DEF CommittedBelow, CursorsBelow, InBatch, HeightTypes, Height

\* Nothing the deletes of a rollback remove is at or below a Redis height.
LEMMA RolledBackIsAbove ==
    ASSUME IInv, pc \in {"rbArtifacts", "rbBlocks"}, NEW h \in Height, RolledBack(h)
    PROVE  h > utxoCursor /\ h > rtCursor
<1>1. rtCursor < from /\ utxoCursor < from
  BY Zenon DEF IInv, HeightsInv, PhaseInv, RollingBack
<1>2. HeightTypes
  BY HeightTypesHold, Zenon DEF IInv
<1>. QED
  BY <1>1, <1>2 DEF RolledBack, HeightTypes, Height

\* No step rewrites or deletes the hash or the address deltas of a height that
\* a Redis store reflects: only Flush, RbArtifacts and RbBlocks write them, and
\* HeightsInv puts both Redis heights below what they write.
THEOREM AppliedArtifactsAreStable == Spec => AppliedArtifactsStable
<1>. DEFINE Stable == \A h \in Height : h <= utxoCursor \/ h <= rtCursor =>
                          rows'[h] = rows[h] /\ deltas'[h] = deltas[h]
<1>1. IInv /\ [Next]_vars => Stable
  <2>. SUFFICES ASSUME IInv, [Next]_vars, NEW h \in Height,
                       h <= utxoCursor \/ h <= rtCursor
                PROVE  rows'[h] = rows[h] /\ deltas'[h] = deltas[h]
    BY Zenon
  <2>0. h \in Int /\ utxoCursor \in Int /\ rtCursor \in Int
    BY HeightTypesHold DEF IInv, HeightTypes, Height
  <2>1. ~(h > utxoCursor /\ h > rtCursor)
    BY <2>0, SMTT(30)
  <2>2. CASE Flush
    <3>1. ~InBatch(h)
      BY <2>1, <2>2, BatchIsAbove, Zenon DEF Flush
    <3>. QED
      BY <2>2, <3>1, Zenon DEF Flush
  <2>3. CASE RbArtifacts
    <3>1. ~RolledBack(h)
      BY <2>1, <2>3, RolledBackIsAbove, Zenon DEF RbArtifacts
    <3>. QED
      BY <2>3, <3>1, Zenon DEF RbArtifacts, blocksTab
  <2>4. CASE RbBlocks
    <3>1. ~RolledBack(h)
      BY <2>1, <2>4, RolledBackIsAbove, Zenon DEF RbBlocks
    <3>. QED
      BY <2>4, <3>1, Zenon DEF RbBlocks, artifacts
  <2>5. CASE Mark
    BY <2>5, Zenon DEF Mark, artifacts
  <2>. QED
    BY <2>2, <2>3, <2>4, <2>5, RowWriters, Zenon
<1>2. IInv /\ [Next]_vars => [Stable]_vars
  BY <1>1, Zenon
<1>. QED
  BY <1>2, Invariance, PTL DEF Spec, AppliedArtifactsStable

\* The committed rows of sync_blocks implement the log of IndexLog: a submit
\* appends a batch, a rollback cuts to a prefix, and every other step of the
\* loop, of the node or of a failure leaves the log as it is.
THEOREM Refinement == Spec => ImplementsLog
<1>1. Init => Log!Init
  BY DEF Init, Log!Init, Indexed
<1>2. IInv /\ IInv' /\ [Next]_vars => [Log!Next]_Indexed
  <2>. SUFFICES ASSUME IInv, IInv', [Next]_vars PROVE [Log!Next]_Indexed
    BY Zenon
  <2>1. PICK n \in 0 .. MaxHeight : committed = 1 .. n
    BY Zenon DEF IInv, HeightsInv, StoreInv
  <2>2. PICK m \in 0 .. MaxHeight : committed' = 1 .. m
    BY Zenon DEF IInv, HeightsInv, StoreInv
  <2>3. DOMAIN Indexed = 1 .. n /\ \A i \in 1 .. n : Indexed[i] = rows[i]
    BY <2>1, Zenon DEF Indexed
  <2>4. DOMAIN Indexed' = 1 .. m /\ \A i \in 1 .. m : Indexed'[i] = rows'[i]
    BY <2>2, Zenon DEF Indexed
  <2>5. n \in Nat /\ m \in Nat /\ n <= MaxHeight /\ m <= MaxHeight /\ MaxHeight \in Nat
    BY BoundAssumption, SMTT(30)
  <2>6. Log!IsLog(Indexed')
    <3>1. \A i \in 1 .. m : rows'[i] \in Block
      BY <2>2, Zenon DEF IInv, TypeOK, TablesType, HeightsInv, StoreInv
    <3>2. \A i \in 1 .. m : i >= 1 /\ 1 .. i \subseteq 1 .. m
      BY <2>5
    <3>. QED
      BY <2>4, <3>1, <3>2, Zenon DEF Log!IsLog
  <2>7. ASSUME m = n, \A i \in 1 .. n : rows'[i] = rows[i]
        PROVE  UNCHANGED Indexed
    BY <2>1, <2>2, <2>7, Zenon DEF Indexed
  <2>8. CASE Flush
    <3>1. committed \subseteq Height
      BY Zenon DEF IInv, TypeOK, TablesType
    <3>2. \A h \in committed : ~InBatch(h)
      BY <2>8, <3>1, BatchIsAbove, ZenonT(40) DEF Flush
    <3>3. committed' = committed /\ \A h \in committed : rows'[h] = rows[h]
      BY <2>8, <3>1, <3>2, Zenon DEF Flush
    <3>. QED
      BY <3>3, Zenon DEF Indexed
  <2>9. CASE RbBlocks
    <3>1. committed' = {h \in committed : ~RolledBack(h)}
      BY <2>9, Zenon DEF RbBlocks
    <3>2. m <= n
      BY <2>1, <2>2, <2>5, <3>1, SMTT(30)
    <3>3. \A i \in 1 .. m : ~RolledBack(i) /\ i \in Height
      BY <2>2, <2>5, <3>1, SMTT(30) DEF Height
    <3>4. \A i \in 1 .. m : rows'[i] = rows[i]
      BY <2>9, <3>3, Zenon DEF RbBlocks
    <3>5. CASE m = n
      BY <2>7, <3>4, <3>5, Zenon
    <3>6. CASE m < n
      <4>1. Log!IsPrefixOf(Indexed', Indexed)
        <5>1. 1 .. m \subseteq 1 .. n /\ 1 .. m # 1 .. n
          BY <2>5, <3>6
        <5>. QED
          BY <2>3, <2>4, <3>4, <5>1, Zenon DEF Log!IsPrefixOf
      <4>. QED
        BY <2>6, <4>1, Zenon DEF Log!Next, Log!Truncate
    <3>. QED
      BY <2>5, <3>2, <3>5, <3>6, SMTT(30)
  <2>10. CASE Mark
    <3>1. committed \subseteq committed' /\ rows' = rows
      BY <2>10, Zenon DEF Mark
    <3>2. n <= m
      BY <2>1, <2>2, <2>5, <3>1
    <3>3. CASE m = n
      BY <2>7, <3>1, <3>3, Zenon
    <3>4. CASE n < m
      <4>1. Log!IsPrefixOf(Indexed, Indexed')
        <5>1. 1 .. n \subseteq 1 .. m /\ 1 .. n # 1 .. m
          BY <2>5, <3>4
        <5>. QED
          BY <2>3, <2>4, <3>1, <5>1, Zenon DEF Log!IsPrefixOf
      <4>. QED
        BY <2>6, <4>1, Zenon DEF Log!Next, Log!Extend
    <3>. QED
      BY <2>5, <3>2, <3>3, <3>4, SMTT(30)
  <2>11. CASE RbArtifacts
    BY <2>11, Zenon DEF RbArtifacts, blocksTab, Indexed
  <2>12. CASE UNCHANGED <<rows, committed, deltas>>
    BY <2>12, Zenon DEF Indexed
  <2>. QED
    BY <2>8, <2>9, <2>10, <2>11, <2>12, RowWriters, Zenon
<1>. QED
  BY <1>1, <1>2, Invariance, PTL DEF Spec, ImplementsLog, Log!Spec
=============================================================================
