---------------------------- MODULE MempoolProofs ----------------------------
(***************************************************************************)
(* The pending view, for every set of transactions, chain and choice of    *)
(* faults.  First the sums: what a listed mempool adds to the balances of  *)
(* addresses, users and indexers is what a block with it commits, and the  *)
(* queries of a state whose stored deltas are those of its listing agree.  *)
(* Then the invariants: the tables hold what the synchronisation says they *)
(* hold, committed rows survive it, and the pending totals foretell the    *)
(* next commit.                                                            *)
(***************************************************************************)
EXTENDS MempoolSync, SumLemmas, SequenceTheorems, TLAPS

\* Outputs of stake addresses, and a confirmed state.
Outs == Txs \X Addr
Ledger == [bound : SUBSET Addr, utxo : SUBSET Outs]
------------------------------------------------------------------------------
\* What transactions spend, pay and bind are outputs and addresses.
LEMMA MoveTypes ==
    ASSUME NEW S, S \subseteq Txs
    PROVE  /\ Spends(S) \subseteq Outs /\ Pays(S) \subseteq Outs
           /\ Binds(S) \subseteq Addr
           /\ EventTxs(S) \subseteq S /\ Protocol(S) \subseteq S
BY PendingAssumption DEF Spends, Pays, Binds, Outs, EventTxs, Protocol

\* A set of outputs is finite and is worth a natural number.
LEMMA OutsFinite ==
    ASSUME NEW O, O \subseteq Outs
    PROVE  IsFiniteSet(O) /\ \A o \in O : Value(o) \in Nat
<1>1. IsFiniteSet(Outs)
  BY FS_Product, PendingAssumption DEF Outs
<1>2. \A o \in O : o[1] \in Txs /\ o[2] \in Addr
  BY DEF Outs
<1>. QED
  BY <1>1, <1>2, FS_Subset, PendingAssumption DEF Value

\* Outputs are worth a natural number of satoshis.
LEMMA WorthNat ==
    ASSUME NEW O, O \subseteq Outs PROVE Worth(O) \in Nat
BY OutsFinite, SumNat DEF Worth

\* Every address has a delta, possibly negative.
LEMMA DeltasType ==
    ASSUME NEW S, S \subseteq Txs, NEW tracked, NEW lost
    PROVE  AddressDeltas(S, tracked, lost) \in [Addr -> Int]
<1>1. ASSUME NEW a \in Addr
      PROVE  Worth(AtAddr(Pays(S), a)) - Worth(AtAddr(Spends(S) \ lost, a)) \in Int
  <2>1. AtAddr(Pays(S), a) \subseteq Outs /\ AtAddr(Spends(S) \ lost, a) \subseteq Outs
    BY MoveTypes DEF AtAddr
  <2>2. /\ Worth(AtAddr(Pays(S), a)) \in Nat
        /\ Worth(AtAddr(Spends(S) \ lost, a)) \in Nat
    BY <2>1, WorthNat, Zenon
  <2>. QED
    BY <2>2
<1>. QED
  BY <1>1 DEF AddressDeltas

\* A committed block takes a ledger to a ledger.
LEMMA ApplyType ==
    ASSUME NEW s \in Ledger, NEW S, S \subseteq Txs
    PROVE  ApplyBlock(s, S) \in Ledger
BY MoveTypes DEF ApplyBlock, Ledger

\* A first pass over everything and a second one add up to one pass that
\* tracks the bound addresses and the ones bound first.
LEMMA TwoPasses ==
    ASSUME NEW S, S \subseteq Txs, NEW bound, NEW first, bound \cap first = {}
    PROVE  PlusDeltas(AddressDeltas(S, bound, {}), AddressDeltas(S, first, {}))
             = AddressDeltas(S, bound \cup first, {})
<1>. DEFINE w(a) == Worth(AtAddr(Pays(S), a)) - Worth(AtAddr(Spends(S) \ {}, a))
<1>1. ASSUME NEW a \in Addr PROVE w(a) \in Int
  <2>1. AtAddr(Pays(S), a) \subseteq Outs /\ AtAddr(Spends(S) \ {}, a) \subseteq Outs
    BY MoveTypes DEF AtAddr
  <2>2. /\ Worth(AtAddr(Pays(S), a)) \in Nat
        /\ Worth(AtAddr(Spends(S) \ {}, a)) \in Nat
    BY <2>1, WorthNat
  <2>. QED
    BY <2>2
<1>2. \A T : AddressDeltas(S, T, {}) = [a \in Addr |-> IF a \in T THEN w(a) ELSE 0]
  BY DEF AddressDeltas
<1>. HIDE DEF w
<1>3. \A a \in Addr : (IF a \in bound THEN w(a) ELSE 0) + (IF a \in first THEN w(a) ELSE 0)
                        = IF a \in bound \cup first THEN w(a) ELSE 0
  BY <1>1
<1>. QED
  BY <1>2, <1>3 DEF PlusDeltas

------------------------------------------------------------------------------
\* The worth of outputs as a sum of one function of all outputs, so that sets
\* of outputs can be taken apart.
OutValue == [o \in Outs |-> Value(o)]

\* Worth is that sum, over a finite set.
LEMMA WorthSum ==
    ASSUME NEW O, O \subseteq Outs
    PROVE  /\ Worth(O) = SumFunctionOnSet(OutValue, O)
           /\ IsFiniteSet(O) /\ \A o \in O : OutValue[o] \in Int
<1>1. IsFiniteSet(O) /\ \A o \in O : Value(o) \in Nat
  BY OutsFinite
<1>2. \A o \in O : OutValue[o] \in Int /\ [p \in O |-> Value(p)][o] = OutValue[o]
  BY <1>1 DEF OutValue
<1>. QED
  BY <1>1, <1>2, SumEq DEF Worth

\* Outputs a block adds, and outputs it spends among those that are there.
LEMMA WorthAfter ==
    ASSUME NEW O, O \subseteq Outs, NEW P, P \subseteq Outs, O \cap P = {},
           NEW Q, Q \subseteq O \cup P
    PROVE  Worth((O \cup P) \ Q) = Worth(O) + (Worth(P) - Worth(Q))
<1>1. /\ Worth(O) \in Nat /\ Worth(P) \in Nat /\ Worth(Q) \in Nat
      /\ Worth((O \cup P) \ Q) \in Nat /\ Worth(O \cup P) \in Nat
  BY WorthNat
<1>2. Worth(O \cup P) = Worth(O) + Worth(P)
  BY WorthSum, SumUnion
<1>3. Worth(O \cup P) = Worth(Q) + Worth((O \cup P) \ Q)
  <2>1. O \cup P \subseteq Outs /\ Q \subseteq Outs /\ (O \cup P) \ Q \subseteq Outs
    BY SMTT(30)
  <2>. QED
    BY <2>1, WorthSum, SumSplit, SMTT(30)
<1>. QED
  BY <1>1, <1>2, <1>3, SMTT(30)

\* Nothing that s holds is paid again by the listing, and the listing spends
\* what s holds or what it pays itself.
Covers(s, list) ==
    /\ s.utxo \cap Pays(list) = {}
    /\ Spends(list) \subseteq s.utxo \cup Pays(list)
    /\ \A o \in s.utxo : o[2] \in s.bound

\* after is the state once the listing is committed to s, and d are the deltas
\* of one pass over the listing.
Foresees(s, list, after, d) ==
    /\ s \in Ledger /\ list \subseteq Txs /\ Covers(s, list)
    /\ after = ApplyBlock(s, list)
    /\ d = AddressDeltas(list, after.bound, {})

\* The balance of an address after a block with the listing is the confirmed
\* one and its delta.
LEMMA BalanceAfter ==
    ASSUME NEW s, NEW list, NEW after, NEW d, Foresees(s, list, after, d), NEW a \in Addr
    PROVE  /\ Balance(s, a) \in Nat /\ Balance(after, a) \in Nat /\ d[a] \in Int
           /\ Balance(after, a) = Balance(s, a) + d[a]
           /\ a \notin s.bound => Balance(s, a) = 0
           /\ a \notin after.bound => d[a] = 0
<1>. USE DEF Foresees
<1>. DEFINE O == AtAddr(s.utxo, a)
            P == AtAddr(Pays(list), a)
            Q == AtAddr(Spends(list), a)
<1>1. /\ s.utxo \subseteq Outs /\ Pays(list) \subseteq Outs /\ Spends(list) \subseteq Outs
      /\ after \in Ledger
  BY MoveTypes, ApplyType, SMTT(30) DEF Ledger
<1>2. /\ O \subseteq Outs /\ P \subseteq Outs /\ Q \subseteq Outs
      /\ O \cap P = {} /\ Q \subseteq O \cup P
  BY <1>1 DEF AtAddr, Covers
<1>3. AtAddr(Spends(list) \ {}, a) = Q
  BY DEF AtAddr
<1>4. AtAddr(after.utxo, a) \subseteq Outs
  BY <1>1, SMTT(30) DEF AtAddr, Ledger
<1>5. /\ Worth(O) \in Nat /\ Worth(P) \in Nat /\ Worth(Q) \in Nat
      /\ Worth(AtAddr(after.utxo, a)) \in Nat
  BY <1>2, <1>4, WorthNat, SMTT(30)
<1>6. a \notin s.bound => O = {}
  BY DEF Covers, AtAddr
<1>7. Worth({}) = 0
  BY SumEmpty DEF Worth
<1>8. d[a] = IF a \in after.bound THEN Worth(P) - Worth(Q) ELSE 0
  BY <1>3 DEF AddressDeltas
<1>9. CASE a \in after.bound
  <2>1. AtAddr(after.utxo, a) = (O \cup P) \ Q
    BY <1>9 DEF ApplyBlock, AtAddr
  <2>2. Worth(AtAddr(after.utxo, a)) = Worth(O) + (Worth(P) - Worth(Q))
    BY <1>2, <2>1, WorthAfter, SMTT(30)
  <2>. HIDE DEF O, P, Q
  <2>3. Balance(s, a) = Worth(O) /\ Balance(after, a) = Worth(AtAddr(after.utxo, a))
    BY DEF Balance, O
  <2>4. /\ Balance(s, a) \in Nat /\ Balance(after, a) \in Nat /\ d[a] \in Int
        /\ Balance(after, a) = Balance(s, a) + d[a]
    BY <1>5, <1>8, <1>9, <2>2, <2>3, SMTT(30)
  <2>5. a \notin s.bound => Balance(s, a) = 0
    BY <1>6, <1>7, <2>3, Zenon
  <2>. QED
    BY <1>9, <2>4, <2>5, Zenon
<1>10. CASE a \notin after.bound
  <2>1. a \notin s.bound
    BY <1>10, SMTT(30) DEF ApplyBlock
  <2>2. AtAddr(after.utxo, a) = {} /\ O = {}
    BY <1>6, <1>10, <2>1, SMTT(30) DEF ApplyBlock, AtAddr
  <2>3. Balance(s, a) = 0 /\ Balance(after, a) = 0
    BY <1>7, <2>2 DEF Balance
  <2>4. d[a] = 0
    BY <1>8, <1>10
  <2>. QED
    BY <2>1, <2>3, <2>4, SMTT(30)
<1>. QED
  BY <1>9, <1>10

\* A sum of balances over addresses, as a sum of one function.
BalanceOf(s) == [a \in Addr |-> Balance(s, a)]

\* SumBalance is that sum, a natural number.
LEMMA SumBalances ==
    ASSUME NEW s \in Ledger, NEW A, A \subseteq Addr
    PROVE  /\ SumBalance(s, A) = SumFunctionOnSet(BalanceOf(s), A)
           /\ SumBalance(s, A) \in Nat
           /\ IsFiniteSet(A) /\ \A a \in A : BalanceOf(s)[a] \in Int
<1>1. IsFiniteSet(A)
  BY FS_Subset, PendingAssumption
<1>2. \A a \in A : Balance(s, a) \in Nat
  <2>1. ASSUME NEW a \in A PROVE AtAddr(s.utxo, a) \subseteq Outs
    BY DEF AtAddr, Ledger
  <2>. QED
    BY <2>1, WorthNat DEF Balance
<1>3. \A a \in A : /\ BalanceOf(s)[a] \in Int
                   /\ [b \in A |-> Balance(s, b)][a] = BalanceOf(s)[a]
                   /\ [b \in A |-> Balance(s, b)][a] \in Nat
  BY <1>2 DEF BalanceOf
<1>. QED
  BY <1>1, <1>3, SumEq, SumNat, SMTT(30) DEF SumBalance

\* The balances of any addresses after a block with the listing are the
\* confirmed balances of those that are bound and the deltas of all.
LEMMA TotalAfter ==
    ASSUME NEW s, NEW list, NEW after, NEW d, Foresees(s, list, after, d),
           NEW A \in SUBSET Addr, NEW C, C = A \cap s.bound
    PROVE  /\ SumBalance(after, A) \in Nat /\ SumBalance(s, C) \in Nat
           /\ SumDelta(d, A) \in Int
           /\ SumBalance(after, A) = SumBalance(s, C) + SumDelta(d, A)
<1>1. s \in Ledger /\ after \in Ledger
  BY ApplyType, SMTT(30) DEF Foresees
<1>2. \A a \in A : /\ Balance(s, a) \in Nat /\ Balance(after, a) \in Nat /\ d[a] \in Int
                   /\ Balance(after, a) = Balance(s, a) + d[a]
                   /\ a \notin s.bound => Balance(s, a) = 0
  BY BalanceAfter, SMTT(30)
<1>3. \A a \in A : /\ BalanceOf(s)[a] \in Int /\ d[a] \in Int
                   /\ BalanceOf(after)[a] = BalanceOf(s)[a] + d[a]
                   /\ a \notin s.bound => BalanceOf(s)[a] = 0
  BY <1>2, SMTT(30) DEF BalanceOf
<1>4. IsFiniteSet(A) /\ IsFiniteSet(A \ s.bound)
  BY FS_Subset, PendingAssumption, SMTT(30)
<1>5. SumFunctionOnSet(BalanceOf(after), A)
        = SumFunctionOnSet(BalanceOf(s), A) + SumFunctionOnSet(d, A)
  BY <1>3, <1>4, SumPlus, Zenon
<1>6. SumFunctionOnSet(BalanceOf(s), A) = SumFunctionOnSet(BalanceOf(s), C)
  <2>1. SumFunctionOnSet(BalanceOf(s), A \ s.bound) = 0
    BY <1>3, <1>4, SumZero, SMTT(30)
  <2>2. C \subseteq A /\ C \subseteq Addr /\ A \ C = A \ s.bound /\ IsFiniteSet(C)
    BY <1>4, FS_Subset, SMTT(30)
  <2>3. SumFunctionOnSet(BalanceOf(s), A)
          = SumFunctionOnSet(BalanceOf(s), C)
              + SumFunctionOnSet(BalanceOf(s), A \ s.bound)
    BY <1>3, <1>4, <2>2, SumSplit, SMTT(30)
  <2>4. SumFunctionOnSet(BalanceOf(s), C) \in Int
    BY <1>3, <2>2, SumInt, SMTT(30)
  <2>. QED
    BY <2>1, <2>3, <2>4, SMTT(30)
<1>7. /\ SumBalance(after, A) = SumFunctionOnSet(BalanceOf(after), A)
      /\ SumBalance(after, A) \in Nat
      /\ SumBalance(s, C) = SumFunctionOnSet(BalanceOf(s), C)
      /\ SumBalance(s, C) \in Nat
  <2>1. A \subseteq Addr /\ C \subseteq Addr
    OBVIOUS
  <2>. QED
    BY <1>1, <2>1, SumBalances, Zenon
<1>8. SumDelta(d, A) = SumFunctionOnSet(d, A) /\ SumFunctionOnSet(d, A) \in Int
  BY <1>3, <1>4, SumInt, SMTT(30) DEF SumDelta
<1>9. SumBalance(after, A) = SumBalance(s, C) + SumDelta(d, A)
  BY <1>5, <1>6, <1>7, <1>8, SMTT(30)
<1>. QED
  BY <1>7, <1>8, <1>9, SMTT(30)

------------------------------------------------------------------------------
\* A synchronisation whose listing is accounted for: the deltas it stored are
\* those of one pass over the listing, for the addresses bound after it.
After == ApplyBlock(State(db), job.list)
SyncedState ==
    /\ Foresees(State(db), job.list, After, job.delta)
    /\ State(db) \in Ledger /\ After \in Ledger
    /\ State(db).bound = job.bound /\ After.bound = job.bound \cup job.first
    /\ job.first = Binds(job.list) \ job.bound /\ job.delta \in [Addr -> Int]
    /\ cache = StakeBalanceDeltas(job.delta, job.bound, job.first)
    /\ snap = StakerSnapshots(State(db), job.delta, job.bound, job.first)
    /\ evs = EventTxs(job.list)

\* What the queries compute from the base and a delta is not clamped when it
\* is an amount.
LEMMA NotClamped ==
    ASSUME NEW base \in Int, NEW delta \in Int, base + delta \in Nat
    PROVE  /\ ApplyStakeDelta(base, delta) = base + delta
           /\ ApplyStakeDeltaUint(base, delta) = base + delta
BY DEF ApplyStakeDelta, ApplyStakeDeltaUint

\* The pending total of an indexer is its confirmed total once a block with
\* the listing is committed.
LEMMA Foretells ==
    ASSUME SyncedState, NEW i \in Indexers
    PROVE  IndexerTotal(i) = StakeTotal(After, i)
<1>. DEFINE s == State(db)
            after == ApplyBlock(s, job.list)
            A == Of(after.bound, i)
<1>1. /\ Foresees(s, job.list, after, job.delta) /\ s \in Ledger /\ after \in Ledger
      /\ s.bound = job.bound /\ after.bound = job.bound \cup job.first
      /\ cache = StakeBalanceDeltas(job.delta, job.bound, job.first)
  BY Zenon DEF SyncedState, After
<1>2. A \in SUBSET Addr /\ Of(s.bound, i) = A \cap s.bound
  BY <1>1, SMTT(30) DEF Of, Ledger
<1>3. cache.idx[i] = SumDelta(job.delta, A)
  BY <1>1, Zenon DEF StakeBalanceDeltas, IndexerDeltas
<1>4. /\ SumBalance(after, A) \in Nat /\ SumBalance(s, Of(s.bound, i)) \in Nat
      /\ SumDelta(job.delta, A) \in Int
      /\ SumBalance(after, A) = SumBalance(s, Of(s.bound, i)) + SumDelta(job.delta, A)
  <2>. HIDE DEF A, s, after
  <2>. QED
    BY <1>1, <1>2, TotalAfter, SMTT(30)
<1>5. IndexerTotal(i) = ApplyStakeDelta(SumBalance(s, Of(s.bound, i)), SumDelta(job.delta, A))
  BY <1>2, <1>3, Zenon DEF IndexerTotal, StakeTotal
<1>. HIDE DEF s, A
<1>6. IndexerTotal(i) = SumBalance(after, A)
  BY <1>4, <1>5, NotClamped, SMTT(30)
<1>. QED
  BY <1>6, SMTT(30) DEF s, A, StakeTotal, After

------------------------------------------------------------------------------
(***************************************************************************)
(* The stakers of an indexer.  saveMempoolIndexerStakerSnapshots merges    *)
(* the first binds of a user only when the user has no stake with the      *)
(* indexer, so that what follows is about users with one stake address for *)
(* each indexer.                                                           *)
(***************************************************************************)
OneStakeAddress ==
    \A a, b \in Addr : IndexerOf[a] = IndexerOf[b] /\ UserOf[a] = UserOf[b] => a = b

\* The amounts that a snapshot is made of.
ScoreDelta(d, s, i, u) == SumDelta(d, OfUser(s.bound, i, u))
FirstAmount(d, first, i, u) == SumDelta(d, {a \in OfUser(first, i, u) : d[a] > 0})

\* A user with one stake address for an indexer has it bound or bound first,
\* never both: one of the two amounts is zero.
LEMMA SnapshotParts ==
    ASSUME OneStakeAddress, NEW s \in Ledger, NEW d \in [Addr -> Int],
           NEW first, first \subseteq Addr, s.bound \cap first = {},
           NEW i, NEW u
    PROVE  /\ StakeScore(s, i, u) \in Nat /\ ScoreDelta(d, s, i, u) \in Int
           /\ FirstAmount(d, first, i, u) \in Nat
           /\ \/ StakeScore(s, i, u) = 0 /\ ScoreDelta(d, s, i, u) = 0
              \/ FirstAmount(d, first, i, u) = 0
<1>. DEFINE B == OfUser(s.bound, i, u)
            F == {a \in OfUser(first, i, u) : d[a] > 0}
<1>1. B \subseteq Addr /\ F \subseteq Addr
  BY DEF OfUser, Ledger
<1>2. B = {} \/ F = {}
  BY DEF OneStakeAddress, OfUser, Ledger
<1>3. \A a \in F : d[a] \in Nat
  BY <1>1
<1>. HIDE DEF B, F
<1>4. /\ IsFiniteSet(B) /\ IsFiniteSet(F)
      /\ \A a \in B : d[a] \in Int
  BY <1>1, FS_Subset, PendingAssumption, Zenon
<1>5. SumDelta(d, F) \in Nat /\ SumDelta(d, B) \in Int
  BY <1>3, <1>4, SumNat, SumInt, SMTT(30) DEF SumDelta
<1>6. SumBalance(s, B) \in Nat
  BY <1>1, SumBalances, SMTT(30)
<1>7. SumDelta(d, {}) = 0 /\ SumBalance(s, {}) = 0
  BY SumEmpty, Zenon DEF SumDelta, SumBalance
<1>8. (SumBalance(s, B) = 0 /\ SumDelta(d, B) = 0) \/ SumDelta(d, F) = 0
  BY <1>2, <1>7, ZenonT(40)
<1>. QED
  BY <1>5, <1>6, <1>8, Zenon DEF B, F, StakeScore, ScoreDelta, FirstAmount

\* What GetIndexerStakers lists for a user after a synchronisation: the merged
\* amount where there is a snapshot, the confirmed one elsewhere.
Snapshot(s, d, first) ==
    /\ s \in Ledger /\ d \in [Addr -> Int] /\ first \subseteq Addr
    /\ s.bound \cap first = {}
    /\ s = State(db) /\ snap = StakerSnapshots(s, d, s.bound, first)

\* What ListStakersByZSet reads of one indexer: the committed score moved by
\* the delta, and the users the snapshot marks as pending.
LEMMA ListedStaker ==
    ASSUME OneStakeAddress, NEW s, NEW d, NEW first, Snapshot(s, d, first),
           NEW i \in Indexers
    PROVE  \E z \in [Users -> Nat], pending \in SUBSET Users :
            /\ Stakers(i) = ListStakersByZSet(z, pending)
            /\ \A u \in Users :
                /\ z[u] = ApplyStakeDeltaUint(StakeScore(s, i, u), ScoreDelta(d, s, i, u))
                            + FirstAmount(d, first, i, u)
                /\ z[u] > 0 => (u \in pending <=> z[u] # StakeScore(s, i, u))
<1>. USE DEF Snapshot
<1>. DEFINE clamped(u) == ApplyStakeDeltaUint(StakeScore(s, i, u), ScoreDelta(d, s, i, u))
<1>1. \A u \in Users :
        /\ StakeScore(s, i, u) \in Nat /\ ScoreDelta(d, s, i, u) \in Int
        /\ FirstAmount(d, first, i, u) \in Nat
        /\ \/ StakeScore(s, i, u) = 0 /\ ScoreDelta(d, s, i, u) = 0
           \/ FirstAmount(d, first, i, u) = 0
  BY SnapshotParts, Zenon
<1>2. \A u \in Users :
        /\ StakerDeltas(d, s.bound)[i][u] = ScoreDelta(d, s, i, u)
        /\ FirstBindAmounts(d, first)[i][u] = FirstAmount(d, first, i, u)
  BY Zenon DEF StakerDeltas, FirstBindAmounts, ScoreDelta, FirstAmount
<1>3. CASE i \in DOMAIN snap
  <2>. DEFINE m == MergeStakers(s, d, s.bound, first, i)
  <2>1. snap[i] = m
    BY <1>3, Zenon DEF StakerSnapshots
  <2>2. /\ m.amount = [u \in Users |-> IF clamped(u) > 0 THEN clamped(u)
                                       ELSE FirstAmount(d, first, i, u)]
        /\ m.pending = {u \in Users : \/ ScoreDelta(d, s, i, u) # 0 /\ clamped(u) > 0
                                      \/ FirstAmount(d, first, i, u) > 0}
    BY <1>2, Zenon DEF MergeStakers
  <2>3. Stakers(i) = ListStakersByZSet(m.amount, m.pending)
    BY <1>3, <2>1, Zenon DEF Stakers
  <2>. HIDE DEF m
  <2>4. ASSUME NEW u \in Users
        PROVE  /\ m.amount[u] \in Nat
               /\ m.amount[u] = clamped(u) + FirstAmount(d, first, i, u)
               /\ m.amount[u] > 0 => (u \in m.pending <=> m.amount[u] # StakeScore(s, i, u))
    <3>1. clamped(u) \in Nat
      BY <1>1, SMTT(30) DEF ApplyStakeDeltaUint
    <3>2. /\ m.amount[u] = IF clamped(u) > 0 THEN clamped(u) ELSE FirstAmount(d, first, i, u)
          /\ u \in m.pending <=> \/ ScoreDelta(d, s, i, u) # 0 /\ clamped(u) > 0
                                 \/ FirstAmount(d, first, i, u) > 0
      BY <2>2, Zenon
    <3>3. StakeScore(s, i, u) = 0 /\ ScoreDelta(d, s, i, u) = 0 => clamped(u) = 0
      BY SMTT(30) DEF ApplyStakeDeltaUint
    <3>4. clamped(u) > 0 => clamped(u) = StakeScore(s, i, u) + ScoreDelta(d, s, i, u)
      BY <1>1, SMTT(30) DEF ApplyStakeDeltaUint
    <3>. HIDE DEF clamped
    <3>. QED
      BY <1>1, <3>1, <3>2, <3>3, <3>4, SMTT(30)
  <2>5. m.amount \in [Users -> Nat] /\ m.pending \in SUBSET Users
    <3>1. m.amount = [u \in Users |-> m.amount[u]]
      BY <2>2, Zenon
    <3>2. m.amount \in [Users -> Nat]
      BY <2>4, <3>1, Zenon
    <3>. QED
      BY <2>2, <3>2, Zenon
  <2>. QED
    BY <2>3, <2>4, <2>5, SMTT(30)
<1>4. CASE i \notin DOMAIN snap
  <2>. DEFINE z == [u \in Users |-> StakeScore(s, i, u)]
  <2>1. Stakers(i) = ListStakersByZSet(z, {})
    BY <1>4, Zenon DEF Stakers
  <2>2. \A u \in Users : StakerDeltas(d, s.bound)[i][u] = 0 /\ ~(FirstBindAmounts(d, first)[i][u] > 0)
    BY <1>4, Zenon DEF StakerSnapshots
  <2>3. \A u \in Users : ScoreDelta(d, s, i, u) = 0 /\ ~(FirstAmount(d, first, i, u) > 0)
    BY <1>2, <2>2, Zenon
  <2>4. \A u \in Users : z[u] = StakeScore(s, i, u) /\ z[u] \in Nat
    BY <1>1, <1>2, Zenon
  <2>5. \A u \in Users : clamped(u) + FirstAmount(d, first, i, u) = StakeScore(s, i, u)
    BY <1>1, <2>3, SMTT(30) DEF ApplyStakeDeltaUint
  <2>6. z \in [Users -> Nat]
    BY <2>4, Zenon
  <2>. HIDE DEF z
  <2>. QED
    BY <2>1, <2>4, <2>5, <2>6, SMTT(30)
<1>. QED
  BY <1>3, <1>4, Zenon

\* What the stakers listed by a query add up to.
LEMMA ListedAmounts ==
    ASSUME NEW z \in [Users -> Nat], NEW pending \in SUBSET Users
    PROVE  LET S == ListStakersByZSet(z, pending)
           IN  /\ \A u \in Users : SumAmounts({r \in S : r.user = u}) = z[u]
               /\ SumAmounts(S) = SumFunctionOnSet(z, Users)
               /\ IsFiniteSet(Users)
<1>. DEFINE row(u) == [user |-> u, amount |-> z[u], pending |-> u \in pending]
            S == ListStakersByZSet(z, pending)
            amount == [r \in S |-> r.amount]
<1>1. IsFiniteSet(Users)
  <2>1. [a \in Addr |-> UserOf[a]] \in Surjection(Addr, Users)
    BY DEF Users, Surjection
  <2>. QED
    BY <2>1, FS_Surjection, PendingAssumption, Zenon
<1>2. S = {row(u) : u \in {v \in Users : z[v] > 0}}
  BY DEF ListStakersByZSet
<1>3. \A u \in Users : row(u).user = u /\ row(u).amount = z[u]
  OBVIOUS
<1>4. IsFiniteSet(S)
  <2>. DEFINE T == {v \in Users : z[v] > 0}
  <2>1. IsFiniteSet(T)
    BY <1>1, FS_Subset, SMTT(30)
  <2>2. [u \in T |-> row(u)] \in Surjection(T, S)
    BY <1>2, Zenon DEF Surjection
  <2>. HIDE DEF T, S
  <2>. QED
    BY <2>1, <2>2, FS_Surjection, SMTT(30)
<1>. HIDE DEF S, row
<1>5. \A r \in S : amount[r] = r.amount /\ r.amount \in Nat /\ r.user \in Users
  BY <1>2, <1>3
<1>6. ASSUME NEW T, T \subseteq S PROVE SumAmounts(T) = SumFunctionOnSet(amount, T)
  <2>1. \A r \in T : amount[r] \in Int /\ [q \in T |-> q.amount][r] = amount[r]
    BY <1>5, <1>6, SMTT(30)
  <2>. QED
    BY <1>4, <1>6, <2>1, FS_Subset, SumEq, Zenon DEF SumAmounts
<1>. HIDE DEF amount
<1>7. ASSUME NEW u \in Users PROVE SumFunctionOnSet(amount, {r \in S : r.user = u}) = z[u]
  <2>1. CASE z[u] > 0
    <3>1. {r \in S : r.user = u} = {} \cup {row(u)} /\ row(u) \in S
      BY <1>2, <1>3, <2>1, SMTT(30)
    <3>2. amount[row(u)] = z[u] /\ z[u] \in Int
      BY <1>3, <1>5, <3>1, SMTT(30)
    <3>3. SumFunctionOnSet(amount, {} \cup {row(u)})
            = amount[row(u)] + SumFunctionOnSet(amount, {})
      BY <3>2, FS_EmptySet, SumAdd, Zenon
    <3>4. SumFunctionOnSet(amount, {}) = 0
      BY SumEmpty
    <3>5. SumFunctionOnSet(amount, {} \cup {row(u)}) = z[u]
      BY <3>2, <3>3, <3>4, SMTT(30)
    <3>. QED
      BY <3>1, <3>5, Zenon
  <2>2. CASE ~(z[u] > 0)
    <3>1. {r \in S : r.user = u} = {}
      BY <1>2, <1>3, <2>2, SMTT(30)
    <3>2. z[u] = 0
      BY <2>2, SMTT(30)
    <3>. QED
      BY <3>1, <3>2, SumEmpty, Zenon
  <2>. QED
    BY <2>1, <2>2, SMTT(30)
<1>8. \A u \in Users : SumAmounts({r \in S : r.user = u}) = z[u]
  BY <1>6, <1>7, SMTT(30)
<1>9. SumFunctionOnSet(amount, S) = SumFunctionOnSet(z, Users)
  <2>. DEFINE key == [r \in S |-> r.user]
              group == [u \in Users |-> SumFunctionOnSet(amount, {r \in S : key[r] = u})]
  <2>1. \A r \in S : key[r] \in Users /\ amount[r] \in Int /\ key[r] = r.user
    BY <1>5, SMTT(30)
  <2>2. SumFunctionOnSet(amount, S) = SumFunctionOnSet(group, Users)
    <3>. HIDE DEF key
    <3>. QED
      BY <1>1, <1>4, <2>1, SumGroup, SMTT(30)
  <2>3. \A u \in Users : {r \in S : key[r] = u} = {r \in S : r.user = u}
    BY <2>1
  <2>4. \A u \in Users : group[u] = SumFunctionOnSet(amount, {r \in S : r.user = u})
    <3>. HIDE DEF key
    <3>. QED
      BY <2>3, Zenon
  <2>5. \A u \in Users : z[u] \in Int /\ group[u] = z[u]
    <3>. HIDE DEF group
    <3>1. \A u \in Users : z[u] \in Int
      OBVIOUS
    <3>2. \A u \in Users : group[u] = z[u]
      BY <1>7, <2>4, Zenon
    <3>. QED
      BY <3>1, <3>2, SMTT(30)
  <2>. HIDE DEF group
  <2>. QED
    BY <1>1, <2>2, <2>5, SumEq, Zenon
<1>10. SumAmounts(S) = SumFunctionOnSet(amount, S)
  BY <1>6, SMTT(30)
<1>. QED
  BY <1>1, <1>8, <1>9, <1>10, SMTT(30) DEF S

\* The addresses that the listing binds first.
BindsFirst(s, after, first) ==
    /\ s \in Ledger /\ after \in Ledger
    /\ after.bound = s.bound \cup first /\ s.bound \cap first = {}

\* What the queries about stakers add up, with the listing committed.
LEMMA StakerAfter ==
    ASSUME NEW s, NEW list, NEW after, NEW d, Foresees(s, list, after, d),
           NEW first, BindsFirst(s, after, first),
           NEW i \in Indexers, NEW u \in Users
    PROVE  LET amount == SumBalance(after, OfUser(s.bound, i, u))
           IN  /\ amount \in Nat /\ FirstAmount(d, first, i, u) \in Nat
               /\ ApplyStakeDeltaUint(StakeScore(s, i, u), ScoreDelta(d, s, i, u)) = amount
               /\ amount + FirstAmount(d, first, i, u)
                    = SumBalance(after, OfUser(after.bound, i, u))
<1>. USE DEF BindsFirst
<1>. DEFINE B == OfUser(s.bound, i, u)
            F == OfUser(first, i, u)
<1>1. /\ B \subseteq Addr /\ F \subseteq Addr /\ B \cap F = {}
      /\ OfUser(after.bound, i, u) = B \cup F /\ B \cap s.bound = B /\ F \cap s.bound = {}
  BY Zenon DEF OfUser, Ledger
<1>2. StakeScore(s, i, u) = SumBalance(s, B) /\ ScoreDelta(d, s, i, u) = SumDelta(d, B)
  BY Zenon DEF StakeScore, ScoreDelta
<1>3. FirstAmount(d, first, i, u) = SumFunctionOnSet(d, {a \in F : d[a] > 0})
  BY Zenon DEF FirstAmount, SumDelta
<1>. HIDE DEF B, F
<1>4. /\ SumBalance(after, B) \in Nat /\ SumBalance(s, B) \in Nat /\ SumDelta(d, B) \in Int
      /\ SumBalance(after, B) = SumBalance(s, B) + SumDelta(d, B)
  <2>1. B \in SUBSET Addr /\ B = B \cap s.bound
    BY <1>1, Zenon
  <2>. QED
    BY <2>1, TotalAfter, SMTT(30)
<1>5. ApplyStakeDeltaUint(SumBalance(s, B), SumDelta(d, B)) = SumBalance(after, B)
  BY <1>4, NotClamped, SMTT(30)
<1>6. FirstAmount(d, first, i, u) = SumBalance(after, F) /\ SumBalance(after, F) \in Nat
  <2>1. ASSUME NEW a \in F PROVE d[a] \in Nat /\ BalanceOf(after)[a] = d[a]
    <3>1. a \in Addr /\ a \notin s.bound
      BY <1>1, Zenon
    <3>2. /\ Balance(s, a) = 0 /\ Balance(after, a) \in Nat /\ d[a] \in Int
          /\ Balance(after, a) = Balance(s, a) + d[a]
      BY <3>1, BalanceAfter, SMTT(30)
    <3>. QED
      BY <3>1, <3>2, SMTT(30) DEF BalanceOf
  <2>2. /\ SumBalance(after, F) = SumFunctionOnSet(BalanceOf(after), F)
        /\ SumBalance(after, F) \in Nat /\ IsFiniteSet(F)
    BY <1>1, SumBalances, Zenon
  <2>3. SumFunctionOnSet(BalanceOf(after), F) = SumFunctionOnSet(d, F)
    BY <2>1, <2>2, SumEq, SMTT(30)
  <2>4. SumFunctionOnSet(d, {a \in F : d[a] > 0}) = SumFunctionOnSet(d, F)
    BY <2>1, <2>2, SumPositive, Zenon
  <2>. QED
    BY <1>3, <2>2, <2>3, <2>4, Zenon
<1>7. SumBalance(after, B \cup F) = SumBalance(after, B) + SumBalance(after, F)
  <2>1. B \cup F \subseteq Addr
    BY <1>1, Zenon
  <2>2. /\ SumBalance(after, B) = SumFunctionOnSet(BalanceOf(after), B) /\ IsFiniteSet(B)
        /\ SumBalance(after, F) = SumFunctionOnSet(BalanceOf(after), F) /\ IsFiniteSet(F)
        /\ SumBalance(after, B \cup F) = SumFunctionOnSet(BalanceOf(after), B \cup F)
        /\ \A a \in B \cup F : BalanceOf(after)[a] \in Int
    BY <1>1, <2>1, SumBalances, Zenon
  <2>. QED
    BY <1>1, <2>2, SumUnion, SMTT(30)
<1>8. SumBalance(after, OfUser(after.bound, i, u)) = SumBalance(after, B \cup F)
  BY <1>1, Zenon
<1>. QED
  BY <1>2, <1>4, <1>5, <1>6, <1>7, <1>8, Zenon DEF B

\* GetUserStakings: positions of bound addresses, then those bound first.
LEMMA UserAfter ==
    ASSUME SyncedState,
           NEW i \in Indexers, NEW u \in Users
    PROVE  UserStaking(u, i) = SumBalance(After, OfUser(State(db).bound, i, u))
                                 + FirstAmount(job.delta, job.first, i, u)
<1>. DEFINE s == State(db)
            after == ApplyBlock(s, job.list)
            d == job.delta
            g == [a \in Addr |-> PositionOf(a)]
            B == OfUser(s.bound, i, u)
<1>1. /\ Foresees(s, job.list, after, d) /\ s \in Ledger /\ after \in Ledger
      /\ s.bound = job.bound /\ job.first = Binds(job.list) \ job.bound
      /\ cache.bal = d /\ evs = EventTxs(job.list)
  BY Zenon DEF SyncedState, After, StakeBalanceDeltas
<1>2. Binds(evs) = Binds(job.list)
  BY <1>1, Zenon DEF Binds, EventTxs, Protocol, IsStake
<1>3. B \subseteq Addr
  BY <1>1, Zenon DEF OfUser, Ledger
<1>4. \A a \in Addr : /\ Balance(s, a) \in Nat /\ d[a] \in Int /\ Balance(after, a) \in Nat
                      /\ Balance(after, a) = Balance(s, a) + d[a]
  <2>. HIDE DEF s, after, d
  <2>. QED
    BY <1>1, BalanceAfter, SMTT(30)
<1>5. \A a \in Addr : /\ PositionOf(a) = Balance(s, a) + d[a]
                      /\ g[a] = PositionOf(a) /\ g[a] = BalanceOf(after)[a] /\ g[a] \in Nat
  BY <1>1, <1>4, Zenon DEF PositionOf, BalanceOf
<1>6. ConfirmedPositions(u, i) = {a \in B : g[a] > 0}
  BY <1>3, <1>5, Zenon DEF ConfirmedPositions
<1>7. FirstBindPositions(u, i) = {a \in OfUser(job.first, i, u) : d[a] > 0}
  <2>1. ASSUME NEW a \in OfUser(Binds(job.list), i, u), d[a] > 0, a \in job.bound
        PROVE  a \in ConfirmedPositions(u, i)
    <3>1. a \in B /\ a \in Addr
      BY <1>1, <1>3, <2>1, Zenon DEF OfUser
    <3>2. g[a] > 0
      BY <1>4, <1>5, <2>1, <3>1, SMTT(30)
    <3>. QED
      BY <1>6, <3>1, <3>2, SMTT(30)
  <2>2. ConfirmedPositions(u, i) \subseteq job.bound
    BY <1>1, <1>6, Zenon DEF OfUser
  <2>. QED
    BY <1>1, <1>2, <2>1, <2>2, Zenon DEF FirstBindPositions, OfUser
<1>8. SumFunctionOnSet(g, ConfirmedPositions(u, i)) = SumBalance(after, B)
  <2>. HIDE DEF g, B, after
  <2>1. SumBalance(after, B) = SumFunctionOnSet(BalanceOf(after), B) /\ IsFiniteSet(B)
    BY <1>1, <1>3, SumBalances, Zenon
  <2>2. \A a \in B : /\ BalanceOf(after)[a] \in Int /\ g[a] = BalanceOf(after)[a]
                     /\ g[a] \in Nat
    BY <1>3, <1>5, SMTT(30)
  <2>3. SumFunctionOnSet(g, B) = SumFunctionOnSet(BalanceOf(after), B)
    BY <2>1, <2>2, SumEq, SMTT(30)
  <2>4. SumFunctionOnSet(g, {a \in B : g[a] > 0}) = SumFunctionOnSet(g, B)
    BY <2>1, <2>2, SumPositive, SMTT(30)
  <2>. QED
    BY <1>6, <2>1, <2>3, <2>4, Zenon
<1>9. SumDelta(cache.bal, FirstBindPositions(u, i)) = FirstAmount(d, job.first, i, u)
  BY <1>1, <1>7, Zenon DEF FirstAmount
<1>10. UserStaking(u, i) = SumFunctionOnSet(g, ConfirmedPositions(u, i))
                            + SumDelta(cache.bal, FirstBindPositions(u, i))
  BY DEF UserStaking
<1>. QED
  BY <1>8, <1>9, <1>10, Zenon DEF After

\* The totals of the indexers add up to that of the status.
LEMMA TotalsAgree ==
    ASSUME SyncedState
    PROVE  IndexersTotal = StatusTotal
<1>. DEFINE s == State(db)
            after == ApplyBlock(s, job.list)
            A == after.bound
            d == job.delta
<1>1. /\ Foresees(s, job.list, after, d) /\ s \in Ledger /\ after \in Ledger
      /\ s.bound = job.bound /\ A = job.bound \cup job.first
      /\ cache = StakeBalanceDeltas(d, job.bound, job.first)
  BY Zenon DEF SyncedState, After
<1>2. A \in SUBSET Addr /\ IsFiniteSet(A) /\ s.bound = A \cap s.bound
  BY <1>1, FS_Subset, PendingAssumption, SMTT(30) DEF Ledger
<1>3. IsFiniteSet(Indexers)
  <2>1. [a \in Addr |-> IndexerOf[a]] \in Surjection(Addr, Indexers)
    BY SMTT(30) DEF Indexers, Surjection
  <2>. QED
    BY <2>1, FS_Surjection, PendingAssumption, Zenon
<1>4. \A a \in A : IndexerOf[a] \in Indexers
  BY <1>2, Zenon DEF Indexers
<1>5. \A i \in Indexers : IndexerTotal(i) = SumBalance(after, Of(A, i))
  BY Foretells, SMTT(30) DEF StakeTotal, After
<1>6. cache.total = SumFunctionOnSet(IndexerDeltas(d, job.bound, job.first), Indexers)
  BY <1>1, Zenon DEF StakeBalanceDeltas
<1>7. \A i \in Indexers : /\ IndexerDeltas(d, job.bound, job.first)[i] = SumDelta(d, Of(A, i))
                          /\ Of(A, i) = {a \in A : IndexerOf[a] = i}
                          /\ Of(A, i) \subseteq Addr
  BY <1>1, <1>2, Zenon DEF IndexerDeltas, Of
<1>. HIDE DEF s, after, A, d
<1>8. /\ SumBalance(after, A) \in Nat /\ SumBalance(s, s.bound) \in Nat
      /\ SumDelta(d, A) \in Int
      /\ SumBalance(after, A) = SumBalance(s, s.bound) + SumDelta(d, A)
  BY <1>1, <1>2, TotalAfter, SMTT(30)
<1>9. \A a \in A : BalanceOf(after)[a] \in Int /\ d[a] \in Int
  <2>1. ASSUME NEW a \in A PROVE Balance(after, a) \in Nat /\ d[a] \in Int
    BY <1>1, <1>2, BalanceAfter, Zenon
  <2>. QED
    BY <1>2, <2>1, SMTT(30) DEF BalanceOf
<1>10. IndexersTotal = SumBalance(after, A)
  <2>. DEFINE total == [i \in Indexers |-> IndexerTotal(i)]
              group == [i \in Indexers |->
                        SumFunctionOnSet(BalanceOf(after), {a \in A : IndexerOf[a] = i})]
  <2>1. ASSUME NEW i \in Indexers PROVE group[i] \in Int /\ total[i] = group[i]
    <3>1. /\ SumBalance(after, Of(A, i)) = SumFunctionOnSet(BalanceOf(after), Of(A, i))
          /\ SumBalance(after, Of(A, i)) \in Nat
      BY <1>1, <1>7, SumBalances, Zenon
    <3>2. group[i] = SumFunctionOnSet(BalanceOf(after), Of(A, i))
      BY <1>7, Zenon
    <3>. HIDE DEF group
    <3>. QED
      BY <1>5, <3>1, <3>2, SMTT(30)
  <2>2. SumFunctionOnSet(BalanceOf(after), A) = SumFunctionOnSet(group, Indexers)
    BY <1>2, <1>3, <1>4, <1>9, SumGroup, SMTT(30)
  <2>3. IndexersTotal = SumFunctionOnSet(total, Indexers)
    BY SMTT(30) DEF IndexersTotal
  <2>. HIDE DEF total, group
  <2>4. SumFunctionOnSet(total, Indexers) = SumFunctionOnSet(group, Indexers)
    BY <1>3, <2>1, SumEq, Zenon
  <2>5. SumBalance(after, A) = SumFunctionOnSet(BalanceOf(after), A)
    BY <1>1, <1>2, SumBalances, Zenon
  <2>. QED
    BY <2>2, <2>3, <2>4, <2>5, SMTT(30)
<1>11. cache.total = SumDelta(d, A)
  <2>. DEFINE idx == IndexerDeltas(d, job.bound, job.first)
              group == [i \in Indexers |-> SumFunctionOnSet(d, {a \in A : IndexerOf[a] = i})]
  <2>1. ASSUME NEW i \in Indexers PROVE group[i] \in Int /\ idx[i] = group[i]
    <3>1. group[i] = SumFunctionOnSet(d, Of(A, i))
      BY <1>7, Zenon
    <3>2. SumFunctionOnSet(d, Of(A, i)) \in Int
      <4>1. IsFiniteSet(Of(A, i)) /\ \A a \in Of(A, i) : d[a] \in Int
        BY <1>2, <1>7, <1>9, FS_Subset, Zenon
      <4>. QED
        BY <4>1, SumInt, Zenon
    <3>. HIDE DEF group
    <3>. QED
      BY <1>7, <3>1, <3>2, Zenon DEF SumDelta
  <2>2. SumFunctionOnSet(d, A) = SumFunctionOnSet(group, Indexers)
    BY <1>2, <1>3, <1>4, <1>9, SumGroup, SMTT(30)
  <2>. HIDE DEF idx, group
  <2>3. SumFunctionOnSet(idx, Indexers) = SumFunctionOnSet(group, Indexers)
    BY <1>3, <2>1, SumEq
  <2>. QED
    BY <1>6, <2>2, <2>3, SMTT(30) DEF idx, SumDelta
<1>12. StatusTotal = ApplyStakeDelta(SumBalance(s, s.bound), SumDelta(d, A))
  BY <1>11, SMTT(30) DEF StatusTotal, s
<1>13. StatusTotal = SumBalance(after, A)
  BY <1>8, <1>12, NotClamped, SMTT(30)
<1>. QED
  BY <1>10, <1>13, SMTT(30)

\* The stakers of an indexer, listed and one by one.
LEMMA StakersAgree ==
    ASSUME OneStakeAddress, SyncedState,
           NEW i \in Indexers
    PROVE  /\ IndexerTotal(i) = SumAmounts(Stakers(i))
           /\ \A u \in Users :
                UserStaking(u, i) = SumAmounts({r \in Stakers(i) : r.user = u})
<1>. DEFINE s == State(db)
            after == ApplyBlock(s, job.list)
            A == Of(after.bound, i)
            d == job.delta
            score == [u \in Users |-> SumBalance(after, OfUser(after.bound, i, u))]
<1>1. /\ Foresees(s, job.list, after, d) /\ s \in Ledger /\ after \in Ledger
      /\ after.bound = s.bound \cup job.first /\ s.bound \cap job.first = {}
      /\ snap = StakerSnapshots(s, d, s.bound, job.first)
  BY Zenon DEF SyncedState, After
<1>2. Snapshot(s, d, job.first)
  <2>1. job.first \subseteq Addr /\ d \in [Addr -> Int]
    BY <1>1, Zenon DEF SyncedState, Ledger
  <2>. QED
    BY <1>1, <2>1, Zenon DEF Snapshot
<1>3. ASSUME NEW u \in Users
      PROVE  UserStaking(u, i) = SumBalance(after, OfUser(s.bound, i, u))
                                   + FirstAmount(d, job.first, i, u)
  BY UserAfter, Zenon DEF After
<1>4. IndexerTotal(i) = SumBalance(after, A)
  BY Foretells, SMTT(30) DEF StakeTotal, After
<1>5. A \subseteq Addr /\ \A a \in A : UserOf[a] \in Users
  BY <1>1, Zenon DEF Of, Ledger, Users
<1>6. \A u \in Users : {a \in A : UserOf[a] = u} = OfUser(after.bound, i, u)
  BY Zenon DEF Of, OfUser
<1>. HIDE DEF s, after, A, d
<1>7. PICK z \in [Users -> Nat], pending \in SUBSET Users :
        /\ Stakers(i) = ListStakersByZSet(z, pending)
        /\ \A u \in Users :
            z[u] = ApplyStakeDeltaUint(StakeScore(s, i, u), ScoreDelta(d, s, i, u))
                     + FirstAmount(d, job.first, i, u)
  BY <1>2, ListedStaker, SMTT(30)
<1>8. ASSUME NEW u \in Users PROVE z[u] = UserStaking(u, i) /\ z[u] = score[u]
  <2>1. /\ ApplyStakeDeltaUint(StakeScore(s, i, u), ScoreDelta(d, s, i, u))
              = SumBalance(after, OfUser(s.bound, i, u))
        /\ SumBalance(after, OfUser(s.bound, i, u)) + FirstAmount(d, job.first, i, u)
              = SumBalance(after, OfUser(after.bound, i, u))
    <3>1. BindsFirst(s, after, job.first)
      BY <1>1, Zenon DEF BindsFirst
    <3>2. Foresees(s, job.list, after, d)
      BY <1>1, Zenon
    <3>. QED
      BY <3>1, <3>2, StakerAfter, SMTT(30)
  <2>. QED
    BY <1>3, <1>7, <2>1, Zenon
<1>. HIDE DEF score
<1>9. /\ \A u \in Users : SumAmounts({r \in Stakers(i) : r.user = u}) = z[u]
      /\ SumAmounts(Stakers(i)) = SumFunctionOnSet(z, Users)
      /\ IsFiniteSet(Users)
  BY <1>7, ListedAmounts, Zenon
<1>10. SumBalance(after, A) = SumFunctionOnSet(z, Users)
  <2>. DEFINE group == [u \in Users |->
                SumFunctionOnSet(BalanceOf(after), {a \in A : UserOf[a] = u})]
  <2>1. /\ SumBalance(after, A) = SumFunctionOnSet(BalanceOf(after), A)
        /\ IsFiniteSet(A) /\ \A a \in A : BalanceOf(after)[a] \in Int
    BY <1>1, <1>5, SumBalances, Zenon
  <2>2. SumFunctionOnSet(BalanceOf(after), A) = SumFunctionOnSet(group, Users)
    BY <1>5, <1>9, <2>1, SumGroup, SMTT(30)
  <2>3. ASSUME NEW u \in Users PROVE group[u] = z[u]
    <3>1. group[u] = SumFunctionOnSet(BalanceOf(after), OfUser(after.bound, i, u))
      BY <1>6, Zenon
    <3>2. OfUser(after.bound, i, u) \subseteq Addr
      BY <1>1, Zenon DEF OfUser, Ledger
    <3>3. SumBalance(after, OfUser(after.bound, i, u))
            = SumFunctionOnSet(BalanceOf(after), OfUser(after.bound, i, u))
      BY <1>1, <3>2, SumBalances, Zenon
    <3>. HIDE DEF group
    <3>. QED
      BY <1>8, <3>1, <3>3, Zenon DEF score
  <2>. HIDE DEF group
  <2>4. SumFunctionOnSet(group, Users) = SumFunctionOnSet(z, Users)
    BY <1>9, <2>3, SumEq, SMTT(30)
  <2>. QED
    BY <2>1, <2>2, <2>4, Zenon
<1>. QED
  BY <1>4, <1>8, <1>9, <1>10, Zenon

------------------------------------------------------------------------------
(***************************************************************************)
(* The tables and the job of the synchronisation.                          *)
(***************************************************************************)
BlockType == [txs : SUBSET Txs, fork : Forks]
Committed == [block : BlockType, state : Ledger]
JobType ==
    [list : SUBSET Txs, oldEvs : SUBSET Txs, oldInsc : SUBSET Txs,
     got : SUBSET Txs, delta : [Addr -> Int], bound : SUBSET Addr,
     first : SUBSET Addr, complete : BOOLEAN, lost : SUBSET Outs]

NodeType ==
    /\ pool \subseteq Txs /\ reorged \in BOOLEAN
    /\ chain \in Seq(BlockType) /\ Len(chain) <= MaxBlocks

DbType == db \in Seq(Committed) /\ Len(db) <= MaxBlocks

TypeInv ==
    /\ NodeType /\ DbType
    /\ evs \subseteq Txs /\ insc \in [Txs -> 0 .. MEMPOOL_HEIGHT]
    /\ job \in JobType
------------------------------------------------------------------------------

\* The confirmed state, before and after one more block.
LEMMA StateType == ASSUME DbType PROVE State(db) \in Ledger
<1>1. CASE db = <<>>
  BY <1>1, Zenon DEF State, Empty, Ledger
<1>2. CASE db # <<>>
  <2>1. db[Len(db)] \in Committed
    BY <1>2, EmptySeq, SMTT(30) DEF DbType
  <2>. QED
    BY <1>2, <2>1, Zenon DEF State, Committed
<1>. QED
  BY <1>1, <1>2, SMTT(30)

------------------------------------------------------------------------------
\* RollbackCheckWithFloor keeps a prefix of the committed blocks.
Same == {n \in 0 .. Len(db) :
            n <= Len(chain) /\ SubSeq(Blocks(db), 1, n) = SubSeq(chain, 1, n)}

\* The prefix is never empty of candidates, and is everything when the node
\* agrees with all the committed blocks.
LEMMA KeepType ==
    ASSUME DbType, NodeType
    PROVE  /\ Max(Same) \in 0 .. Len(db)
           /\ Len(db) \in Same => Max(Same) = Len(db)
<1>1. Len(db) \in Nat /\ Len(chain) \in Nat
  BY DEF DbType, NodeType
<1>2. SubSeq(Blocks(db), 1, 0) = <<>> /\ SubSeq(chain, 1, 0) = <<>>
  BY SubSeqEmpty, SMTT(30)
<1>3. 0 \in Same
  BY <1>1, <1>2, SMTT(30) DEF Same
<1>4. \E n \in Same : \A m \in Same : n >= m
  <2>. DEFINE T == {k \in Nat : Len(db) - k \in Same}
  <2>1. Len(db) \in T
    BY <1>1, <1>3, SMTT(30)
  <2>2. PICK k \in T : \A j \in T : k <= j
    BY <2>1, NatMin, Zenon
  <2>3. ASSUME NEW m \in Same PROVE Len(db) - k >= m
    <3>1. m \in 0 .. Len(db)
      BY DEF Same
    <3>2. Len(db) - m \in T
      BY <1>1, <3>1, SMTT(30)
    <3>3. k \in Nat /\ k <= Len(db) - m
      BY <2>2, <3>2, Zenon
    <3>. QED
      BY <1>1, <3>1, <3>3, SMTT(30)
  <2>. QED
    BY <2>2, <2>3, SMTT(30)
<1>5. Max(Same) \in Same /\ \A m \in Same : Max(Same) >= m
  BY <1>4, Zenon DEF Max
<1>6. Max(Same) \in 0 .. Len(db)
  BY <1>5, Zenon DEF Same
<1>. QED
  BY <1>1, <1>5, <1>6, SMTT(30)
------------------------------------------------------------------------------
(***************************************************************************)
(* The node                                                                *)
(***************************************************************************)
\* A transaction is in one block at most, and not in the mempool as well.
NodeInv ==
    /\ \A i \in 1 .. Len(chain) : pool \cap chain[i].txs = {}
    /\ \A i, j \in 1 .. Len(chain) : i # j => chain[i].txs \cap chain[j].txs = {}

\* The branch that Reorg switches to.
LEMMA ReorgChain ==
    ASSUME NodeType, NEW k \in 0 .. Len(chain) - 1, NEW S \in SUBSET Known,
           NEW f \in Forks, Reorg(k, S, f)
    PROVE  /\ chain' \in Seq(BlockType) /\ Len(chain') = Len(chain) + 1
           /\ \A i \in 1 .. k : chain'[i] = chain[i]
           /\ chain'[k + 1].txs = S
           /\ \A i \in k + 2 .. Len(chain) + 1 : chain'[i].txs = {}
           /\ S \subseteq Txs /\ Known \subseteq Txs
<1>. DEFINE kept == SubSeq(chain, 1, k)
            m == Len(chain) + 1 - k
            new == [n \in 1 .. m |-> [txs |-> IF n = 1 THEN S ELSE {}, fork |-> f]]
<1>1. /\ chain \in Seq(BlockType) /\ Len(chain) \in Nat /\ k \in Nat /\ m \in Nat
      /\ k < Len(chain)
  BY SMTT(30) DEF NodeType
<1>2. Known \subseteq Txs
  <2>1. \A i \in 1 .. Len(chain) : chain[i] \in BlockType
    BY <1>1, SMTT(30)
  <2>2. \A i \in 1 .. Len(chain) : chain[i].txs \subseteq Txs
    BY <2>1, Zenon DEF BlockType
  <2>. QED
    BY <2>2, Zenon DEF Known, Mined, NodeType
<1>3. /\ kept \in Seq(BlockType) /\ Len(kept) = k
      /\ \A i \in 1 .. k : kept[i] = chain[i]
  BY <1>1, SubSeqProperties, SMTT(30)
<1>4. /\ new \in Seq(BlockType) /\ Len(new) = m
      /\ new[1].txs = S /\ \A i \in 2 .. m : new[i].txs = {}
  <2>1. \A n \in 1 .. m : new[n] \in BlockType
    BY <1>2, Zenon DEF BlockType
  <2>2. new \in [1 .. m -> BlockType]
    BY <2>1, Zenon
  <2>3. new[1].txs = S
    BY <1>1, SMTT(30)
  <2>4. \A i \in 2 .. m : new[i].txs = {}
    BY <1>1, SMTT(30)
  <2>5. m \in Nat
    BY <1>1, Zenon
  <2>. HIDE DEF new, m
  <2>6. new \in Seq(BlockType) /\ Len(new) = m
    BY <2>2, <2>5, SMTT(30)
  <2>. QED
    BY <2>3, <2>4, <2>6, Zenon
<1>5. chain' = kept \o new
  BY Zenon DEF Reorg
<1>. HIDE DEF kept, new, m
<1>6. /\ kept \o new \in Seq(BlockType) /\ Len(kept \o new) = k + m
      /\ \A i \in 1 .. k + m : (kept \o new)[i] = IF i <= k THEN kept[i] ELSE new[i - k]
  <2>1. /\ kept \o new \in Seq(BlockType) /\ Len(kept \o new) = Len(kept) + Len(new)
        /\ \A i \in 1 .. Len(kept) + Len(new) :
            (kept \o new)[i] = IF i <= Len(kept) THEN kept[i] ELSE new[i - Len(kept)]
    BY <1>3, <1>4, ConcatProperties, ZenonT(40)
  <2>. QED
    BY <1>3, <1>4, <2>1, Zenon
<1>7. k + m = Len(chain) + 1
  BY <1>1 DEF m
<1>8. \A i \in 1 .. k : chain'[i] = chain[i]
  BY <1>1, <1>3, <1>5, <1>6, <1>7
<1>9. chain'[k + 1].txs = S
  <2>1. k + 1 \in 1 .. k + m /\ ~(k + 1 <= k) /\ (k + 1) - k = 1
    BY <1>1, <1>7, SMTT(30)
  <2>. QED
    BY <1>4, <1>5, <1>6, <2>1, Zenon
<1>10. ASSUME NEW i \in k + 2 .. Len(chain) + 1 PROVE chain'[i].txs = {}
  <2>1. i \in 1 .. k + m /\ ~(i <= k) /\ i - k \in 2 .. m
    BY <1>1, <1>7, SMTT(30) DEF m
  <2>. QED
    BY <1>4, <1>5, <1>6, <2>1, Zenon
<1>. QED
  BY <1>2, <1>5, <1>6, <1>7, <1>8, <1>9, <1>10, Zenon

\* The node keeps its types and its invariant.
LEMMA NodeStep ==
    ASSUME NodeType, NodeInv, Node PROVE NodeType' /\ NodeInv'
<1>. USE PendingAssumption
<1>1. chain \in Seq(BlockType) /\ Len(chain) \in Nat
  BY SMTT(30) DEF NodeType
<1>2. ASSUME NEW t \in Txs, EnterPool(t) PROVE NodeType' /\ NodeInv'
  BY <1>2, SMTT(30) DEF EnterPool, NodeType, NodeInv, Known, Mined
<1>3. ASSUME NEW S \in SUBSET pool, LeavePool(S) PROVE NodeType' /\ NodeInv'
  BY <1>3, Zenon DEF LeavePool, NodeType, NodeInv
<1>4. ASSUME NEW S \in SUBSET pool, NEW f \in Forks, Mine(S, f)
      PROVE  NodeType' /\ NodeInv'
  <2>1. [txs |-> S, fork |-> f] \in BlockType
    BY Zenon DEF NodeType, BlockType
  <2>2. /\ chain' = Append(chain, [txs |-> S, fork |-> f]) /\ pool' = pool \ S
        /\ Len(chain) < MaxBlocks /\ reorged' = reorged
    BY <1>4, Zenon DEF Mine
  <2>3. /\ chain' \in Seq(BlockType) /\ Len(chain') = Len(chain) + 1
        /\ \A i \in 1 .. Len(chain) : chain'[i] = chain[i]
        /\ chain'[Len(chain) + 1].txs = S
    BY <1>1, <2>1, <2>2, AppendProperties, SMTT(30)
  <2>4. NodeType'
    BY <1>1, <2>2, <2>3, SMTT(30) DEF NodeType
  <2>5. \A i \in 1 .. Len(chain') : i \in 1 .. Len(chain) \/ i = Len(chain) + 1
    BY <1>1, <2>3, SMTT(30)
  <2>6. NodeInv'
    BY <1>1, <2>2, <2>3, <2>5, SMTT(30) DEF NodeInv
  <2>. QED
    BY <2>4, <2>6, Zenon
<1>5. ASSUME NEW k \in 0 .. Len(chain) - 1, NEW S \in SUBSET Known, NEW f \in Forks,
             Reorg(k, S, f)
      PROVE  NodeType' /\ NodeInv'
  <2>. DEFINE lost == Mined(chain) \ Mined(SubSeq(chain, 1, k))
  <2>1. /\ chain' \in Seq(BlockType) /\ Len(chain') = Len(chain) + 1
        /\ \A i \in 1 .. k : chain'[i] = chain[i]
        /\ chain'[k + 1].txs = S
        /\ \A i \in k + 2 .. Len(chain) + 1 : chain'[i].txs = {}
        /\ S \subseteq Txs /\ Known \subseteq Txs
    BY <1>5, ReorgChain, Zenon
  <2>2. /\ S \subseteq pool \cup lost /\ pool' = (pool \cup lost) \ S
        /\ Len(chain) < MaxBlocks /\ reorged' = TRUE
    BY <1>5, Zenon DEF Reorg
  <2>3. NodeType'
    BY <1>1, <2>1, <2>2, SMTT(30) DEF NodeType, Known
  <2>4. \A i \in 1 .. k : (pool \cup lost) \cap chain[i].txs = {}
    <3>1. \A i \in 1 .. k : chain[i].txs \subseteq Mined(SubSeq(chain, 1, k))
      <4>1. /\ Len(SubSeq(chain, 1, k)) = k
            /\ \A i \in 1 .. k : SubSeq(chain, 1, k)[i] = chain[i]
        BY <1>1, SMTT(30)
      <4>. QED
        BY <4>1, SMTT(30) DEF Mined
    <3>. QED
      BY <1>1, <3>1, SMTT(30) DEF NodeInv
  <2>5. \A i \in 1 .. Len(chain') : i \in 1 .. k \/ i = k + 1 \/ i \in k + 2 .. Len(chain) + 1
    BY <1>1, <2>1, SMTT(30)
  <2>6. \A i \in 1 .. k : i \in 1 .. Len(chain)
    BY <1>1, SMTT(30)
  <2>. HIDE DEF lost
  <2>7. \A i \in 1 .. Len(chain') : pool' \cap chain'[i].txs = {}
    BY <2>1, <2>2, <2>4, <2>5, Zenon
  <2>8. ASSUME NEW i \in 1 .. Len(chain'), NEW j \in 1 .. Len(chain'), i # j
        PROVE  chain'[i].txs \cap chain'[j].txs = {}
    BY <2>1, <2>2, <2>4, <2>5, <2>6, <2>8, SMTT(30) DEF NodeInv
  <2>. QED
    BY <2>3, <2>7, <2>8, Zenon DEF NodeInv
<1>. QED
  BY <1>2, <1>3, <1>4, <1>5, Zenon DEF Node
------------------------------------------------------------------------------
(***************************************************************************)
(* The loop keeps its types                                                *)
(***************************************************************************)
LEMMA NoJobType == NoJob \in JobType
BY SMTT(30) DEF NoJob, JobType

\* CheckChain and Commit, the two steps that change the committed blocks.
LEMMA CheckChainType ==
    ASSUME TypeInv, CheckChain PROVE TypeInv'
<1>. USE PendingAssumption DEF TypeInv
<1>1. /\ UNCHANGED <<pool, chain, reorged, evs, job>>
      /\ \/ UNCHANGED <<db, insc>>
         \/ /\ db' = SubSeq(db, 1, Max(Same))
            /\ insc' = [t \in Txs |-> IF insc[t] > Max(Same) THEN NoRow ELSE insc[t]]
  BY Zenon DEF CheckChain, Same, node
<1>2. Max(Same) \in 0 .. Len(db) /\ Len(db) \in Nat
  BY KeepType, SMTT(30) DEF DbType
<1>3. DbType'
  <2>1. CASE UNCHANGED db
    BY <2>1, Zenon DEF DbType
  <2>2. CASE db' = SubSeq(db, 1, Max(Same))
    <3>1. db' \in Seq(Committed) /\ Len(db') = Max(Same)
      BY <1>2, <2>2, SMTT(30) DEF DbType
    <3>. QED
      BY <1>2, <3>1, SMTT(30) DEF DbType
  <2>. QED
    BY <1>1, <2>1, <2>2, Zenon
<1>4. insc' \in [Txs -> 0 .. MEMPOOL_HEIGHT]
  BY <1>1, SMTT(30) DEF NoRow, MEMPOOL_HEIGHT
<1>. QED
  BY <1>1, <1>3, <1>4, Zenon DEF NodeType

\* A committed block keeps the types.
LEMMA CommitType ==
    ASSUME TypeInv, Commit PROVE TypeInv'
<1>. USE PendingAssumption DEF TypeInv
<1>. DEFINE block == chain[Len(db) + 1]
            state == ApplyBlock(State(db), block.txs)
<1>1. /\ UNCHANGED <<pool, chain, reorged, evs, job>>
      /\ db' = Append(db, [block |-> block, state |-> state])
      /\ insc' = [t \in Txs |-> IF t \in Protocol(block.txs) THEN Len(db) + 1 ELSE insc[t]]
      /\ Len(chain) > Len(db)
  BY Zenon DEF Commit, Extends, node
<1>2. Len(db) \in Nat /\ Len(chain) \in Nat /\ Len(db) + 1 \in 1 .. Len(chain)
  <2>1. Len(db) \in Nat
    BY SMTT(30) DEF DbType
  <2>2. Len(chain) \in Nat
    BY SMTT(30) DEF NodeType
  <2>. QED
    BY <1>1, <2>1, <2>2, SMTT(30)
<1>3. block \in BlockType
  BY <1>2, SMTT(30) DEF NodeType
<1>4. block.txs \subseteq Txs
  BY <1>3, Zenon DEF BlockType
<1>5. state \in Ledger
  BY <1>4, StateType, ApplyType, Zenon
<1>6. [block |-> block, state |-> state] \in Committed
  BY <1>3, <1>5, Zenon DEF Committed
<1>. HIDE DEF block, state
<1>7. db' \in Seq(Committed) /\ Len(db') = Len(db) + 1
  BY <1>1, <1>6, AppendProperties, SMTT(30) DEF DbType
<1>8. DbType'
  BY <1>2, <1>7, SMTT(30) DEF DbType, NodeType
<1>9. insc' \in [Txs -> 0 .. MEMPOOL_HEIGHT]
  BY <1>1, <1>2, SMTT(30) DEF MEMPOOL_HEIGHT, NodeType
<1>. QED
  BY <1>1, <1>8, <1>9, Zenon DEF NodeType

\* Listing the mempool and the two passes over it keep the types.
LEMMA ListingType ==
    ASSUME TypeInv, NEW G \in SUBSET job.list, NEW L \in SUBSET Spends(job.list),
           List \/ Fetch(G, L) \/ FetchFirstBinds(G, L)
    PROVE  TypeInv'
<1>. USE PendingAssumption DEF TypeInv
<1>1. /\ job.list \subseteq Txs /\ G \subseteq Txs /\ L \subseteq Outs
      /\ job.bound \subseteq Addr /\ job.first \subseteq Addr
      /\ job.delta \in [Addr -> Int] /\ job.lost \subseteq Outs /\ job.complete \in BOOLEAN
  <2>1. job.list \subseteq Txs
    BY Zenon DEF JobType
  <2>. QED
    BY <2>1, MoveTypes, Zenon DEF JobType
<1>2. UNCHANGED <<pool, chain, reorged, db, evs, insc>>
  BY Zenon DEF List, Fetch, FetchFirstBinds, node, tables
<1>3. job' \in JobType
  <2>1. CASE List
    <3>1. State(db).bound \subseteq Addr
      BY StateType, Zenon DEF Ledger
    <3>. QED
      BY <2>1, <3>1, NoJobType, Zenon DEF List, JobType, NodeType, PendingInscriptions
  <2>2. CASE Fetch(G, L)
    <3>1. FirstBinds(G, job.bound) \subseteq Addr
      BY <1>1, MoveTypes, Zenon DEF FirstBinds
    <3>2. AddressDeltas(G, job.bound, L) \in [Addr -> Int]
      BY <1>1, DeltasType, Zenon
    <3>. QED
      BY <1>1, <2>2, <3>1, <3>2, Zenon DEF Fetch, JobType
  <2>3. CASE FetchFirstBinds(G, L)
    <3>1. AddressDeltas(G, job.first, L) \in [Addr -> Int]
      BY <1>1, DeltasType, Zenon
    <3>2. PlusDeltas(job.delta, AddressDeltas(G, job.first, L)) \in [Addr -> Int]
      BY <1>1, <3>1, SMTT(30) DEF PlusDeltas
    <3>3. \A c \in BOOLEAN, l \in SUBSET Outs, d \in [Addr -> Int] :
            [job EXCEPT !.complete = c, !.lost = l, !.delta = d] \in JobType
      BY Zenon DEF JobType
    <3>4. (job.complete /\ G = job.list) \in BOOLEAN /\ job.lost \cup L \in SUBSET Outs
      BY <1>1, Zenon
    <3>5. [job EXCEPT !.complete = job.complete /\ G = job.list, !.lost = job.lost \cup L,
              !.delta = PlusDeltas(job.delta, AddressDeltas(G, job.first, L))] \in JobType
      BY <3>2, <3>3, <3>4, Zenon
    <3>6. job' = job \/ job' = [job EXCEPT !.complete = job.complete /\ G = job.list,
              !.lost = job.lost \cup L,
              !.delta = PlusDeltas(job.delta, AddressDeltas(G, job.first, L))]
      BY <2>3, Zenon DEF FetchFirstBinds
    <3>. QED
      BY <3>5, <3>6, SMTT(30)
  <2>. QED
    BY <2>1, <2>2, <2>3, Zenon
<1>. QED
  BY <1>2, <1>3, ZenonT(40) DEF NodeType, DbType

\* The resets, the writes of a synchronisation and a crash keep the types.
LEMMA WritesType ==
    ASSUME TypeInv,
           \/ Plan \/ ResetEvents \/ ResetCache \/ ResetFails \/ InitStatus
           \/ EndParse \/ ListFails \/ UpsertEvents \/ UpsertInscriptions
           \/ SaveDeltas \/ SaveSnapshots \/ DeleteEvents \/ DeleteInscriptions
           \/ Sleep \/ Crash
    PROVE  TypeInv'
<1>. USE PendingAssumption DEF TypeInv
<1>1. UNCHANGED <<pool, chain, reorged, db>> /\ (job' = job \/ job' = NoJob)
  BY Zenon DEF Plan, ResetEvents, ResetCache, ResetFails, InitStatus, EndParse, ListFails,
         UpsertEvents, UpsertInscriptions, SaveDeltas, SaveSnapshots, DeleteEvents,
         DeleteInscriptions, Sleep, Crash, Proceed, Fail, node
<1>2. job.got \subseteq Txs
  BY Zenon DEF JobType
<1>3. EventTxs(job.got) \subseteq Txs /\ Protocol(job.got) \subseteq Txs
  BY <1>2, MoveTypes, Zenon
<1>4. evs' \subseteq Txs
  BY <1>3, Zenon
     DEF Plan, ResetEvents, ResetCache, ResetFails, InitStatus, EndParse, ListFails,
         UpsertEvents, UpsertInscriptions, SaveDeltas, SaveSnapshots, DeleteEvents,
         DeleteInscriptions, Sleep, Crash, UpsertRows, DeleteRows, tables
<1>5. insc' \in [Txs -> 0 .. MEMPOOL_HEIGHT]
  BY SMTT(30) DEF Plan, ResetEvents, ResetCache, ResetFails, InitStatus, EndParse, ListFails,
         UpsertEvents, UpsertInscriptions, SaveDeltas, SaveSnapshots, DeleteEvents,
         DeleteInscriptions, Sleep, Crash, Upserted, DeletedPending, tables,
         MEMPOOL_HEIGHT, NoRow
<1>. QED
  BY <1>1, <1>4, <1>5, NoJobType, Zenon DEF NodeType, DbType
------------------------------------------------------------------------------
(***************************************************************************)
(* The inductive invariants                                                *)
(***************************************************************************)
Fetched == {"second", "events", "insc", "deltas", "snaps", "delEvents", "delInsc",
            "synced"}
Listed == Fetched \cup {"fetch"}

\* How far a synchronisation has come: what it fetched, and what its writes so
\* far have made of the rows it found.
SyncInv ==
    /\ pc \in Fetched =>
        /\ job.got \subseteq job.list
        /\ job.complete => job.got = job.list
    /\ pc \in {"deltas", "snaps", "delEvents", "delInsc", "synced"} => job.complete
    /\ pc \in {"fetch", "second", "events"} => evs = job.oldEvs
    /\ pc \in {"fetch", "second", "events", "insc"} => PendingInscriptions = job.oldInsc
    /\ pc \in {"insc", "deltas", "snaps", "delEvents"} =>
        evs = job.oldEvs \cup EventTxs(job.got)
    /\ pc \in {"deltas", "snaps", "delEvents", "delInsc"} =>
        PendingInscriptions = job.oldInsc \cup Protocol(job.got)
    /\ pc \in {"delInsc", "synced"} => evs = EventTxs(job.got)
    /\ pc = "synced" => PendingInscriptions = Protocol(job.got)

\* Without a reorganisation the committed blocks are a prefix of the best
\* chain, so that neither a stored event nor a listed transaction is
\* committed, and a committed event has the height of its block.
PrefixInv ==
    /\ Len(db) <= Len(chain)
    /\ \A h \in 1 .. Len(db) : db[h].block = chain[h]

RowsInv ==
    /\ \A h \in 1 .. Len(db) : evs \cap db[h].block.txs = {}
    /\ pc \in {"resetCache", "parse"} => evs = {}
    /\ pc \in Listed => \A h \in 1 .. Len(db) : job.list \cap db[h].block.txs = {}
    /\ \A h \in 1 .. Len(db) : \A t \in Protocol(db[h].block.txs) : insc[t] = h

KeptInv == ~reorged => PrefixInv /\ RowsInv

\* The node and the steps before the listing leave the synchronisation alone.
LEMMA SyncOutside ==
    ASSUME TypeInv, SyncInv,
           \/ Node \/ CheckChain \/ Plan \/ ResetEvents \/ ResetCache \/ ResetFails
           \/ InitStatus \/ Commit \/ EndParse \/ ListFails \/ Sleep \/ Crash
    PROVE  SyncInv'
<1>1. CASE Node
  <2>1. UNCHANGED <<evs, insc, pc, job>>
    BY <1>1, Zenon DEF Node, EnterPool, LeavePool, Mine, Reorg, tables
  <2>. QED
    BY <2>1, Zenon DEF SyncInv, PendingInscriptions, Fetched
<1>2. CASE ~Node
  <2>1. pc' \notin Listed
    BY <1>2, SMTT(30)
       DEF CheckChain, Plan, ResetEvents, ResetCache, ResetFails, InitStatus, Commit,
                EndParse, ListFails, Sleep, Crash, Goto, Listed, Fetched
  <2>. QED
    BY <2>1, Zenon DEF SyncInv, Listed, Fetched
<1>. QED
  BY <1>1, <1>2, Zenon

\* The listing, the two passes and the writes, each in its place.
LEMMA SyncListing ==
    ASSUME TypeInv, SyncInv, NEW G \in SUBSET job.list, NEW L \in SUBSET Spends(job.list),
           List \/ Fetch(G, L) \/ FetchFirstBinds(G, L)
    PROVE  SyncInv'
<1>. USE DEF TypeInv
<1>1. UNCHANGED <<evs, insc>>
  BY SMTT(30) DEF List, Fetch, FetchFirstBinds, tables
<1>2. PendingInscriptions' = PendingInscriptions
  BY <1>1, Zenon DEF PendingInscriptions
<1>3. CASE List
  <2>1. pc' = "fetch" /\ job'.oldEvs = evs /\ job'.oldInsc = PendingInscriptions
    BY <1>3, Zenon DEF List, Goto, NoJob
  <2>. QED
    BY <1>1, <1>2, <2>1, Zenon DEF SyncInv, Fetched
<1>4. CASE Fetch(G, L)
  <2>1. /\ pc = "fetch" /\ pc' = "second"
        /\ job'.oldEvs = job.oldEvs /\ job'.oldInsc = job.oldInsc
        /\ job'.got = G /\ job'.list = job.list /\ job'.complete = (G = job.list)
    BY <1>4, SMTT(30) DEF Fetch, Goto, JobType
  <2>. QED
    BY <1>1, <1>2, <2>1, Zenon DEF SyncInv, Fetched
<1>5. CASE FetchFirstBinds(G, L)
  <2>1. /\ pc = "second" /\ pc' = "events"
        /\ job'.oldEvs = job.oldEvs /\ job'.oldInsc = job.oldInsc
        /\ job'.got = job.got /\ job'.list = job.list
        /\ job'.complete => job.complete
    BY <1>5, Zenon DEF FetchFirstBinds, Goto, JobType
  <2>. QED
    BY <1>1, <1>2, <2>1, Zenon DEF SyncInv, Fetched
<1>. QED
  BY <1>3, <1>4, <1>5, Zenon

\* The six writes of a synchronisation keep SyncInv.
LEMMA SyncWrites ==
    ASSUME TypeInv, SyncInv,
           \/ UpsertEvents \/ UpsertInscriptions \/ SaveDeltas \/ SaveSnapshots
           \/ DeleteEvents \/ DeleteInscriptions
    PROVE  SyncInv'
<1>1. CASE pc' = "idle"
  BY <1>1, Zenon DEF SyncInv, Fetched
<1>. SUFFICES ASSUME pc' # "idle" PROVE SyncInv'
  BY <1>1, SMTT(30)
<1>2. job.got \subseteq Txs
  BY SMTT(30) DEF TypeInv, JobType
<1>3. Protocol(job.got) \subseteq Txs
  BY <1>2, MoveTypes, Zenon
<1>4. CASE UpsertEvents
  <2>1. /\ pc = "events" /\ pc' = "insc" /\ evs' = evs \cup EventTxs(job.got)
        /\ UNCHANGED <<job, insc>>
    BY <1>4, Zenon DEF UpsertEvents, Proceed, Fail, Goto, UpsertRows
  <2>. QED
    BY <2>1, Zenon DEF SyncInv, Fetched, PendingInscriptions
<1>5. CASE UpsertInscriptions
  <2>1. /\ pc = "insc" /\ pc' = "deltas" /\ insc' = Upserted(Protocol(job.got))
        /\ job.complete /\ UNCHANGED <<job, evs>>
    BY <1>5, Zenon DEF UpsertInscriptions, Proceed, Fail, Goto
  <2>2. PendingInscriptions' = PendingInscriptions \cup Protocol(job.got)
    BY <1>3, <2>1, Zenon DEF PendingInscriptions, Upserted
  <2>. QED
    BY <2>1, <2>2, Zenon DEF SyncInv, Fetched
<1>6. CASE SaveDeltas \/ SaveSnapshots
  <2>1. /\ UNCHANGED <<job, evs, insc>>
        /\ \/ pc = "deltas" /\ pc' = "snaps"
           \/ pc = "snaps" /\ pc' = "delEvents"
    BY <1>6, Zenon DEF SaveDeltas, SaveSnapshots, Proceed, Fail, Goto
  <2>. QED
    BY <2>1, Zenon DEF SyncInv, Fetched, PendingInscriptions
<1>7. CASE DeleteEvents
  <2>1. /\ pc = "delEvents" /\ pc' = "delInsc"
        /\ evs' = evs \ (job.oldEvs \ EventTxs(job.got)) /\ UNCHANGED <<job, insc>>
    BY <1>7, Zenon DEF DeleteEvents, Proceed, Fail, Goto, DeleteRows, StaleEvents
  <2>2. evs' = EventTxs(job.got)
    BY <2>1, Zenon DEF SyncInv
  <2>. QED
    BY <2>1, <2>2, Zenon DEF SyncInv, Fetched, PendingInscriptions
<1>8. CASE DeleteInscriptions
  <2>1. /\ pc = "delInsc" /\ pc' = "synced"
        /\ insc' = DeletedPending(job.oldInsc \ Protocol(job.got)) /\ UNCHANGED <<job, evs>>
    BY <1>8, Zenon DEF DeleteInscriptions, Proceed, Fail, Goto
  <2>2. PendingInscriptions' = PendingInscriptions \ (job.oldInsc \ Protocol(job.got))
    BY <2>1, PendingAssumption, SMTT(30)
       DEF PendingInscriptions, DeletedPending, NoRow, MEMPOOL_HEIGHT
  <2>3. PendingInscriptions' = Protocol(job.got)
    BY <2>1, <2>2, Zenon DEF SyncInv
  <2>. QED
    BY <2>1, <2>3, Zenon DEF SyncInv, Fetched
<1>. QED
  BY <1>4, <1>5, <1>6, <1>7, <1>8, SMTT(30)
\* The best chain only grows, and the loop works on a prefix of it.
LEMMA KeptNode ==
    ASSUME TypeInv, KeptInv, Node PROVE KeptInv'
<1>. SUFFICES ASSUME ~reorged' PROVE PrefixInv' /\ RowsInv'
  BY Zenon DEF KeptInv
<1>1. UNCHANGED <<db, evs, insc, pc, job>>
  BY Zenon DEF Node, EnterPool, LeavePool, Mine, Reorg, tables
<1>2. ~reorged
  BY Zenon DEF Node, EnterPool, LeavePool, Mine, Reorg
<1>3. RowsInv'
  BY <1>1, <1>2, Zenon DEF KeptInv, RowsInv
<1>4. /\ Len(chain') \in Nat /\ Len(chain) <= Len(chain')
      /\ \A i \in 1 .. Len(chain) : chain'[i] = chain[i]
  <2>1. chain \in Seq(BlockType) /\ Len(chain) \in Nat
    BY DEF TypeInv, NodeType
  <2>2. CASE UNCHANGED chain
    BY <2>1, <2>2, SMTT(30)
  <2>3. ASSUME NEW S \in SUBSET pool, NEW f \in Forks, Mine(S, f)
        PROVE  /\ Len(chain') \in Nat /\ Len(chain) <= Len(chain')
               /\ \A i \in 1 .. Len(chain) : chain'[i] = chain[i]
    <3>1. [txs |-> S, fork |-> f] \in BlockType
      BY Zenon DEF TypeInv, NodeType, BlockType
    <3>2. chain' = Append(chain, [txs |-> S, fork |-> f])
      BY <2>3, Zenon DEF Mine
    <3>. QED
      BY <2>1, <3>1, <3>2, AppendProperties, SMTT(30)
  <2>. QED
    BY <2>2, <2>3, Zenon DEF Node, EnterPool, LeavePool, Reorg
<1>5. Len(db) \in Nat /\ Len(chain) \in Nat /\ PrefixInv
  BY <1>2, SMTT(30) DEF TypeInv, DbType, NodeType, KeptInv
<1>6. PrefixInv'
  BY <1>1, <1>4, <1>5, SMTT(30) DEF PrefixInv
<1>. QED
  BY <1>3, <1>6, Zenon

\* RollbackCheckWithFloor finds nothing to roll back.
LEMMA KeptCheck ==
    ASSUME TypeInv, KeptInv, CheckChain PROVE KeptInv'
<1>. SUFFICES ASSUME ~reorged' PROVE PrefixInv' /\ RowsInv'
  BY DEF KeptInv
<1>1. UNCHANGED <<chain, reorged, evs, job>> /\ pc' = "plan"
  BY Zenon DEF CheckChain, Goto, node
<1>2. PrefixInv /\ RowsInv
  BY <1>1, SMTT(30) DEF KeptInv
<1>3. /\ Len(db) \in Nat /\ db \in Seq(Committed)
      /\ Len(chain) \in Nat /\ chain \in Seq(BlockType) /\ Len(db) <= Len(chain)
  BY <1>2, SMTT(30) DEF TypeInv, DbType, NodeType, PrefixInv
<1>4. SubSeq(Blocks(db), 1, Len(db)) = SubSeq(chain, 1, Len(db))
  <2>1. \A i \in 1 .. Len(db) : Blocks(db)[i] = chain[i] /\ chain[i] \in BlockType
    BY <1>2, <1>3, SMTT(30) DEF Blocks, PrefixInv
  <2>2. /\ SubSeq(Blocks(db), 1, Len(db)) \in Seq(BlockType)
        /\ Len(SubSeq(Blocks(db), 1, Len(db))) = Len(db)
        /\ \A i \in 1 .. Len(db) : SubSeq(Blocks(db), 1, Len(db))[i] = Blocks(db)[i]
    BY <1>3, <2>1, SubSeqProperties, SMTT(30)
  <2>3. /\ SubSeq(chain, 1, Len(db)) \in Seq(BlockType)
        /\ Len(SubSeq(chain, 1, Len(db))) = Len(db)
        /\ \A i \in 1 .. Len(db) : SubSeq(chain, 1, Len(db))[i] = chain[i]
    BY <1>3, <2>1, SubSeqProperties, SMTT(30)
  <2>. QED
    BY <2>1, <2>2, <2>3, SeqEqual, Zenon
<1>5. Max(Same) = Len(db)
  <2>1. Len(db) \in Same
    BY <1>3, <1>4, SMTT(30) DEF Same
  <2>. QED
    BY <2>1, KeepType, Zenon DEF TypeInv
<1>6. UNCHANGED <<db, insc>>
  BY <1>5, Zenon DEF CheckChain, Same
<1>. QED
  BY <1>1, <1>2, <1>6, Zenon DEF PrefixInv, RowsInv, Listed, Fetched

\* A commit takes the next block of the best chain, whose transactions are in
\* no earlier one; the events are gone by then.
LEMMA KeptCommit ==
    ASSUME TypeInv, NodeInv, KeptInv, Commit PROVE KeptInv'
<1>. SUFFICES ASSUME ~reorged' PROVE PrefixInv' /\ RowsInv'
  BY SMTT(30) DEF KeptInv
<1>. DEFINE n == Len(db) + 1
            entry == [block |-> chain[n], state |-> ApplyBlock(State(db), chain[n].txs)]
<1>1. /\ UNCHANGED <<chain, reorged, evs, job>> /\ pc = "parse" /\ pc' \in {"parse", "idle"}
      /\ db' = Append(db, entry) /\ Len(chain) > Len(db)
      /\ insc' = [t \in Txs |-> IF t \in Protocol(chain[n].txs) THEN n ELSE insc[t]]
  BY Zenon DEF Commit, Extends, node
<1>2. PrefixInv /\ RowsInv
  BY <1>1, Zenon DEF KeptInv
<1>3. /\ Len(db) \in Nat /\ db \in Seq(Committed) /\ n \in 1 .. Len(chain)
      /\ Len(chain) \in Nat /\ chain \in Seq(BlockType)
  BY <1>1, SMTT(30) DEF TypeInv, DbType, NodeType
<1>4. chain[n] \in BlockType /\ chain[n].txs \subseteq Txs
  <2>1. chain[n] \in BlockType
    BY <1>3, SMTT(30)
  <2>. QED
    BY <2>1, Zenon DEF BlockType
<1>5. entry.block = chain[n]
  BY Zenon
<1>6. /\ Len(db') = n /\ db'[n].block = chain[n]
      /\ \A h \in 1 .. Len(db) : db'[h] = db[h]
      /\ \A h \in 1 .. n : h \in 1 .. Len(db) \/ h = n
  <2>. HIDE DEF entry
  <2>. QED
    BY <1>1, <1>3, <1>5, SMTT(30)
<1>7. \A h \in 1 .. Len(db) : db[h].block = chain[h] /\ h \in 1 .. Len(chain) /\ h # n
  BY <1>2, <1>3, SMTT(30) DEF PrefixInv
<1>8. PrefixInv'
  BY <1>1, <1>3, <1>6, <1>7, SMTT(30) DEF PrefixInv
<1>9. evs' = {}
  BY <1>1, <1>2, Zenon DEF RowsInv
<1>10. \A h \in 1 .. Len(db) : chain[n].txs \cap db[h].block.txs = {}
  BY <1>3, <1>7, Zenon DEF NodeInv
<1>11. ASSUME NEW h \in 1 .. n, NEW t \in Protocol(db'[h].block.txs) PROVE insc'[t] = h
  <2>1. CASE h = n
    <3>1. t \in Protocol(chain[n].txs) /\ t \in Txs
      BY <1>4, <1>6, <1>11, <2>1, Zenon DEF Protocol
    <3>. QED
      BY <1>1, <2>1, <3>1, Zenon
  <2>2. CASE h \in 1 .. Len(db)
    <3>1. t \in Protocol(db[h].block.txs) /\ t \notin chain[n].txs
      BY <1>6, <1>10, <1>11, <2>2, Zenon DEF Protocol
    <3>2. t \in Txs
      <4>1. chain[h] \in BlockType
        BY <1>3, <1>7, <2>2, SMTT(30)
      <4>. QED
        BY <1>7, <2>2, <3>1, <4>1, Zenon DEF Protocol, BlockType
    <3>3. insc'[t] = insc[t]
      BY <1>1, <3>1, <3>2, Zenon DEF Protocol
    <3>. QED
      BY <1>2, <2>2, <3>1, <3>3, Zenon DEF RowsInv
  <2>. QED
    BY <1>6, <2>1, <2>2, Zenon
<1>12. RowsInv'
  <2>1. pc' \notin Listed
    BY <1>1, Zenon DEF Listed, Fetched
  <2>. QED
    BY <1>6, <1>9, <1>11, <2>1, Zenon DEF RowsInv
<1>. QED
  BY <1>8, <1>12, SMTT(30)
\* The steps of the loop that neither look at the chain nor write a row, and
\* those that delete the events.
LEMMA KeptQuiet ==
    ASSUME KeptInv, UNCHANGED <<node, db, insc>>, evs' \subseteq evs,
           pc' \in {"resetCache", "parse"} => evs' = {},
           pc' \in Listed => pc \in Listed /\ job'.list = job.list
    PROVE  KeptInv'
<1>. SUFFICES ASSUME ~reorged' PROVE PrefixInv' /\ RowsInv'
  BY Zenon DEF KeptInv
<1>1. PrefixInv /\ RowsInv
  BY Zenon DEF KeptInv, node
<1>2. PrefixInv'
  BY <1>1, Zenon DEF PrefixInv, node
<1>3. RowsInv'
  BY <1>1, Zenon DEF RowsInv
<1>. QED
  BY <1>2, <1>3, Zenon

\* The steps around a synchronisation keep KeptInv: they touch neither the
\* blocks nor the inscription rows.
LEMMA KeptPlan ==
    ASSUME KeptInv,
           \/ Plan \/ ResetEvents \/ ResetCache \/ ResetFails \/ InitStatus
           \/ EndParse \/ ListFails \/ Sleep \/ Crash
    PROVE  KeptInv'
<1>1. UNCHANGED <<node, db, insc>>
  BY Zenon DEF Plan, ResetEvents, ResetCache, ResetFails, InitStatus, EndParse, ListFails,
         Sleep, Crash, tables
<1>2. evs' \subseteq evs /\ pc' \notin Listed
  BY SMTT(30) DEF Plan, ResetEvents, ResetCache, ResetFails, InitStatus, EndParse, ListFails,
         Sleep, Crash, tables, Goto, Listed, Fetched
<1>3. CASE reorged
  BY <1>1, <1>3, Zenon DEF KeptInv, node
<1>4. CASE ~reorged
  <2>1. pc' \in {"resetCache", "parse"} => evs' = {}
    BY <1>4, Zenon DEF Plan, ResetEvents, ResetCache, ResetFails, InitStatus, EndParse,
                ListFails, Sleep, Crash, tables, Goto, KeptInv, RowsInv
  <2>. QED
    BY <1>1, <1>2, <2>1, KeptQuiet, Zenon
<1>. QED
  BY <1>3, <1>4, SMTT(30)

\* The listing: what is pending is not on the best chain, whose prefix the
\* committed blocks are.
LEMMA KeptList ==
    ASSUME TypeInv, NodeInv, KeptInv, List PROVE KeptInv'
<1>. SUFFICES ASSUME ~reorged' PROVE PrefixInv' /\ RowsInv'
  BY DEF KeptInv
<1>1. UNCHANGED <<chain, reorged, db, evs, insc>> /\ pc' = "fetch"
  BY DEF List, Goto, node, tables
<1>2. job'.list = pool
  BY SMTT(30) DEF List, NoJob
<1>3. PrefixInv /\ RowsInv
  BY <1>1, Zenon DEF KeptInv
<1>4. \A h \in 1 .. Len(db) : pool \cap db[h].block.txs = {}
  BY <1>3, SMTT(30) DEF PrefixInv, NodeInv, TypeInv, NodeType, DbType
<1>. QED
  BY <1>1, <1>2, <1>3, <1>4, Zenon DEF PrefixInv, RowsInv

\* The fetches and the writes of a synchronisation: they concern transactions
\* of the listing, and rows at MEMPOOL_HEIGHT.
LEMMA KeptSync ==
    ASSUME TypeInv, SyncInv, KeptInv,
           \/ \E G \in SUBSET job.list : \E L \in SUBSET Spends(job.list) : Fetch(G, L)
           \/ \E G \in SUBSET job.list : \E L \in SUBSET Spends(job.list) : FetchFirstBinds(G, L)
           \/ UpsertEvents \/ UpsertInscriptions \/ SaveDeltas \/ SaveSnapshots
           \/ DeleteEvents \/ DeleteInscriptions
    PROVE  KeptInv'
<1>1. CASE \/ \E G \in SUBSET job.list : \E L \in SUBSET Spends(job.list) : Fetch(G, L)
           \/ \E G \in SUBSET job.list : \E L \in SUBSET Spends(job.list) : FetchFirstBinds(G, L)
  <2>1. UNCHANGED <<node, db, insc, evs>> /\ pc \in Listed /\ pc' \in {"second", "events"}
    BY <1>1, ZenonT(40) DEF Fetch, FetchFirstBinds, tables, Goto, Listed, Fetched
  <2>2. job'.list = job.list
    BY <1>1, Zenon DEF Fetch, FetchFirstBinds, TypeInv, JobType
  <2>. QED
    BY <2>1, <2>2, KeptQuiet, Zenon
<1>2. CASE SaveDeltas \/ SaveSnapshots \/ DeleteEvents
  <2>1. UNCHANGED <<node, db, insc>> /\ evs' \subseteq evs
    BY <1>2, ZenonT(40) DEF SaveDeltas, SaveSnapshots, DeleteEvents, DeleteRows
  <2>2. \/ pc' = "idle"
        \/ pc \in Listed /\ pc' \in {"snaps", "delEvents", "delInsc"} /\ UNCHANGED job
    BY <1>2, Zenon
       DEF SaveDeltas, SaveSnapshots, DeleteEvents, Proceed, Fail, Goto, Listed, Fetched
  <2>3. "idle" \notin Listed
    BY Zenon DEF Listed, Fetched
  <2>. QED
    BY <2>1, <2>2, <2>3, KeptQuiet, Zenon
<1>3. CASE UpsertEvents \/ UpsertInscriptions \/ DeleteInscriptions
  <2>. SUFFICES ASSUME ~reorged' PROVE PrefixInv' /\ RowsInv'
    BY Zenon DEF KeptInv
  <2>1. /\ UNCHANGED <<chain, reorged, db>> /\ pc \in Fetched
        /\ \/ pc' = "idle"
           \/ pc' \in {"insc", "deltas", "synced"} /\ UNCHANGED job
    BY <1>3, Zenon DEF UpsertEvents, UpsertInscriptions, DeleteInscriptions, Proceed, Fail,
                Goto, Fetched, node
  <2>2. PrefixInv /\ RowsInv
    BY <2>1, Zenon DEF KeptInv
  <2>3. PrefixInv'
    BY <2>1, <2>2, Zenon DEF PrefixInv
  <2>4. /\ job.got \subseteq job.list
        /\ \A h \in 1 .. Len(db) : job.list \cap db[h].block.txs = {}
    BY <2>1, <2>2, Zenon DEF SyncInv, RowsInv, Listed
  <2>5. evs' \subseteq evs \cup job.got
    BY <1>3, Zenon
       DEF UpsertEvents, UpsertInscriptions, DeleteInscriptions, UpsertRows, EventTxs,
                Protocol
  <2>6. \A t \in Txs : insc'[t] = insc[t] \/ t \in job.got \/ insc[t] = MEMPOOL_HEIGHT
    BY <1>3, Zenon DEF UpsertEvents, UpsertInscriptions, DeleteInscriptions, Upserted,
                DeletedPending, Protocol, TypeInv
  <2>7. ASSUME NEW h \in 1 .. Len(db), NEW t \in Protocol(db[h].block.txs)
        PROVE  insc'[t] = h
    <3>1. insc[t] = h /\ t \in db[h].block.txs
      BY <2>2, ZenonT(40) DEF RowsInv, Protocol
    <3>2. t \in Txs
      <4>1. db[h] \in Committed
        <5>1. db \in Seq(Committed)
          BY Zenon DEF TypeInv, DbType
        <5>. QED
          BY <5>1
      <4>. QED
        BY <3>1, <4>1, ZenonT(40) DEF Committed, BlockType
    <3>3. h # MEMPOOL_HEIGHT
      BY PendingAssumption, SMTT(30) DEF TypeInv, DbType, MEMPOOL_HEIGHT
    <3>. QED
      BY <2>4, <2>6, <3>1, <3>2, <3>3, Zenon
  <2>8. RowsInv'
    BY <2>1, <2>2, <2>4, <2>5, <2>7, Zenon DEF RowsInv, Listed, Fetched
  <2>. QED
    BY <2>3, <2>8, Zenon
<1>. QED
  BY <1>1, <1>2, <1>3, Zenon
------------------------------------------------------------------------------
\* The initial state, and every step, of the four invariants together.
Inv == TypeInv /\ NodeInv /\ SyncInv /\ KeptInv

\* Nothing is stored, and nothing listed, at the start.
LEMMA InitInv == ASSUME Init PROVE Inv
<1>1. TypeInv
  <2>1. db = <<>> /\ chain = <<>> /\ Len(db) = 0 /\ Len(chain) = 0
    BY Zenon DEF Init
  <2>2. chain \in Seq(BlockType) /\ db \in Seq(Committed)
    BY <2>1
  <2>3. pool \subseteq Txs /\ reorged \in BOOLEAN
    BY Zenon DEF Init
  <2>4. NodeType /\ DbType
    BY <2>1, <2>2, <2>3, PendingAssumption DEF NodeType, DbType
  <2>. QED
    BY <2>4, NoJobType, PendingAssumption, SMTT(40) DEF Init, TypeInv, NoRow, MEMPOOL_HEIGHT
<1>2. NodeInv
  BY SMTT(30) DEF Init, NodeInv
<1>3. SyncInv
  BY Zenon DEF Init, SyncInv, Fetched
<1>4. KeptInv
  BY SMTT(30) DEF Init, KeptInv, PrefixInv, RowsInv, Listed, Fetched
<1>. QED
  BY <1>1, <1>2, <1>3, <1>4, SMTT(30) DEF Inv

\* Every step of the node and of the indexer keeps the four invariants.
LEMMA StepInv == ASSUME Inv, [Next]_vars PROVE Inv'
<1>. USE DEF Inv
<1>1. CASE Node
  <2>1. UNCHANGED <<db, evs, insc, job>>
    BY <1>1, ZenonT(40) DEF Node, EnterPool, LeavePool, Mine, Reorg, tables
  <2>2. NodeType' /\ NodeInv'
    BY <1>1, NodeStep, Zenon DEF TypeInv
  <2>3. TypeInv'
    BY <2>1, <2>2, Zenon DEF TypeInv, DbType
  <2>. QED
    BY <1>1, <2>2, <2>3, SyncOutside, KeptNode, Zenon
<1>2. CASE (Loop \/ Crash) /\ ~Node
  <2>1. UNCHANGED node
    BY <1>2, Zenon DEF Loop, CheckChain, Plan, ResetEvents, ResetCache, ResetFails, InitStatus,
        Commit, EndParse, List, ListFails, Fetch, FetchFirstBinds, UpsertEvents,
        UpsertInscriptions, SaveDeltas, SaveSnapshots, DeleteEvents, DeleteInscriptions,
        Sleep, Crash
  <2>2. NodeInv'
    BY <2>1, Zenon DEF NodeInv, node
  <2>3. CASE CheckChain
    BY <2>2, <2>3, CheckChainType, SyncOutside, KeptCheck, Zenon
  <2>4. CASE Commit
    BY <2>2, <2>4, CommitType, SyncOutside, KeptCommit, Zenon
  <2>5. CASE List
    BY <2>2, <2>5, ListingType, SyncListing, KeptList, Zenon
  <2>6. CASE \E G \in SUBSET job.list : \E L \in SUBSET Spends(job.list) :
                Fetch(G, L) \/ FetchFirstBinds(G, L)
    <3>1. PICK G \in SUBSET job.list, L \in SUBSET Spends(job.list) :
            Fetch(G, L) \/ FetchFirstBinds(G, L)
      BY <2>6, Zenon
    <3>2. TypeInv' /\ SyncInv'
      BY <3>1, ListingType, SyncListing, Zenon
    <3>3. KeptInv'
      BY <3>1, KeptSync, Zenon
    <3>. QED
      BY <2>2, <3>2, <3>3, Zenon
  <2>7. CASE \/ Plan \/ ResetEvents \/ ResetCache \/ ResetFails \/ InitStatus
             \/ EndParse \/ ListFails \/ Sleep \/ Crash
    BY <2>2, <2>7, WritesType, SyncOutside, KeptPlan, Zenon
  <2>8. CASE \/ UpsertEvents \/ UpsertInscriptions \/ SaveDeltas \/ SaveSnapshots
             \/ DeleteEvents \/ DeleteInscriptions
    BY <2>2, <2>8, WritesType, SyncWrites, KeptSync, Zenon
  <2>. QED
    BY <1>2, <2>3, <2>4, <2>5, <2>6, <2>7, <2>8, Zenon DEF Loop
<1>3. CASE UNCHANGED vars
  BY <1>3, ZenonT(40)
     DEF vars, TypeInv, NodeType, DbType, NodeInv, SyncInv, PendingInscriptions,
              KeptInv, PrefixInv, RowsInv
<1>. QED
  BY <1>1, <1>2, <1>3, Zenon DEF Next

\* The synchronisation works on what it listed, and without a reorganisation
\* on a prefix of the best chain, in every behaviour.
THEOREM SyncInvariant == Spec => []Inv
<1>. QED
  BY InitInv, StepInv, PTL DEF Spec

\* RunProtocolWriteFlow leaves exactly the messages of the mempool it listed
\* in stake_mempool_events and among the pending inscription events, whatever
\* failed, crashed or was reorganised before.
THEOREM SyncedTablesHold == Spec => []SyncedTables
<1>1. Inv => SyncedTables
  BY Zenon DEF Inv, SyncInv, SyncedTables, Fetched
<1>. QED
  BY <1>1, SyncInvariant, PTL

\* Without a reorganisation no claim is deducted as confirmed and as pending:
\* the events are reset before blocks are parsed, and a listing has nothing
\* that is committed.
THEOREM DeductedOnce == Spec => []NeverDeductedTwice
<1>1. ASSUME Inv PROVE NeverDeductedTwice
  <2>. SUFFICES ASSUME ~reorged, NEW t \in ClaimedRows, t \in PendingClaims PROVE FALSE
    BY SMTT(30) DEF NeverDeductedTwice
  <2>1. /\ \A h \in 1 .. Len(db) : evs \cap db[h].block.txs = {}
        /\ Len(db) \in Nat
    BY <1>1, SMTT(30) DEF Inv, KeptInv, RowsInv, TypeInv, DbType
  <2>2. Len(Blocks(db)) = Len(db)
    BY <2>1, SMTT(30) DEF Blocks
  <2>3. PICK h \in 1 .. Len(db) : t \in Blocks(db)[h].txs
    BY <2>2, Zenon DEF ClaimedRows, Mined
  <2>4. t \in db[h].block.txs /\ t \in evs
    BY <2>3, Zenon DEF Blocks, PendingClaims
  <2>. QED
    BY <2>1, <2>4, Zenon
<1>. QED
  BY <1>1, SyncInvariant, PTL

\* Without a reorganisation a committed inscription event keeps its height:
\* the synchronisation only writes and deletes rows of pending transactions.
THEOREM ConfirmedEventsStay == Spec => []ConfirmedEventsKept
<1>1. Inv => ConfirmedEventsKept
  BY Zenon DEF Inv, KeptInv, RowsInv, ConfirmedEventsKept, EventsKept
<1>. QED
  BY <1>1, SyncInvariant, PTL
------------------------------------------------------------------------------
(***************************************************************************)
(* What the deltas are worth                                               *)
(***************************************************************************)

\* The unspent outputs of the confirmed state belong to bound addresses and
\* to committed transactions.
LedgerInv ==
    \A h \in 1 .. Len(db) : \A o \in db[h].state.utxo :
        o[2] \in db[h].state.bound /\ \E g \in 1 .. h : o[1] \in db[g].block.txs

Saved == {"snaps", "delEvents", "delInsc", "synced"}

\* What the two passes have added up so far, and that it is stored.
DeltaInv ==
    /\ pc \in Listed => job.bound = State(db).bound
    /\ pc \in Fetched => job.first = FirstBinds(job.got, job.bound)
    /\ pc = "second" => job.delta = AddressDeltas(job.got, job.bound, job.lost)
    /\ pc \in Fetched \ {"second"} /\ job.complete /\ job.lost = {} =>
        job.delta = AddressDeltas(job.list, job.bound \cup job.first, {})
    /\ pc \in Saved => cache = StakeBalanceDeltas(job.delta, job.bound, job.first)
    /\ pc \in Saved \ {"snaps"} =>
        snap = StakerSnapshots(State(db), job.delta, job.bound, job.first)

\* A rollback keeps a prefix; a commit adds the outputs its block pays.
LEMMA LedgerStep ==
    ASSUME TypeInv, LedgerInv, CheckChain \/ Commit PROVE LedgerInv'
<1>1. Len(db) \in Nat /\ db \in Seq(Committed)
  BY SMTT(30) DEF TypeInv, DbType
<1>2. CASE CheckChain
  <2>1. UNCHANGED db \/ db' = SubSeq(db, 1, Max(Same))
    BY <1>2, Zenon DEF CheckChain, Same
  <2>2. Max(Same) \in 0 .. Len(db)
    BY KeepType, Zenon DEF TypeInv
  <2>3. /\ Len(db') \in 0 .. Len(db)
        /\ \A h \in 1 .. Len(db') : db'[h] = db[h]
    BY <1>1, <2>1, <2>2, SubSeqProperties, SMTT(30)
  <2>4. \A h \in 1 .. Len(db') : h \in 1 .. Len(db) /\ \A g \in 1 .. h : g \in 1 .. Len(db')
    BY <1>1, <2>3, SMTT(30)
  <2>5. ASSUME NEW h \in 1 .. Len(db'), NEW o \in db'[h].state.utxo
        PROVE  o[2] \in db'[h].state.bound /\ \E g \in 1 .. h : o[1] \in db'[g].block.txs
    <3>1. h \in 1 .. Len(db) /\ db'[h] = db[h]
      BY <2>3, <2>4, Zenon
    <3>2. o[2] \in db[h].state.bound /\ \E g \in 1 .. h : o[1] \in db[g].block.txs
      BY <3>1, Zenon DEF LedgerInv
    <3>. QED
      BY <2>3, <2>4, <3>1, <3>2, Zenon
  <2>. QED
    BY <2>5, Zenon DEF LedgerInv
<1>3. CASE Commit
  <2>. DEFINE n == Len(db) + 1
              S == chain[n].txs
              entry == [block |-> chain[n], state |-> ApplyBlock(State(db), S)]
  <2>1. db' = Append(db, entry)
    BY <1>3, Zenon DEF Commit
  <2>2. entry.block.txs = S /\ entry.state = ApplyBlock(State(db), S)
    BY Zenon
  <2>3. n \in Nat /\ n = Len(db) + 1 /\ S \subseteq Txs
    <3>1. n \in 1 .. Len(chain)
      BY <1>1, <1>3, SMTT(30) DEF Commit, Extends, TypeInv, NodeType
    <3>2. chain[n] \in BlockType
      BY <3>1, SMTT(30) DEF TypeInv, NodeType
    <3>. QED
      BY <1>1, <3>2, SMTT(30) DEF BlockType
  <2>. HIDE DEF n, S, entry
  <2>4. /\ Len(db') = n /\ db'[n] = entry
        /\ \A h \in 1 .. Len(db) : db'[h] = db[h]
        /\ \A h \in 1 .. n : h \in 1 .. Len(db) \/ h = n
        /\ \A h \in 1 .. Len(db) : \A g \in 1 .. h : g \in 1 .. Len(db)
    BY <1>1, <2>1, <2>3, SMTT(30)
  <2>5. ASSUME NEW o \in State(db).utxo
        PROVE  o[2] \in State(db).bound /\ \E g \in 1 .. Len(db) : o[1] \in db[g].block.txs
    <3>1. db # <<>>
      BY <2>5, Zenon DEF State, Empty
    <3>2. Len(db) \in 1 .. Len(db) /\ State(db) = db[Len(db)].state
      BY <1>1, <3>1, EmptySeq, SMTT(30) DEF State
    <3>. QED
      BY <2>5, <3>2, Zenon DEF LedgerInv
  <2>6. ASSUME NEW o \in entry.state.utxo
        PROVE  o[2] \in entry.state.bound /\ \E g \in 1 .. n : o[1] \in db'[g].block.txs
    <3>1. entry.state.bound = State(db).bound \cup Binds(S)
      BY <2>2, SMTT(30) DEF ApplyBlock
    <3>2. o \in State(db).utxo \/ (o \in Pays(S) /\ o[2] \in entry.state.bound)
      BY <2>2, <2>6, SMTT(30) DEF ApplyBlock
    <3>3. CASE o \in State(db).utxo
      <4>1. PICK g \in 1 .. Len(db) : o[1] \in db[g].block.txs
        BY <2>5, <3>3, Zenon
      <4>2. g \in 1 .. n /\ db'[g] = db[g]
        BY <1>1, <2>3, <2>4, SMTT(30)
      <4>. QED
        BY <2>5, <3>1, <3>3, <4>1, <4>2, Zenon
    <3>4. CASE o \in Pays(S) /\ o[2] \in entry.state.bound
      <4>1. o[1] \in S
        BY <3>4, Zenon DEF Pays
      <4>2. n \in 1 .. n
        BY <1>1, <2>3, SMTT(30)
      <4>. QED
        BY <2>2, <2>4, <3>4, <4>1, <4>2, Zenon
    <3>. QED
      BY <3>2, <3>3, <3>4, Zenon
  <2>7. ASSUME NEW h \in 1 .. Len(db'), NEW o \in db'[h].state.utxo
        PROVE  o[2] \in db'[h].state.bound /\ \E g \in 1 .. h : o[1] \in db'[g].block.txs
    <3>1. CASE h = n
      BY <2>4, <2>6, <3>1, Zenon
    <3>2. CASE h \in 1 .. Len(db)
      <4>1. o[2] \in db[h].state.bound /\ \E g \in 1 .. h : o[1] \in db[g].block.txs
        BY <2>4, <3>2, Zenon DEF LedgerInv
      <4>. QED
        BY <2>4, <3>2, <4>1, Zenon
    <3>. QED
      BY <2>4, <3>1, <3>2, Zenon
  <2>. QED
    BY <2>7 DEF LedgerInv
<1>. QED
  BY <1>2, <1>3, SMTT(30)

\* DeltaInv under the steps that leave a synchronisation or do not touch it.
LEMMA DeltaOutside ==
    ASSUME DeltaInv,
           \/ Node \/ CheckChain \/ Plan \/ ResetEvents \/ ResetCache \/ ResetFails
           \/ InitStatus \/ Commit \/ EndParse \/ ListFails \/ Sleep \/ Crash
    PROVE  DeltaInv'
<1>1. CASE Node
  <2>1. UNCHANGED <<db, cache, snap, pc, job>>
    BY <1>1, Zenon DEF Node, EnterPool, LeavePool, Mine, Reorg, tables
  <2>. QED
    BY <2>1, Zenon DEF DeltaInv
<1>2. CASE ~Node
  <2>1. pc' \notin Listed
    BY <1>2, Zenon
       DEF CheckChain, Plan, ResetEvents, ResetCache, ResetFails, InitStatus, Commit,
                EndParse, ListFails, Sleep, Crash, Goto, Listed, Fetched
  <2>2. Saved \subseteq Listed /\ Fetched \subseteq Listed /\ "second" \in Listed
    BY Zenon DEF Saved, Listed, Fetched
  <2>. QED
    BY <2>1, <2>2, Zenon DEF DeltaInv
<1>. QED
  BY <1>1, <1>2, SMTT(30)

\* The passes: what is in job.delta is what one pass over the listing gives.
LEMMA DeltaPasses ==
    ASSUME TypeInv, SyncInv, DeltaInv, NEW G \in SUBSET job.list,
           NEW L \in SUBSET Spends(job.list),
           List \/ Fetch(G, L) \/ FetchFirstBinds(G, L)
    PROVE  DeltaInv'
<1>1. UNCHANGED db
  BY SMTT(30) DEF List, Fetch, FetchFirstBinds
<1>2. job.list \subseteq Txs /\ job.got \subseteq Txs /\ job.complete \in BOOLEAN
  BY Zenon DEF TypeInv, JobType
<1>3. CASE List
  <2>1. pc' = "fetch" /\ job'.bound = State(db).bound
    BY <1>3, SMTT(30) DEF List, Goto, NoJob
  <2>. QED
    BY <1>1, <2>1, Zenon DEF DeltaInv, Listed, Fetched, Saved
<1>4. CASE Fetch(G, L)
  <2>1. pc = "fetch" /\ pc' = "second"
    BY <1>4, SMTT(30) DEF Fetch, Goto
  <2>2. /\ job'.bound = job.bound /\ job'.got = G /\ job'.lost = L
        /\ job'.first = FirstBinds(G, job.bound)
        /\ job'.delta = AddressDeltas(G, job.bound, L)
    BY <1>4, SMTT(30) DEF Fetch, TypeInv, JobType
  <2>. QED
    BY <1>1, <2>1, <2>2, Zenon DEF DeltaInv, Listed, Fetched, Saved
<1>5. CASE FetchFirstBinds(G, L)
  <2>1. pc = "second" /\ pc' = "events"
    BY <1>5, SMTT(30) DEF FetchFirstBinds, Goto
  <2>2. /\ job.bound = State(db).bound /\ job.first = FirstBinds(job.got, job.bound)
        /\ job.delta = AddressDeltas(job.got, job.bound, job.lost)
        /\ job.complete => job.got = job.list
    BY <2>1, Zenon DEF DeltaInv, SyncInv, Listed, Fetched
  <2>3. job'.bound = job.bound /\ job'.first = job.first /\ job'.got = job.got /\ job'.list = job.list
    BY <1>5, Zenon DEF FetchFirstBinds, TypeInv, JobType
  <2>4. ASSUME job'.complete, job'.lost = {}
        PROVE  job'.delta = AddressDeltas(job.list, job.bound \cup job.first, {})
    <3>1. CASE job.first = {} /\ job' = job
      <4>1. job.bound \cup job.first = job.bound
        BY <3>1, Zenon
      <4>. QED
        BY <2>2, <2>4, <3>1, <4>1, ZenonT(40)
    <3>2. CASE job' = [job EXCEPT !.complete = job.complete /\ G = job.list,
                         !.lost = job.lost \cup L,
                         !.delta = PlusDeltas(job.delta, AddressDeltas(G, job.first, L))]
      <4>1. job'.complete = (job.complete /\ G = job.list)
        BY <1>2, <3>2, Zenon DEF TypeInv, JobType
      <4>2. /\ job'.lost = job.lost \cup L
            /\ job'.delta = PlusDeltas(job.delta, AddressDeltas(G, job.first, L))
        BY <3>2, SMTT(30) DEF TypeInv, JobType
      <4>3. job.complete /\ G = job.list /\ job.got = job.list /\ job.lost = {} /\ L = {}
        BY <2>2, <2>4, <4>1, <4>2, Zenon
      <4>4. job.bound \cap job.first = {}
        BY <2>2, Zenon DEF FirstBinds
      <4>. QED
        <5>1. job.list \subseteq Txs
          BY <1>2, <4>3, Zenon
        <5>2. PlusDeltas(AddressDeltas(job.list, job.bound, {}),
                         AddressDeltas(job.list, job.first, {}))
                = AddressDeltas(job.list, job.bound \cup job.first, {})
          BY <4>4, <5>1, TwoPasses, Zenon
        <5>. QED
          BY <2>2, <4>2, <4>3, <5>2, Zenon
    <3>. QED
      BY <1>5, <3>1, <3>2, SMTT(30) DEF FetchFirstBinds
  <2>. QED
    BY <1>1, <2>1, <2>2, <2>3, <2>4, Zenon DEF DeltaInv, Listed, Fetched, Saved
<1>. QED
  BY <1>3, <1>4, <1>5, Zenon

\* The writes: the deltas and the snapshots are stored as they are, and
\* nothing else of the synchronisation touches them.
LEMMA DeltaWrites ==
    ASSUME DeltaInv,
           \/ UpsertEvents \/ UpsertInscriptions \/ SaveDeltas \/ SaveSnapshots
           \/ DeleteEvents \/ DeleteInscriptions
    PROVE  DeltaInv'
<1>1. UNCHANGED db
  BY Zenon DEF UpsertEvents, UpsertInscriptions, SaveDeltas, SaveSnapshots, DeleteEvents,
         DeleteInscriptions
<1>2. CASE pc' = "idle"
  BY <1>2, Zenon DEF DeltaInv, Listed, Fetched, Saved
<1>3. CASE pc' # "idle"
  <2>1. /\ UNCHANGED job
        /\ \/ pc = "events" /\ pc' = "insc"
           \/ pc = "insc" /\ pc' = "deltas"
           \/ /\ pc = "deltas" /\ pc' = "snaps"
              /\ cache' = StakeBalanceDeltas(job.delta, job.bound, job.first)
           \/ /\ pc = "snaps" /\ pc' = "delEvents" /\ UNCHANGED cache
              /\ snap' = StakerSnapshots(State(db), job.delta, job.bound, job.first)
           \/ pc = "delEvents" /\ pc' = "delInsc" /\ UNCHANGED <<cache, snap>>
           \/ pc = "delInsc" /\ pc' = "synced" /\ UNCHANGED <<cache, snap>>
    BY <1>3, Zenon
       DEF UpsertEvents, UpsertInscriptions, SaveDeltas, SaveSnapshots, DeleteEvents,
                DeleteInscriptions, Proceed, Fail, Goto
  <2>. QED
    BY <1>1, <2>1, Zenon DEF DeltaInv, Listed, Fetched, Saved
<1>. QED
  BY <1>2, <1>3, Zenon

\* The deltas that are stored are those of the whole listing.
THEOREM DeltaInvariant == Spec => [](LedgerInv /\ DeltaInv)
<1>1. Init => LedgerInv /\ DeltaInv
  <2>1. Init => db = <<>> /\ pc = "idle"
    BY Zenon DEF Init
  <2>2. pc = "idle" => pc \notin Listed /\ pc \notin Fetched /\ pc \notin Saved /\ pc # "second"
    BY Zenon DEF Listed, Fetched, Saved
  <2>3. pc = "idle" => DeltaInv
    BY <2>2, ZenonT(40) DEF DeltaInv
  <2>4. ASSUME db = <<>> PROVE LedgerInv
    <3>1. Len(db) = 0
      BY <2>4, SMTT(30)
    <3>2. \A k \in 1 .. 0 : FALSE
      BY SMTT(30)
    <3>. QED
      BY <3>1, <3>2, Zenon DEF LedgerInv
  <2>. QED
    BY <2>1, <2>3, <2>4, Zenon
<1>2. ASSUME Inv, LedgerInv, DeltaInv, [Next]_vars PROVE LedgerInv' /\ DeltaInv'
  <2>. USE DEF Inv
  <2>1. CASE CheckChain \/ Commit
    BY <1>2, <2>1, LedgerStep, DeltaOutside, SMTT(30)
  <2>2. ASSUME UNCHANGED db PROVE LedgerInv'
    BY <1>2, <2>2, Zenon DEF LedgerInv
  <2>3. CASE UNCHANGED vars
    <3>1. UNCHANGED <<db, cache, snap, pc, job>>
      BY <2>3, Zenon DEF vars
    <3>. QED
      BY <1>2, <2>2, <3>1, Zenon DEF DeltaInv
  <2>4. CASE \/ Node \/ Plan \/ ResetEvents \/ ResetCache \/ ResetFails \/ InitStatus
             \/ EndParse \/ ListFails \/ Sleep \/ Crash
    <3>1. UNCHANGED db
      BY <2>4, Zenon DEF Node, EnterPool, LeavePool, Mine, Reorg, Plan, ResetEvents, ResetCache,
                  ResetFails, InitStatus, EndParse, ListFails, Sleep, Crash
    <3>. QED
      BY <1>2, <2>2, <2>4, <3>1, DeltaOutside, SMTT(30)
  <2>5. CASE List
    <3>1. UNCHANGED db
      BY <2>5, SMTT(30) DEF List
    <3>. QED
      BY <1>2, <2>2, <2>5, <3>1, DeltaPasses, Zenon
  <2>6. CASE \E G \in SUBSET job.list : \E L \in SUBSET Spends(job.list) :
                Fetch(G, L) \/ FetchFirstBinds(G, L)
    <3>1. PICK G \in SUBSET job.list, L \in SUBSET Spends(job.list) :
            Fetch(G, L) \/ FetchFirstBinds(G, L)
      BY <2>6, Zenon
    <3>2. UNCHANGED db
      BY <3>1, SMTT(30) DEF Fetch, FetchFirstBinds
    <3>. QED
      BY <1>2, <2>2, <3>1, <3>2, DeltaPasses, Zenon
  <2>7. CASE \/ UpsertEvents \/ UpsertInscriptions \/ SaveDeltas \/ SaveSnapshots
             \/ DeleteEvents \/ DeleteInscriptions
    <3>1. UNCHANGED db
      BY <2>7, ZenonT(40) DEF UpsertEvents, UpsertInscriptions, SaveDeltas, SaveSnapshots,
                  DeleteEvents, DeleteInscriptions
    <3>. QED
      BY <1>2, <2>2, <2>7, <3>1, DeltaWrites, SMTT(30)
  <2>. QED
    BY <1>2, <2>1, <2>3, <2>4, <2>5, <2>6, <2>7, Zenon DEF Next, Loop
<1>. QED
  BY <1>1, <1>2, SyncInvariant, PTL DEF Spec
------------------------------------------------------------------------------

------------------------------------------------------------------------------
\* A complete synchronisation whose listing is accounted for: its deltas are
\* those of one pass over the listing, for the addresses bound after it.
LEMMA Synced ==
    ASSUME Inv, LedgerInv, DeltaInv, pc = "synced", Accounted PROVE SyncedState
<1>. DEFINE s == State(db)
            after == ApplyBlock(s, job.list)
<1>1. s \in Ledger /\ job.list \subseteq Txs /\ job.delta \in [Addr -> Int]
  BY StateType, Zenon DEF Inv, TypeInv, JobType
<1>2. job.complete /\ job.got = job.list /\ job.lost = {} /\ evs = EventTxs(job.list)
  BY Zenon DEF Inv, SyncInv, Fetched, Accounted
<1>3. /\ s.bound = job.bound /\ job.first = FirstBinds(job.list, job.bound)
      /\ job.delta = AddressDeltas(job.list, job.bound \cup job.first, {})
      /\ cache = StakeBalanceDeltas(job.delta, job.bound, job.first)
      /\ snap = StakerSnapshots(s, job.delta, job.bound, job.first)
  BY <1>2, Zenon DEF DeltaInv, Listed, Fetched, Saved
<1>4. after.bound = job.bound \cup job.first
  BY <1>3, ZenonT(40) DEF ApplyBlock, FirstBinds
<1>5. ASSUME NEW o \in s.utxo
      PROVE  o[2] \in s.bound /\ o \notin Pays(job.list)
  <2>1. Len(db) \in Nat /\ db \in Seq(Committed)
    BY SMTT(30) DEF Inv, TypeInv, DbType
  <2>2. Len(db) \in 1 .. Len(db) /\ s = db[Len(db)].state
    BY <1>5, <2>1, EmptySeq, SMTT(30) DEF State, Empty
  <2>3. PICK g \in 1 .. Len(db) : o[2] \in s.bound /\ o[1] \in db[g].block.txs
    BY <1>5, <2>2, Zenon DEF LedgerInv
  <2>4. o[1] \in Mined(Blocks(db))
    BY <2>1, <2>3, SMTT(30) DEF Mined, Blocks
  <2>. QED
    BY <2>3, <2>4, Zenon DEF Accounted, Pays
<1>6. Covers(s, job.list)
  BY <1>5, Zenon DEF Covers, Accounted
<1>7. Foresees(s, job.list, after, job.delta) /\ after \in Ledger
  BY <1>1, <1>3, <1>4, <1>6, ApplyType, Zenon DEF Foresees
<1>. QED
  BY <1>1, <1>2, <1>3, <1>4, <1>7, Zenon DEF FirstBinds, SyncedState, After

\* The deltas of accumulateMempoolStakeBalanceDelta, first binds included,
\* foretell what the parsing of blocks computes, in every behaviour.
THEOREM PendingForetells == Spec => []PendingForetellsCommit
<1>1. Inv /\ LedgerInv /\ DeltaInv => PendingForetellsCommit
  BY Synced, Foretells, Zenon DEF PendingForetellsCommit, After
<1>. QED
  BY <1>1, SyncInvariant, DeltaInvariant, PTL
------------------------------------------------------------------------------
(***************************************************************************)
(* The stakers of an indexer.  saveMempoolIndexerStakerSnapshots merges    *)
(* the first binds of a user only when the user has no stake with the      *)
(* indexer, so that what follows is about users with one stake address for *)
(* each indexer.                                                           *)
(***************************************************************************)

\* A staker shown as pending is one whose amount the mempool changes, when
\* users have one stake address for each indexer.
THEOREM PendingMarksAffected ==
    ASSUME OneStakeAddress PROVE Spec => []PendingMeansAffected
<1>1. ASSUME Inv, DeltaInv PROVE PendingMeansAffected
  <2>. SUFFICES ASSUME pc = "synced", NEW i \in Indexers, NEW r \in Stakers(i)
                PROVE  r.pending <=> r.amount # StakeScore(State(db), i, r.user)
    BY Zenon DEF PendingMeansAffected
  <2>1. Snapshot(State(db), job.delta, job.first)
    <3>1. State(db) \in Ledger /\ job.delta \in [Addr -> Int] /\ job.first \subseteq Addr
      BY <1>1, StateType, Zenon DEF Inv, TypeInv, JobType
    <3>2. /\ State(db).bound \cap job.first = {}
          /\ snap = StakerSnapshots(State(db), job.delta, State(db).bound, job.first)
      BY <1>1, Zenon DEF DeltaInv, Listed, Fetched, Saved, FirstBinds
    <3>. QED
      BY <3>1, <3>2, Zenon DEF Snapshot
  <2>2. PICK z \in [Users -> Nat], pending \in SUBSET Users :
            /\ Stakers(i) = ListStakersByZSet(z, pending)
            /\ \A u \in Users :
                z[u] > 0 => (u \in pending <=> z[u] # StakeScore(State(db), i, u))
    BY <2>1, ListedStaker, SMTT(30)
  <2>3. PICK u \in Users : z[u] > 0 /\ r = [user |-> u, amount |-> z[u], pending |-> u \in pending]
    BY <2>2, Zenon DEF ListStakersByZSet
  <2>4. r.user = u /\ r.amount = z[u] /\ (r.pending <=> u \in pending)
    BY <2>3, Zenon
  <2>. QED
    BY <2>2, <2>3, <2>4, Zenon
<1>. QED
  BY <1>1, SyncInvariant, DeltaInvariant, PTL

\* The four views of pending stake agree after a synchronisation, when users
\* have one stake address for each indexer.
THEOREM ViewsAgree ==
    ASSUME OneStakeAddress PROVE Spec => []PendingViewsAgree
<1>1. Inv /\ LedgerInv /\ DeltaInv => PendingViewsAgree
  BY Synced, TotalsAgree, StakersAgree, Zenon DEF PendingViewsAgree
<1>. QED
  BY <1>1, SyncInvariant, DeltaInvariant, PTL
=============================================================================
