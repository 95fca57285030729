---------------------------- MODULE ConsumerProofs ----------------------------
(***************************************************************************)
(* Proofs about the rewards that the consumers allocate, count and         *)
(* announce, for any number of blocks and users.                           *)
(***************************************************************************)
EXTENDS ConsumerSnapshots

(***************************************************************************)
(* The rewards of a height                                                 *)
(***************************************************************************)
Receivers == Parties \cup {"all"}

\* The smaller of two natural numbers is one.
LEMMA MinOfTwo ==
    ASSUME NEW x \in Nat, NEW y \in Nat PROVE Min({x, y}) \in Nat
<1>1. \E m \in {x, y} : \A n \in {x, y} : m <= n
  OBVIOUS
<1>2. Min({x, y}) \in {x, y}
  BY <1>1 DEF Min
<1>. QED
  BY <1>2, Zenon

\* An amount that is rounded or cut off is a number of units.
LEMMA QuantizeType ==
    ASSUME NEW num \in Int, NEW den \in Nat \ {0}, NEW cut
    PROVE  quantizeReward(num, den, cut) \in Nat
<1>1. CASE num <= 0
  BY <1>1 DEF quantizeReward
<1>2. CASE num > 0
  <2>1. num \in Nat /\ EpsInv \in Nat \ {0}
    BY <1>2, EpsAssumption
  <2>2. num * EpsInv \in Nat /\ den * EpsInv \in Nat
    BY <2>1, NatTimes
  <2>3. den * EpsInv # 0
    BY <2>1
  <2>4. num * EpsInv + den \in Nat /\ den * EpsInv \in Nat \ {0} /\ 2 * num + den \in Nat
        /\ 2 * den \in Nat \ {0}
    BY <2>1, <2>2, <2>3, SMTT(30)
  <2>5. (num * EpsInv + den) \div (den * EpsInv) \in Nat
    BY <2>4, NatQuotient
  <2>6. (2 * num + den) \div (2 * den) \in Nat
    BY <2>4, NatQuotient
  <2>. QED
    BY <1>2, <2>5, <2>6 DEF quantizeReward
<1>. QED
  BY <1>1, <1>2

\* The release percentage of a height is one of the configured ones.
LEMMA ReleaseType ==
    ASSUME NEW h \in Nat PROVE resolveRewardReleasePercent(Cfg, h) \in Nat
<1>. DEFINE passed == {k \in 1 .. Len(Cfg.tiers) : \A j \in 1 .. k : Cfg.tiers[j].start <= h}
<1>0. PICK n \in Nat : n = Len(Cfg.tiers)
  BY CfgAssumption
<1>1. passed \subseteq 1 .. n
  BY <1>0
<1>2. IsFiniteSet(1 .. n) /\ Cardinality(1 .. n) = n
  <2>1. 1 \in Int /\ n \in Int
    OBVIOUS
  <2>2. IsFiniteSet(1 .. n) /\ Cardinality(1 .. n) = IF 1 > n THEN 0 ELSE n - 1 + 1
    BY <2>1, FS_Interval, SMTT(30)
  <2>. QED
    BY <2>2
<1>3. IsFiniteSet(passed) /\ Cardinality(passed) <= n /\ Cardinality(passed) \in Nat
  BY <1>1, <1>2, FS_Subset, FS_CardinalityType, SMTT(30)
<1>4. passed # {} => Cardinality(passed) # 0
  BY <1>3, FS_EmptySet, Zenon
<1>5. passed # {} => Cardinality(passed) \in 1 .. n
  BY <1>3, <1>4
<1>6. ASSUME NEW k \in 1 .. n PROVE Cfg.tiers[k].percent \in Nat
  <2>1. PICK T : T = [start : Nat, percent : Nat]
    BY Zenon
  <2>2. PICK tiers \in Seq(T) : tiers = Cfg.tiers
    BY <2>1, CfgAssumption, Zenon
  <2>3. k \in 1 .. Len(tiers)
    BY <1>0, <2>2, SMTT(30)
  <2>4. tiers[k] \in T
    BY <2>3
  <2>5. \A r \in T : r.percent \in Nat
    BY <2>1
  <2>. QED
    BY <2>2, <2>4, <2>5, SMTT(30)
<1>. HIDE DEF passed
<1>7. (IF passed = {} THEN 0 ELSE Cfg.tiers[Cardinality(passed)].percent) \in Nat
  BY <1>5, <1>6
<1>8. RewardReleasePercentByHeight(Cfg, h) \in Nat
  BY <1>7, Zenon DEF RewardReleasePercentByHeight, passed
<1>. QED
  BY <1>8, MinOfTwo, SMTT(30) DEF resolveRewardReleasePercent

\* The share of the stake that a proof leaves is a percentage.
LEMMA PercentType ==
    ASSUME NEW h \in Nat, NEW p, p.height \in Nat, p.prove \in Nat
    PROVE  resolveDelaySubmitStakePercent(Cfg, h, p) \in 0 .. 100
<1>1. ASSUME p.height > p.prove
      PROVE  resolveStage3DelaySubmitStakePercent(Cfg, p.height - p.prove) \in 0 .. 100
  <2>. DEFINE reached == {k \in 1 .. 7 : p.height - p.prove <= Cfg.stage3Blocks[k]}
  <2>1. CASE reached = {}
    BY <2>1, SMTT(30) DEF resolveStage3DelaySubmitStakePercent
  <2>2. CASE reached # {}
    <3>1. PICK x \in reached : \A y \in reached : x <= y
      <4>1. reached \subseteq Nat
        BY SMTT(30)
      <4>. QED
        BY <2>2, <4>1, NatMin, Zenon
    <3>2. Min(reached) \in reached
      BY <3>1, Zenon DEF Min
    <3>3. Min(reached) \in 1 .. 7
      BY <3>2, SMTT(30)
    <3>4. \A k \in 1 .. 7 : Stage3Percents[k] \in 0 .. 100
      BY SMTT(30) DEF Stage3Percents
    <3>5. Stage3Percents[Min(reached)] \in 0 .. 100
      BY <3>3, <3>4, Zenon
    <3>. QED
      BY <2>2, <3>5, Zenon DEF resolveStage3DelaySubmitStakePercent
  <2>. QED
    BY <2>1, <2>2, Zenon
<1>2. ASSUME p.height > p.prove
      PROVE  resolveStage2DelaySubmitStakePercent(Cfg, p.height - p.prove) \in 0 .. 100
  <2>1. PICK blocks \in Nat, percent \in Nat :
           blocks = Cfg.stepBlocks /\ percent = Cfg.stepPercent
    BY CfgAssumption, Zenon
  <2>2. CASE blocks = 0
    BY <2>1, <2>2, SMTT(30) DEF resolveStage2DelaySubmitStakePercent
  <2>3. CASE blocks # 0
    <3>1. p.height - p.prove - 1 \in Nat
      BY <1>2
    <3>2. (p.height - p.prove - 1) \div blocks \in Nat
      BY <2>3, <3>1, NatQuotient, SMTT(30)
    <3>3. ((p.height - p.prove - 1) \div blocks) * percent \in Nat
      BY <3>2, NatTimes, SMTT(30)
    <3>4. PICK penalty \in Nat :
             penalty = ((p.height - p.prove - 1) \div Cfg.stepBlocks) * Cfg.stepPercent
      BY <2>1, <3>3, SMTT(30)
    <3>5. resolveStage2DelaySubmitStakePercent(Cfg, p.height - p.prove)
            = IF Cfg.stepBlocks = 0 \/ Cfg.stepPercent = 0 THEN 100
              ELSE IF penalty >= 100 THEN 0 ELSE 100 - penalty
      BY <3>4 DEF resolveStage2DelaySubmitStakePercent
    <3>. QED
      BY <3>5
  <2>. QED
    BY <2>2, <2>3, Zenon
<1>. QED
  BY <1>1, <1>2, SMTT(30) DEF resolveDelaySubmitStakePercent

\* Rewards are numbers of units.
LEMMA RewardsType ==
    ASSUME LoopType, NEW h \in 1 .. Len(chain), NEW reward \in Nat, NEW stakes \in [Users -> Nat]
    PROVE  Rewards(h, reward, stakes) \in [Receivers -> Nat]
<1>. DEFINE hash == resolveProofHashInputs(h)
            resolved == resolveStakeProofValidity(Cfg, Selected(h), hash, hash)
            valid == ValidProofs(resolved)
            percent == resolveRewardStakePercentByIndexer(Cfg, h, valid)
            all == [i \in {Indexer} |-> stakes]
            weights == indexerStakeTotal(percent, all)
            unlocked == unlockedRewardAmount(Cfg, h, reward)
            s == Shares(Cfg, h, weights, Indexer, unlocked, Ratio, all)
<1>0. Len(chain) \in Nat /\ h \in Nat
  BY DEF LoopType
<1>1. ASSUME NEW p \in valid PROVE p.height \in Nat /\ p.prove \in Nat
  <2>1. PICK q \in Selected(h) :
           p = [q EXCEPT !.status = verifyUpdate(Cfg, Selected(h), q, hash, hash)]
    BY DEF ValidProofs, resolveStakeProofValidity
  <2>2. q \in Proofs /\ q.prove = h
    BY <2>1 DEF Selected, ListStakeProofByProveHeight
  <2>3. PICK k \in 1 .. Len(chain) : \E b \in chain[k].proofs :
           q = [indexer |-> Indexer, prove |-> b.prove, hash |-> b.hash, height |-> k,
                txIdx |-> 1, txid |-> b.prove, status |-> "Pending"]
    BY <2>2, SMTT(30) DEF Proofs, indexed
  <2>4. q.height = k
    BY <2>3
  <2>5. p.height = q.height /\ p.prove = q.prove
    BY <2>1, <2>3
  <2>. QED
    BY <1>0, <2>2, <2>4, <2>5, SMTT(30)
<1>2. ASSUME NEW i \in DOMAIN percent PROVE percent[i] \in 0 .. 100
  <2>. DEFINE allowed == {p \in valid : IsIndexerRewardAllowedAtHeight(Cfg, p.indexer, h)}
  <2>0. PICK S : S = {resolveDelaySubmitStakePercent(Cfg, h, p) :
                         p \in {q \in allowed : q.indexer = i}}
    BY Zenon
  <2>1. percent = [j \in {p.indexer : p \in allowed} |->
                     Max({resolveDelaySubmitStakePercent(Cfg, h, p) :
                             p \in {q \in allowed : q.indexer = j}})]
    BY Zenon DEF resolveRewardStakePercentByIndexer
  <2>2. percent[i] = Max(S) /\ \E p \in allowed : p.indexer = i
    BY <1>2, <2>0, <2>1, Zenon
  <2>3. S # {}
    BY <2>0, <2>2, Zenon
  <2>4. \A p \in allowed : resolveDelaySubmitStakePercent(Cfg, h, p) \in 0 .. 100
    BY <1>0, <1>1, PercentType, Zenon
  <2>5. S \subseteq 0 .. 100
    BY <2>0, <2>4, Zenon
  <2>6. Max(S) \in S
    <3>1. PICK a \in Int, b \in Int : a = 0 /\ b = 100
      OBVIOUS
    <3>2. S \subseteq a .. b
      BY <2>5, <3>1, SMTT(30)
    <3>. QED
      BY <2>3, <3>2, MaxIn, Zenon
  <2>. QED
    BY <2>2, <2>5, <2>6, Zenon
<1>3. PICK raw \in Nat : raw = SumFunction(stakes)
  <2>1. DOMAIN stakes = Users /\ \A u \in Users : stakes[u] \in Nat
    OBVIOUS
  <2>2. SumFunctionOnSet(stakes, Users) \in Nat
    BY <2>1, SumNat, UsersFinite, SMTT(30)
  <2>. QED
    BY <2>1, <2>2 DEF SumFunction
<1>4. rawStake(all, Indexer) = raw
  BY <1>3 DEF rawStake
<1>5. CASE h < Cfg.startReward \/ reward = 0 \/ DOMAIN weights = {}
  <2>1. Rewards(h, reward, stakes) = Zero(Parties \cup {"all"})
    BY <1>5, Zenon DEF Rewards
  <2>. QED
    BY <2>1, SMTT(30) DEF Zero, Receivers
<1>6. CASE ~(h < Cfg.startReward \/ reward = 0 \/ DOMAIN weights = {})
  <2>. DEFINE eff == (raw * percent[Indexer]) \div 100
  <2>1. /\ DOMAIN weights \subseteq {Indexer} /\ DOMAIN weights \subseteq DOMAIN percent
        /\ \A j \in DOMAIN weights : (rawStake(all, j) * percent[j]) \div 100 > 0
        /\ \A j \in DOMAIN weights :
             weights[j] = [raw |-> rawStake(all, j),
                           effective |-> (rawStake(all, j) * percent[j]) \div 100]
    BY Zenon DEF indexerStakeTotal
  <2>9. Rewards(h, reward, stakes) =
          [p \in Parties \cup {"all"} |->
              IF p = "all" THEN s.first ELSE IF p = Owner THEN s.own ELSE s.users[p]]
    BY <1>6, Zenon DEF Rewards
  <2>. HIDE DEF hash, resolved, valid, percent, weights, unlocked, s
  <2>2. DOMAIN weights = {Indexer} /\ Indexer \in DOMAIN percent
    <3>1. DOMAIN weights \subseteq {Indexer} /\ DOMAIN weights \subseteq DOMAIN percent
      BY <2>1, Zenon
    <3>2. DOMAIN weights # {}
      BY <1>6, Zenon
    <3>. QED
      BY <3>1, <3>2, Zenon
  <2>3. eff > 0 /\ weights[Indexer].raw = raw /\ weights[Indexer].effective = eff
    BY <1>4, <2>1, <2>2, SMTT(30)
  <2>4. PICK pct \in Nat : pct = percent[Indexer]
    <3>1. percent[Indexer] \in 0 .. 100
      BY <1>2, <2>2, Zenon
    <3>2. \A x \in 0 .. 100 : x \in Nat
      OBVIOUS
    <3>. QED
      BY <3>1, <3>2, Zenon
  <2>5. raw * pct \in Nat
    BY NatTimes, SMTT(30)
  <2>6. eff \in Nat \ {0}
    BY <2>3, <2>4, <2>5, NatQuotient, SMTT(30)
  <2>7. raw # 0
    <3>1. ASSUME raw = 0 PROVE FALSE
      <4>1. raw * pct = 0 /\ 0 \div 100 = 0
        BY <3>1
      <4>. QED
        BY <2>4, <2>6, <4>1, SMTT(30)
    <3>. QED
      BY <3>1
  <2>8. PICK e \in Nat \ {0} : e = eff
    BY <2>6
  <2>. HIDE DEF eff
  <2>10. unlocked \in Nat
    <3>1. resolveRewardReleasePercent(Cfg, h) \in Nat
      BY <1>0, ReleaseType, SMTT(30)
    <3>2. reward * resolveRewardReleasePercent(Cfg, h) \in Int
      BY <3>1, NatTimes, SMTT(30)
    <3>. QED
      BY <3>2, QuantizeType, SMTT(30) DEF unlocked, unlockedRewardAmount
  <2>11. SumFunction([j \in DOMAIN weights |-> weights[j].effective]) = e
    <3>. DEFINE w == [j \in DOMAIN weights |-> weights[j].effective]
    <3>1. DOMAIN w = {} \cup {Indexer} /\ w[Indexer] = e
      BY <2>2, <2>3, <2>8, SMTT(30)
    <3>2. \A y \in {} \cup {Indexer} : w[y] \in Int
      BY <3>1
    <3>. HIDE DEF w
    <3>3. SumFunctionOnSet(w, {} \cup {Indexer}) = w[Indexer] + SumFunctionOnSet(w, {})
      BY <3>2, SumAdd, FS_EmptySet, Zenon
    <3>4. SumFunctionOnSet(w, {}) = 0
      BY SumEmpty
    <3>5. SumFunction(w) = e
      BY <3>1, <3>3, <3>4, SMTT(30) DEF SumFunction
    <3>. QED
      BY <3>5, SMTT(30) DEF w
  <2>. DEFINE first == firstLayerReward(Cfg, h, weights, Indexer, unlocked)
              own == indexerReward(Cfg, h, first, Ratio)
  <2>12. first \in Nat
    <3>1. unlocked * e \in Int
      BY <2>10, NatTimes, SMTT(30)
    <3>2. unlocked * weights[Indexer].effective = unlocked * e
      BY <2>3, <2>8, SMTT(30)
    <3>. QED
      BY <2>11, <3>1, <3>2, QuantizeType, SMTT(30) DEF firstLayerReward
  <2>. HIDE DEF first
  <2>13. own \in Nat
    <3>1. first * Ratio \in Int /\ 10000 \in Nat \ {0}
      BY <2>12, NatTimes, ConsumerAssumption, SMTT(30)
    <3>2. quantizeReward(first * Ratio, 10000, shouldUseRewardTruncation(Cfg, h)) \in Nat
      BY <3>1, QuantizeType, SMTT(30)
    <3>. QED
      BY <2>12, <3>2, MinOfTwo, SMTT(30) DEF indexerReward
  <2>. HIDE DEF own
  <2>14. ASSUME NEW u \in Users
         PROVE  stakerReward(Cfg, h, first - own, stakes[u], raw) \in Nat
    <3>1. (first - own) * stakes[u] \in Int
      BY <2>12, <2>13, SMTT(30)
    <3>. QED
      BY <2>7, <3>1, QuantizeType, SMTT(30) DEF stakerReward
  <2>15. /\ s.first = first /\ s.own = own
         /\ \A u \in Users :
              s.users[u] = stakerReward(Cfg, h, first - own, stakes[u], raw)
    BY <2>3, Zenon DEF s, Shares, first, own
  <2>16. \A p \in Parties : p # Owner => p \in Users
    BY DEF Parties
  <2>. QED
    BY <2>9, <2>12, <2>13, <2>14, <2>15, <2>16, SMTT(30) DEF Receivers
<1>. QED
  BY <1>5, <1>6, SMTT(30)

\* The amounts the committed blocks define for a height
Expected(h) == Rewards(h, chain[h].reward, StakesAt(h))

\* These amounts are natural numbers.
LEMMA ExpectedType ==
    ASSUME LoopType, NeverOverdrawn, NEW h \in 1 .. Len(chain)
    PROVE  Expected(h) \in [Receivers -> Nat]
<1>1. chain[h].reward \in Nat /\ h \in Nat /\ h <= Len(chain)
  BY BlockType DEF LoopType
<1>2. ASSUME NEW u \in Users PROVE StakesAt(h)[u] \in Nat
  <2>1. PICK S : S = {a \in Bound(h) : UserOf[a] = u}
    BY Zenon
  <2>2. Bound(h) \subseteq Addrs
    BY <1>1, BoundMore, SMTT(30)
  <2>3. IsFiniteSet(S)
    BY <2>1, <2>2, FS_Subset, BlockAssumption, Zenon
  <2>4. PICK f : f = Balances(h)
    OBVIOUS
  <2>5. \A a \in S : f[a] \in Nat
    BY <1>1, <2>1, <2>2, <2>4, BalanceNat, SMTT(30) DEF Balances
  <2>6. SumFunctionOnSet(f, S) \in Nat
    BY <2>3, <2>5, SumNat, SMTT(30)
  <2>. QED
    BY <2>1, <2>4, <2>6, Zenon DEF StakesAt, SumOf, Balances
<1>3. StakesAt(h) \in [Users -> Nat]
  <2>1. StakesAt(h) = [u \in Users |-> StakesAt(h)[u]]
    BY SMTT(30) DEF StakesAt, SumOf
  <2>. QED
    BY <1>2, <2>1, SMTT(30)
<1>. QED
  BY <1>1, <1>3, RewardsType, Zenon DEF Expected

\* They depend on no block after the proof window.
LEMMA ExpectedSame ==
    ASSUME Len(chain) \in Nat, Len(chain') \in Nat, NEW h \in Nat, h >= 1,
           SameUpTo(h + Window(h))
    PROVE  Expected(h)' = Expected(h)
<1>0. PICK w \in Nat : w = Window(h)
  BY WindowType
<1>1. \A k \in 1 .. h + w : chain'[k] = chain[k] /\ k \in 1 .. Len(chain) /\ k \in 1 .. Len(chain')
  BY <1>0 DEF SameUpTo
<1>2. h \in 1 .. h + w /\ h <= Len(chain) /\ h <= Len(chain')
  BY <1>0 DEF SameUpTo
<1>3. SameUpTo(h)
  BY <1>0, <1>2, SMTT(30) DEF SameUpTo
<1>4. chain'[h] = chain[h] /\ StakesAt(h)' = StakesAt(h)
  BY <1>1, <1>2, <1>3, SameStakes, Zenon
<1>5. resolveProofHashInputs(h)' = resolveProofHashInputs(h)
  BY <1>2, <1>4, SMTT(30) DEF resolveProofHashInputs, indexed
<1>. DEFINE Row(p, k) == [indexer |-> Indexer, prove |-> p.prove, hash |-> p.hash,
                          height |-> k, txIdx |-> 1, txid |-> p.prove, status |-> "Pending"]
            In(q, c) == \E k \in 1 .. Len(c) : \E p \in c[k].proofs :
                           q = Row(p, k) /\ p.prove = h /\ k > h /\ k <= h + w
<1>6. \A q : q \in Selected(h) <=> In(q, chain)
  <2>1. \A q : q \in Proofs <=> \E k \in 1 .. Len(chain) : \E p \in chain[k].proofs : q = Row(p, k)
    BY DEF Proofs, indexed
  <2>2. \A p, k : Row(p, k).prove = p.prove /\ Row(p, k).height = k
    OBVIOUS
  <2>3. \A q : q \in Selected(h) <=>
               q \in Proofs /\ q.prove = h /\ q.height > h /\ q.height <= h + w
    BY <1>0, SMTT(30) DEF Selected, ListStakeProofByProveHeight, Window
  <2>. HIDE DEF Row
  <2>. QED
    BY <2>1, <2>2, <2>3, SMTT(30)
<1>7. \A q : q \in Selected(h)' <=> In(q, chain')
  <2>1. \A q : q \in Proofs' <=>
               \E k \in 1 .. Len(chain') : \E p \in chain'[k].proofs : q = Row(p, k)
    BY DEF Proofs, indexed
  <2>2. \A p, k : Row(p, k).prove = p.prove /\ Row(p, k).height = k
    OBVIOUS
  <2>3. \A q : q \in Selected(h)' <=>
               q \in Proofs' /\ q.prove = h /\ q.height > h /\ q.height <= h + w
    BY <1>0, SMTT(30) DEF Selected, ListStakeProofByProveHeight, Window
  <2>. HIDE DEF Row
  <2>. QED
    BY <2>1, <2>2, <2>3, SMTT(30)
<1>8. ASSUME NEW q PROVE In(q, chain) <=> In(q, chain')
  <2>1. ASSUME NEW k \in Int, k > h, k <= h + w
        PROVE  k \in 1 .. Len(chain) /\ k \in 1 .. Len(chain') /\ chain'[k] = chain[k]
    <3>1. k \in 1 .. h + w
      BY <2>1, SMTT(30)
    <3>. QED
      BY <1>1, <3>1, SMTT(30)
  <2>. HIDE DEF Row
  <2>2. ASSUME In(q, chain) PROVE In(q, chain')
    <3>1. PICK k \in 1 .. Len(chain) : \E p \in chain[k].proofs :
             q = Row(p, k) /\ p.prove = h /\ k > h /\ k <= h + w
      BY <2>2, Zenon
    <3>2. k \in 1 .. Len(chain') /\ chain'[k] = chain[k]
      BY <2>1, <3>1, SMTT(30)
    <3>. QED
      BY <3>1, <3>2, Zenon
  <2>3. ASSUME In(q, chain') PROVE In(q, chain)
    <3>1. PICK k \in 1 .. Len(chain') : \E p \in chain'[k].proofs :
             q = Row(p, k) /\ p.prove = h /\ k > h /\ k <= h + w
      BY <2>3
    <3>2. k \in 1 .. Len(chain) /\ chain'[k] = chain[k]
      BY <2>1, <3>1
    <3>. QED
      BY <3>1, <3>2, Zenon
  <2>. QED
    BY <2>2, <2>3, Zenon
<1>9. Selected(h)' = Selected(h)
  <2>. HIDE DEF In
  <2>. QED
    BY <1>6, <1>7, <1>8, Zenon
<1>. QED
  BY <1>4, <1>5, <1>9, Zenon DEF Expected, Rewards

\* A step of a consumer does not change them.
LEMMA ExpectedKept == ASSUME chain' = chain, NEW h PROVE Expected(h)' = Expected(h)
<1>1. StakesAt(h)' = StakesAt(h)
  BY SameChain, SMTT(30)
<1>2. Selected(h)' = Selected(h) /\ resolveProofHashInputs(h)' = resolveProofHashInputs(h)
  BY SMTT(30) DEF Selected, Proofs, indexed, resolveProofHashInputs
<1>. QED
  BY <1>1, <1>2, Zenon DEF Expected, Rewards
-------------------------------------------------------------------------------
(***************************************************************************)
(* What is written: no proof of a height the snapshot consumer has taken   *)
(* up is reorganised away either.                                          *)
(***************************************************************************)
Buried == \A h \in Heights : Window(h) + FinalDepth <= Lag

RowsOf(amounts) == [p \in Parties |-> amounts[p]]
Settled == {"subtract", "delete", "flush"}

Holdings == [existing : Int, amounts : [Receivers -> Nat]]

WriteType ==
    /\ rows \in [Consumers -> [Heights -> [Parties -> Nat]]]
    /\ slow \in [Consumers -> [inc : [Consumers -> [Receivers -> Int]], total : Int]]
    /\ paid \in [Consumers -> [Receivers -> Int]]
    /\ total \in Int /\ held \in Holdings
    /\ pc["pending"] \notin {"subtract", "delete"} /\ pc["snapshot"] # "upsert"

\* Allocated rows are those of the committed blocks, up to the height the
\* consumer is at; that height has them or none, the ones above have none.
AllocatedInv ==
    /\ \A h \in 1 .. cursor["snapshot"] : rows["snapshot"][h] = RowsOf(Expected(h))
    /\ \A h \in Heights : h > cursor["snapshot"] =>
         \/ rows["snapshot"][h] = Zero(Parties)
         \/ /\ h = cursor["snapshot"] + 1 /\ h + Lag <= top
            /\ rows["snapshot"][h] = RowsOf(Expected(h))
    /\ pc["snapshot"] \in Settled =>
         rows["snapshot"][hgt["snapshot"]] = RowsOf(Expected(hgt["snapshot"]))

\* What is staged is the reward of the height; what is paid, that of the cursor.
CountInv ==
    /\ slow["pending"].inc["snapshot"] = Zero(Receivers)
    /\ slow["snapshot"].inc["snapshot"] =
         IF pc["snapshot"] \in Settled THEN Expected(hgt["snapshot"]) ELSE Zero(Receivers)
    /\ CountedOnce

\* Rows that are those of the blocks are as the properties want them.
LEMMA RowsExpected ==
    ASSUME NEW c, NEW h, rows[c][h] = RowsOf(Expected(h)) PROVE AsExpected(c, h)
<1>1. \A p \in Parties : rows[c][h][p] = Expected(h)[p]
  BY Zenon DEF RowsOf
<1>. QED
  BY <1>1, Zenon DEF AsExpected, Expected

\* There are two consumers.
LEMMA TwoConsumers ==
    /\ "snapshot" \in Consumers /\ "pending" \in Consumers /\ "snapshot" # "pending"
    /\ \A c \in Consumers : c = "snapshot" \/ c = "pending"
BY SMTT(30) DEF Consumers

\* The amount of some rewards is an integer.
LEMMA AmountType ==
    ASSUME NEW f, \A p \in Parties : f[p] \in Int PROVE Amount(f) \in Int
BY SumInt, UsersFinite, SMTT(30) DEF Amount

\* Writing the amounts of a height over none, or over themselves
LEMMA UpsertSame ==
    ASSUME NEW e \in [Receivers -> Nat], NEW old, old = Zero(Parties) \/ old = RowsOf(e)
    PROVE  Upserted(old, e) = RowsOf(e) /\ RowsOf(e) \in [Parties -> Nat]
<1>1. \A p \in Parties : e[p] \in Nat
  BY DEF Receivers
<1>2. \A p \in Parties : old[p] = 0 \/ old[p] = e[p]
  BY DEF Zero, RowsOf
<1>3. \A p \in Parties : (IF e[p] > 0 THEN e[p] ELSE old[p]) = e[p]
  BY <1>1, <1>2, SMTT(30)
<1>. QED
  BY <1>1, <1>3, SMTT(30) DEF Upserted, RowsOf

\* In the block's step, the reward is the one the committed blocks define.
LEMMA RewardAt ==
    ASSUME LoopType, LoopInv, SnapshotInv, Undisturbed, NEW c \in Consumers,
           pc[c] \in Working \ {"load", "stage"}
    PROVE  /\ Rewards(hgt[c], read[c].reward, mem[c]) = Expected(hgt[c])
           /\ Expected(hgt[c]) \in [Receivers -> Nat]
           /\ hgt[c] \in Heights
<1>1. read[c].reward = chain[hgt[c]].reward /\ mem[c] = StakesAt(hgt[c])
  BY Zenon DEF SnapshotInv, Follows
<1>2. hgt[c] \in 1 .. Len(chain)
  BY AtHeight, SMTT(30) DEF SnapshotInv
<1>3. Expected(hgt[c]) \in [Receivers -> Nat]
  BY <1>2, ExpectedType, SMTT(30) DEF Undisturbed
<1>4. hgt[c] \in Heights
  BY <1>2, ConsumerAssumption, SMTT(30) DEF LoopType, Heights
<1>. QED
  BY <1>1, <1>3, <1>4, Zenon DEF Expected

\* The rewards of a height that is slow_lag_blocks deep stay what they are.
LEMMA DeepRewards ==
    ASSUME LoopType, TopInv, WriteType, Undisturbed, Buried, Commit \/ Rollback,
           NEW h \in Nat, h >= 1, h + Lag <= top
    PROVE  Expected(h)' = Expected(h) /\ rows'["snapshot"][h] = rows["snapshot"][h]
<1>1. h \in Heights /\ Len(chain) \in Nat /\ Len(chain') \in Nat
  BY ChainStep, ConsumerAssumption, SMTT(30) DEF LoopType, Heights
<1>2. PICK w \in Nat : w = Window(h)
  BY WindowType, SMTT(30)
<1>3. (h + w) + FinalDepth <= top /\ h + w \in Nat
  BY <1>1, <1>2, ConsumerAssumption, SMTT(30) DEF Buried, LoopType
<1>4. SameUpTo(h + w)
  BY <1>3, StableChain, SMTT(30)
<1>5. Expected(h)' = Expected(h)
  BY <1>1, <1>2, <1>4, ExpectedSame, SMTT(30)
<1>6. CASE Commit
  BY <1>5, <1>6, Zenon DEF Commit
<1>7. CASE Rollback
  <2>1. PICK from \in 1 .. Len(chain) : from > top - FinalDepth /\
          rows' = [rows EXCEPT !["snapshot"] =
                      [k \in Heights |-> IF k >= from THEN Zero(Parties) ELSE @[k]]]
    BY <1>7, SMTT(30) DEF Rollback, indexed
  <2>2. ~(h >= from)
    BY <1>1, <2>1, ConsumerAssumption, SMTT(30) DEF Undisturbed, LoopType
  <2>. QED
    BY <1>1, <1>5, <2>1, <2>2, TwoConsumers, SMTT(30) DEF WriteType
<1>. QED
  BY <1>6, <1>7, Zenon

\* How deep the cursors and the heights the consumers are at lie
LEMMA Depths ==
    ASSUME LoopType, LoopInv
    PROVE  /\ cursor["snapshot"] > 0 => cursor["snapshot"] + Lag <= top
           /\ pc["snapshot"] \in Working =>
                 /\ hgt["snapshot"] = cursor["snapshot"] + 1
                 /\ hgt["snapshot"] >= 1 /\ hgt["snapshot"] + Lag <= top
           /\ \A h \in 1 .. cursor["pending"] : h + Window(h) <= top
           /\ pc["pending"] \in Working =>
                 /\ hgt["pending"] = cursor["pending"] + 1
                 /\ hgt["pending"] >= 1 /\ hgt["pending"] + Window(hgt["pending"]) <= top
<1>1. /\ InBatch("snapshot") /\ InBatch("pending")
      /\ \A h : Distance("snapshot", h) = Lag /\ Distance("pending", h) = Window(h)
  BY TwoConsumers, SMTT(30) DEF LoopInv, Distance
<1>2. /\ cursor["snapshot"] \in Nat /\ hgt["snapshot"] \in Nat /\ end["snapshot"] \in Nat
      /\ cursor["pending"] \in Nat /\ hgt["pending"] \in Nat /\ end["pending"] \in Nat
  BY TwoConsumers DEF LoopType
<1>3. \A n \in Nat : n > 0 => n \in 1 .. n
  BY SMTT(30)
<1>4. cursor["snapshot"] > 0 => cursor["snapshot"] + Lag <= top
  BY <1>1, <1>2, <1>3, Zenon DEF InBatch, DeepEnough
<1>5. pc["snapshot"] \in Working =>
         hgt["snapshot"] = cursor["snapshot"] + 1 /\ hgt["snapshot"] \in 1 .. end["snapshot"]
  BY <1>1, <1>2, SMTT(30) DEF InBatch
<1>6. pc["pending"] \in Working =>
         hgt["pending"] = cursor["pending"] + 1 /\ hgt["pending"] \in 1 .. end["pending"]
  BY <1>1, <1>2, SMTT(30) DEF InBatch
<1>. QED
  BY <1>1, <1>2, <1>4, <1>5, <1>6, SMTT(30) DEF InBatch, DeepEnough

\* Allocated rows: what the fast path does
LEMMA AllocatedChain ==
    ASSUME LoopType, LoopInv, TopInv, WriteType, AllocatedInv, Undisturbed, Buried,
           Commit \/ Rollback
    PROVE  AllocatedInv'
<1>0. PICK n \in Nat, m \in Nat : n = cursor["snapshot"] /\ m = hgt["snapshot"]
  BY TwoConsumers, Zenon DEF LoopType
<1>1. UNCHANGED <<pc, hgt, cursor>> /\ top \in Nat /\ top' \in Nat /\ top <= top'
  BY ChainStep, Zenon DEF Commit, Rollback, loop, redis, LoopType
<1>2. n > 0 => n + Lag <= top
  BY <1>0, Depths, SMTT(30)
<1>3. pc["snapshot"] \in Settled => m >= 1 /\ m + Lag <= top
  BY <1>0, Depths, Zenon DEF Settled, Working
<1>4. ASSUME NEW h \in 1 .. n PROVE (rows["snapshot"][h] = RowsOf(Expected(h)))'
  <2>1. h \in Nat /\ h >= 1 /\ h + Lag <= top
    BY <1>0, <1>1, <1>2, ConsumerAssumption, SMTT(30)
  <2>2. Expected(h)' = Expected(h) /\ rows'["snapshot"][h] = rows["snapshot"][h]
    BY <2>1, DeepRewards, SMTT(30)
  <2>. QED
    BY <1>0, <2>2, SMTT(30) DEF AllocatedInv, RowsOf
<1>5. ASSUME NEW h \in Heights, h > n
      PROVE  (\/ rows["snapshot"][h] = Zero(Parties)
              \/ h = n + 1 /\ h + Lag <= top /\ rows["snapshot"][h] = RowsOf(Expected(h)))'
  <2>1. CASE rows["snapshot"][h] = Zero(Parties)
    <3>1. CASE Commit
      BY <2>1, <3>1, Zenon DEF Commit
    <3>2. CASE Rollback
      <4>1. PICK from : rows' = [rows EXCEPT !["snapshot"] =
                      [k \in Heights |-> IF k >= from THEN Zero(Parties) ELSE @[k]]]
        BY <3>2, Zenon DEF Rollback
      <4>. QED
        BY <2>1, <4>1, TwoConsumers, SMTT(30) DEF WriteType
    <3>. QED
      BY <3>1, <3>2, Zenon
  <2>2. CASE h = n + 1 /\ h + Lag <= top /\ rows["snapshot"][h] = RowsOf(Expected(h))
    <3>1. Expected(h)' = Expected(h) /\ rows'["snapshot"][h] = rows["snapshot"][h]
      BY <2>2, DeepRewards, SMTT(30)
    <3>2. h + Lag <= top'
      BY <1>1, <2>2, ConsumerAssumption, SMTT(30)
    <3>. QED
      BY <2>2, <3>1, <3>2, Zenon DEF RowsOf
  <2>. QED
    BY <1>0, <1>5, <2>1, <2>2, Zenon DEF AllocatedInv
<1>6. ASSUME pc["snapshot"] \in Settled PROVE (rows["snapshot"][m] = RowsOf(Expected(m)))'
  <2>1. Expected(m)' = Expected(m) /\ rows'["snapshot"][m] = rows["snapshot"][m]
    BY <1>3, <1>6, DeepRewards, Zenon
  <2>. QED
    BY <1>0, <1>6, <2>1, Zenon DEF AllocatedInv, RowsOf
<1>. QED
  BY <1>0, <1>1, <1>4, <1>5, <1>6, Zenon DEF AllocatedInv

\* What the writes are made of stays well typed.
LEMMA NoWritesType ==
    /\ NoWrites \in [inc : [Consumers -> [Receivers -> Int]], total : Int]
    /\ NoWrites.inc["snapshot"] = Zero(Receivers)
    /\ Zero(Parties) \in [Parties -> Nat]
BY TwoConsumers, SMTT(30) DEF NoWrites, Zero, Receivers, Unset

\* Nor is anything held.
LEMMA NoneHeldType == NoneHeld \in Holdings
BY SMTT(30) DEF NoneHeld, Holdings, Zero, Receivers

\* A step that only moves the program counter keeps the types of the rewards.
LEMMA WriteQuiet ==
    ASSUME WriteType, LoopType, UNCHANGED <<rows, slow, paid, total, held>>,
           NEW c \in Consumers, NEW s \in {"off", "poll", "load", "stage", "reward", "flush"},
           pc' = [pc EXCEPT ![c] = s]
    PROVE  WriteType'
BY SMTT(30) DEF WriteType, LoopType

\* The settled consumer stages well-typed rewards.
LEMMA WriteAllocate ==
    ASSUME LoopType, LoopInv, SnapshotInv, WriteType, Undisturbed, Allocate("snapshot")
    PROVE  WriteType'
<1>0. pc["snapshot"] = "reward"
  BY Zenon DEF Allocate
<1>1. PICK m \in Heights, e \in [Receivers -> Nat] :
         m = hgt["snapshot"] /\ e = Rewards(m, read["snapshot"].reward, mem["snapshot"])
  BY <1>0, TwoConsumers, RewardAt DEF Working
<1>2. PICK f \in [Parties -> Nat] : f = rows["snapshot"][m]
  BY TwoConsumers DEF WriteType
<1>3. /\ slow' = [slow EXCEPT !["snapshot"] = StagedRewards("snapshot", e)]
      /\ rows' = [rows EXCEPT !["snapshot"][m] = Upserted(f, e)]
      /\ pc' \in {[pc EXCEPT !["snapshot"] = "subtract"], [pc EXCEPT !["snapshot"] = "flush"]}
      /\ UNCHANGED <<paid, total, held>>
  BY <1>1, <1>2, Zenon DEF Allocate, redis
<1>4. Upserted(f, e) \in [Parties -> Nat]
  BY DEF Upserted, Receivers
<1>5. PICK w \in [inc : [Consumers -> [Receivers -> Int]], total : Int] : w = slow["snapshot"]
  BY TwoConsumers, Zenon DEF WriteType
<1>6. StagedRewards("snapshot", e) \in [inc : [Consumers -> [Receivers -> Int]], total : Int]
  <2>1. w.inc["snapshot"] \in [Receivers -> Int]
    BY TwoConsumers, SMTT(30)
  <2>2. [p \in Receivers |-> w.inc["snapshot"][p] + e[p]] \in [Receivers -> Int]
    BY <2>1
  <2>3. StagedRewards("snapshot", e) =
          [w EXCEPT !.inc["snapshot"] = [p \in Receivers |-> w.inc["snapshot"][p] + e[p]]]
    BY <1>5, <2>1, Zenon DEF StagedRewards
  <2>. QED
    BY <2>2, <2>3, TwoConsumers, SMTT(30)
<1>7. rows' \in [Consumers -> [Heights -> [Parties -> Nat]]]
  BY <1>3, <1>4, TwoConsumers, SMTT(30) DEF WriteType
<1>8. slow' \in [Consumers -> [inc : [Consumers -> [Receivers -> Int]], total : Int]]
  BY <1>3, <1>6, TwoConsumers, Zenon DEF WriteType
<1>. QED
  BY <1>3, <1>7, <1>8, TwoConsumers, ZenonT(40) DEF WriteType, LoopType

\* The pending consumer stages well-typed rewards, and no settled ones.
LEMMA WriteAnnounce ==
    ASSUME LoopType, LoopInv, SnapshotInv, WriteType, Undisturbed, Announce("pending")
    PROVE  WriteType' /\ slow'["snapshot"] = slow["snapshot"]
           /\ slow'["pending"].inc["snapshot"] = slow["pending"].inc["snapshot"]
           /\ rows'["snapshot"] = rows["snapshot"]
<1>0. pc["pending"] = "reward"
  BY Zenon DEF Announce
<1>1. PICK m \in Heights, e \in [Receivers -> Nat] :
         m = hgt["pending"] /\ e = Rewards(m, read["pending"].reward, mem["pending"])
  BY <1>0, TwoConsumers, RewardAt, Zenon DEF Working
<1>2. /\ slow' = [slow EXCEPT !["pending"] = StagedRewards("pending", e)]
      /\ \/ /\ held' = [existing |-> Amount(rows["pending"][m]), amounts |-> e]
            /\ rows' = [rows EXCEPT !["pending"][m] = Zero(Parties)]
         \/ UNCHANGED <<held, rows>>
      /\ pc' \in {[pc EXCEPT !["pending"] = "upsert"], [pc EXCEPT !["pending"] = "flush"]}
      /\ UNCHANGED <<paid, total>>
  BY <1>1, Zenon DEF Announce, redis
<1>3. PICK w \in [inc : [Consumers -> [Receivers -> Int]], total : Int] : w = slow["pending"]
  BY TwoConsumers, SMTT(30) DEF WriteType
<1>4. /\ StagedRewards("pending", e) \in [inc : [Consumers -> [Receivers -> Int]], total : Int]
      /\ StagedRewards("pending", e).inc["snapshot"] = w.inc["snapshot"]
  <2>1. w.inc["pending"] \in [Receivers -> Int]
    BY TwoConsumers, SMTT(30)
  <2>2. [p \in Receivers |-> w.inc["pending"][p] + e[p]] \in [Receivers -> Int]
    BY <2>1, SMTT(30)
  <2>3. StagedRewards("pending", e) =
          [w EXCEPT !.inc["pending"] = [p \in Receivers |-> w.inc["pending"][p] + e[p]]]
    BY <1>3, <2>1, Zenon DEF StagedRewards
  <2>. QED
    BY <2>2, <2>3, TwoConsumers, SMTT(30)
<1>5. Amount(rows["pending"][m]) \in Int
  <2>1. PICK f : f = rows["pending"][m]
    BY SMTT(30)
  <2>2. \A p \in Parties : f[p] \in Int
    BY <2>1, TwoConsumers, SMTT(30) DEF WriteType
  <2>. QED
    BY <2>1, <2>2, AmountType, Zenon
<1>6. rows' \in [Consumers -> [Heights -> [Parties -> Nat]]] /\ rows'["snapshot"] = rows["snapshot"]
      /\ held' \in Holdings
  <2>1. PICK z \in [Parties -> Nat] : z = Zero(Parties)
    BY NoWritesType, Zenon
  <2>2. rows' = [rows EXCEPT !["pending"][m] = z] \/ rows' = rows
    BY <1>2, <2>1, Zenon
  <2>3. held' \in Holdings
    <3>1. PICK x \in Int : x = Amount(rows["pending"][m])
      BY <1>5, Zenon
    <3>2. [existing |-> x, amounts |-> e] \in Holdings
      BY SMTT(30) DEF Holdings
    <3>. QED
      BY <1>2, <3>1, <3>2, Zenon DEF WriteType
  <2>4. CASE rows' = rows
    BY <2>3, <2>4, Zenon DEF WriteType
  <2>5. CASE rows' = [rows EXCEPT !["pending"][m] = z]
    BY <2>3, <2>5, TwoConsumers, Zenon DEF WriteType
  <2>. QED
    BY <2>2, <2>4, <2>5, Zenon
<1>7. slow' \in [Consumers -> [inc : [Consumers -> [Receivers -> Int]], total : Int]]
      /\ slow'["snapshot"] = slow["snapshot"]
      /\ slow'["pending"].inc["snapshot"] = slow["pending"].inc["snapshot"]
  BY <1>2, <1>3, <1>4, TwoConsumers, Zenon DEF WriteType
<1>8. pc'["pending"] \notin {"subtract", "delete"} /\ pc'["snapshot"] # "upsert"
  BY <1>2, TwoConsumers, Zenon DEF WriteType, LoopType
<1>. QED
  BY <1>2, <1>6, <1>7, <1>8, Zenon DEF WriteType

\* The pending consumer writes well-typed rows, and no settled ones.
LEMMA WriteUpsert ==
    ASSUME LoopType, LoopInv, SnapshotInv, WriteType, Undisturbed, UpsertPending("pending")
    PROVE  WriteType' /\ slow'["snapshot"] = slow["snapshot"]
           /\ slow'["pending"].inc["snapshot"] = slow["pending"].inc["snapshot"]
           /\ rows'["snapshot"] = rows["snapshot"]
<1>0. pc["pending"] = "upsert"
  BY SMTT(30) DEF UpsertPending
<1>1. PICK m \in Heights : m = hgt["pending"]
  BY <1>0, TwoConsumers, RewardAt, Zenon DEF Working
<1>9. PICK x \in Int, e \in [Receivers -> Nat] : x = held.existing /\ e = held.amounts
  BY SMTT(30) DEF WriteType, Holdings
<1>2. PICK f \in [Parties -> Nat] : f = rows["pending"][m]
  BY TwoConsumers, SMTT(30) DEF WriteType
<1>3. Upserted(f, e) \in [Parties -> Nat]
  BY Zenon DEF Upserted, Receivers
<1>4. /\ rows' = [rows EXCEPT !["pending"][m] = Upserted(f, e)]
      /\ \E current \in {total, 0} : slow' = [slow EXCEPT !["pending"].total =
                                        Max({0, current - x}) + Amount(e)]
      /\ pc' = [pc EXCEPT !["pending"] = "flush"]
      /\ held' = NoneHeld /\ UNCHANGED <<paid, total>>
  BY <1>1, <1>2, <1>9, Zenon DEF UpsertPending, redis
<1>5. Amount(e) \in Int
  BY AmountType DEF Receivers
<1>6. PICK t \in Int : slow' = [slow EXCEPT !["pending"].total = t]
  <2>1. PICK current \in {total, 0} : slow' = [slow EXCEPT !["pending"].total =
                                  Max({0, current - x}) + Amount(e)]
    BY <1>4, Zenon
  <2>2. PICK d \in Int : d = current - x
    BY <1>9, SMTT(30) DEF WriteType
  <2>3. Max({0, d}) \in Int
    BY MaxOfTwo, SMTT(30)
  <2>4. PICK t \in Int : t = Max({0, current - x}) + Amount(e)
    BY <1>5, <2>2, <2>3, SMTT(30)
  <2>. QED
    BY <2>1, <2>4, Zenon
<1>7. rows' \in [Consumers -> [Heights -> [Parties -> Nat]]] /\ rows'["snapshot"] = rows["snapshot"]
  BY <1>3, <1>4, TwoConsumers, Zenon DEF WriteType
<1>8. slow' \in [Consumers -> [inc : [Consumers -> [Receivers -> Int]], total : Int]]
      /\ slow'["snapshot"] = slow["snapshot"]
      /\ slow'["pending"].inc["snapshot"] = slow["pending"].inc["snapshot"]
  BY <1>6, TwoConsumers, ZenonT(40) DEF WriteType
<1>. QED
  BY <1>4, <1>7, <1>8, TwoConsumers, NoneHeldType, Zenon DEF WriteType, LoopType

\* A total cut off at zero is an integer.
LEMMA CutType == ASSUME NEW d \in Int PROVE Max({0, d}) \in Int
BY MaxOfTwo

\* The settled consumer takes well-typed amounts off the pending ones.
LEMMA WriteSubtract ==
    ASSUME LoopType, LoopInv, SnapshotInv, WriteType, Undisturbed, Subtract("snapshot")
    PROVE  WriteType' /\ slow'["pending"] = slow["pending"]
           /\ slow'["snapshot"].inc["snapshot"] = slow["snapshot"].inc["snapshot"]
<1>0. pc["snapshot"] = "subtract"
  BY Zenon DEF Subtract
<1>1. PICK m \in Heights : m = hgt["snapshot"]
  BY <1>0, TwoConsumers, RewardAt, Zenon DEF Working
<1>2. PICK f \in [Parties -> Nat] : f = rows["pending"][m]
  BY TwoConsumers, SMTT(30) DEF WriteType
<1>3. PICK x \in Int : x = Amount(f)
  BY AmountType, SMTT(30)
<1>. DEFINE items == rows["pending"][hgt["snapshot"]]
            minus == [p \in Parties \cup {"all"} |-> IF p = "all" THEN Amount(items) ELSE items[p]]
<1>4. \/ /\ \E current \in {total, 0} : slow' = [slow EXCEPT !["snapshot"] =
                [inc |-> [slow["snapshot"].inc EXCEPT !["pending"] =
                            [p \in DOMAIN @ |-> @[p] - minus[p]]],
                 total |-> Max({0, current - Amount(items)})]]
         /\ pc' = [pc EXCEPT !["snapshot"] = "delete"]
      \/ UNCHANGED slow /\ pc' = [pc EXCEPT !["snapshot"] = "flush"]
  BY Zenon DEF Subtract
<1>. HIDE DEF minus
<1>5. UNCHANGED <<rows, paid, total, held>>
  BY Zenon DEF Subtract, redis
<1>6. PICK less \in [Receivers -> Int] : less = minus
  <2>1. minus \in [Receivers -> Int]
    BY <1>1, <1>2, <1>3, SMTT(30) DEF Receivers, minus
  <2>. QED
    BY <2>1, Zenon
<1>7. PICK w \in [inc : [Consumers -> [Receivers -> Int]], total : Int] : w = slow["snapshot"]
  BY TwoConsumers, Zenon DEF WriteType
<1>8. PICK old \in [Receivers -> Int] : old = w.inc["pending"]
  BY TwoConsumers
<1>9. PICK g \in [Receivers -> Int] : g = [p \in Receivers |-> old[p] - less[p]]
  <2>1. [p \in Receivers |-> old[p] - less[p]] \in [Receivers -> Int]
    BY SMTT(30)
  <2>. QED
    BY <2>1, Zenon
<1>10. /\ slow' \in [Consumers -> [inc : [Consumers -> [Receivers -> Int]], total : Int]]
       /\ slow'["pending"] = slow["pending"]
       /\ slow'["snapshot"].inc["snapshot"] = slow["snapshot"].inc["snapshot"]
  <2>1. CASE slow' = slow
    BY <2>1, Zenon DEF WriteType
  <2>2. ASSUME NEW current \in {total, 0},
               slow' = [slow EXCEPT !["snapshot"] =
                [inc |-> [slow["snapshot"].inc EXCEPT !["pending"] =
                            [p \in DOMAIN @ |-> @[p] - minus[p]]],
                 total |-> Max({0, current - Amount(items)})]]
        PROVE  <1>10!:
    <3>1. PICK d \in Int : d = current - Amount(items)
      BY <1>1, <1>2, <1>3, SMTT(30) DEF WriteType
    <3>0. Max({0, d}) \in Int
      BY CutType, Zenon
    <3>2. PICK t \in Int : t = Max({0, current - Amount(items)})
      BY <3>0, <3>1, Zenon
    <3>3. [p \in DOMAIN old |-> old[p] - minus[p]] = g
      BY <1>6, <1>9, Zenon
    <3>4. slow' = [slow EXCEPT !["snapshot"] =
             [inc |-> [w.inc EXCEPT !["pending"] = [p \in DOMAIN old |-> old[p] - minus[p]]],
              total |-> t]]
      BY <1>7, <1>8, <2>2, <3>2, Zenon
    <3>5. PICK v : v = [inc |-> [w.inc EXCEPT !["pending"] = g], total |-> t]
      BY Zenon
    <3>6. v \in [inc : [Consumers -> [Receivers -> Int]], total : Int]
          /\ v.inc["snapshot"] = w.inc["snapshot"]
      BY <3>5, TwoConsumers, Zenon
    <3>7. slow' = [slow EXCEPT !["snapshot"] = v]
      BY <3>3, <3>4, <3>5, Zenon
    <3>. QED
      BY <1>7, <3>6, <3>7, TwoConsumers, Zenon DEF WriteType
  <2>. QED
    BY <1>4, <2>1, <2>2, Zenon
<1>11. pc' \in {[pc EXCEPT !["snapshot"] = "delete"], [pc EXCEPT !["snapshot"] = "flush"]}
  BY <1>4, Zenon
<1>. QED
  BY <1>5, <1>10, <1>11, TwoConsumers, Zenon DEF WriteType, LoopType

\* The settled consumer deletes pending rows, and leaves the settled ones.
LEMMA WriteDelete ==
    ASSUME LoopType, LoopInv, SnapshotInv, WriteType, Undisturbed, DeletePending("snapshot")
    PROVE  WriteType' /\ rows'["snapshot"] = rows["snapshot"]
<1>0. pc["snapshot"] = "delete"
  BY Zenon DEF DeletePending
<1>1. PICK m \in Heights : m = hgt["snapshot"]
  BY <1>0, TwoConsumers, RewardAt, Zenon DEF Working
<1>2. PICK z \in [Parties -> Nat] : z = Zero(Parties)
  BY NoWritesType, Zenon
<1>3. /\ rows' = [rows EXCEPT !["pending"][m] = z] /\ pc' = [pc EXCEPT !["snapshot"] = "flush"]
      /\ UNCHANGED <<slow, paid, total, held>>
  BY <1>1, <1>2, Zenon DEF DeletePending, memory, redis
<1>4. rows' \in [Consumers -> [Heights -> [Parties -> Nat]]] /\ rows'["snapshot"] = rows["snapshot"]
  BY <1>3, TwoConsumers, Zenon DEF WriteType
<1>. QED
  BY <1>3, <1>4, TwoConsumers, Zenon DEF WriteType, LoopType

\* The flush adds what is staged to what is paid, and nothing stays staged.
LEMMA WriteFlush ==
    ASSUME LoopType, WriteType, Undisturbed, NEW c \in Consumers, Flush(c) \/ FlushFails(c)
    PROVE  /\ WriteType' /\ rows' = rows
           /\ \A p \in Receivers :
                paid'["snapshot"][p] = paid["snapshot"][p] + slow[c].inc["snapshot"][p]
           /\ slow' = [slow EXCEPT ![c] = NoWrites]
<1>1. /\ paid' = [k \in Consumers |-> [p \in DOMAIN paid[k] |-> paid[k][p] + slow[c].inc[k][p]]]
      /\ slow' = [slow EXCEPT ![c] = NoWrites]
      /\ total' \in {slow[c].total, total}
      /\ UNCHANGED <<rows, held>>
      /\ pc' \in {[pc EXCEPT ![c] = "clean"], [pc EXCEPT ![c] = "poll"]}
  BY FlushDoes, Zenon
<1>2. \A k \in Consumers : DOMAIN paid[k] = Receivers /\ \A p \in Receivers :
         paid[k][p] \in Int /\ slow[c].inc[k][p] \in Int
  BY SMTT(30) DEF WriteType
<1>3. paid' \in [Consumers -> [Receivers -> Int]]
      /\ \A p \in Receivers :
            paid'["snapshot"][p] = paid["snapshot"][p] + slow[c].inc["snapshot"][p]
  BY <1>1, <1>2, TwoConsumers, SMTT(30)
<1>4. PICK w \in [inc : [Consumers -> [Receivers -> Int]], total : Int] : w = NoWrites
  BY NoWritesType, Zenon
<1>5. slow' \in [Consumers -> [inc : [Consumers -> [Receivers -> Int]], total : Int]]
      /\ total' \in Int
  BY <1>1, <1>4, SMTT(30) DEF WriteType
<1>6. pc'["pending"] \notin {"subtract", "delete"} /\ pc'["snapshot"] # "upsert"
  BY <1>1, TwoConsumers, Zenon DEF WriteType, LoopType
<1>7. rows' \in [Consumers -> [Heights -> [Parties -> Nat]]] /\ held' \in Holdings
  BY <1>1, Zenon DEF WriteType
<1>8. WriteType'
  BY <1>3, <1>5, <1>6, <1>7, Zenon DEF WriteType
<1>. QED
  BY <1>1, <1>3, <1>8, Zenon

\* Every step keeps the writes well typed.
LEMMA WriteStep ==
    ASSUME LoopType, LoopInv, SnapshotInv, WriteType, Undisturbed, [Next]_vars
    PROVE  WriteType'
<1>1. CASE UNCHANGED vars
  BY <1>1, Zenon DEF WriteType, vars, memory, redis
<1>2. CASE Commit
  BY <1>2, Zenon DEF Commit, WriteType, memory, redis
<1>3. CASE Rollback
  <2>1. PICK z \in [Parties -> Nat] : z = Zero(Parties)
    BY NoWritesType, Zenon
  <2>2. UNCHANGED <<slow, paid, total, held, pc>>
    BY <1>3, Zenon DEF Rollback, memory, redis
  <2>3. PICK from : rows' = [rows EXCEPT !["snapshot"] =
                      [h \in Heights |-> IF h >= from THEN z ELSE @[h]]]
    BY <1>3, <2>1, Zenon DEF Rollback
  <2>4. rows' \in [Consumers -> [Heights -> [Parties -> Nat]]]
    BY <2>3, Zenon DEF WriteType
  <2>. QED
    BY <2>2, <2>4, Zenon DEF WriteType
<1>4. CASE Crash
  <2>1. PICK w \in [inc : [Consumers -> [Receivers -> Int]], total : Int] : w = NoWrites
    BY NoWritesType, Zenon
  <2>2. /\ UNCHANGED <<rows, paid, total>> /\ held' \in Holdings
        /\ slow' = [c \in Consumers |-> w] /\ pc' = [c \in Consumers |-> "off"]
    BY <1>4, <2>1, NoneHeldType, Zenon DEF Crash, redis
  <2>. QED
    BY <2>2, TwoConsumers, SMTT(30) DEF WriteType
<1>5. ASSUME NEW c \in Consumers,
             Step(c) \/ FlushFails(c) \/ Fail(c) \/ BalanceReadFails(c)
      PROVE  WriteType'
  <2>0. ~Fail(c) /\ ~BalanceReadFails(c)
    BY Zenon DEF Undisturbed, Fail, BalanceReadFails, Budget
  <2>1. CASE Start(c) \/ Poll(c) \/ NotCommitted(c) \/ LoadBindings(c) \/ StageDeltas(c)
             \/ Advance(c)
    <3>1. UNCHANGED <<rows, slow, paid, total, held>>
      BY <2>1, Zenon
         DEF Start, Poll, NotCommitted, LoadBindings, StageDeltas, ReadDeltas, Advance,
         memory, redis
    <3>2. \E s \in {"off", "poll", "load", "stage", "reward", "flush"} :
             pc' = [pc EXCEPT ![c] = s]
      BY <2>1, Zenon
         DEF Start, Poll, NotCommitted, LoadBindings, StageDeltas, ReadDeltas, Advance
    <3>. QED
      BY <3>1, <3>2, WriteQuiet, Zenon
  <2>2. CASE Allocate(c)
    BY <2>2, WriteAllocate, Zenon DEF Allocate
  <2>3. CASE Announce(c)
    BY <2>3, WriteAnnounce, Zenon DEF Announce
  <2>4. CASE Subtract(c) \/ DeletePending(c)
    <3>1. c = "snapshot"
      BY <2>4, TwoConsumers, Zenon DEF WriteType, Subtract, DeletePending
    <3>. QED
      BY <2>4, <3>1, WriteSubtract, WriteDelete, Zenon
  <2>5. CASE UpsertPending(c)
    <3>1. c = "pending"
      BY <2>5, TwoConsumers, Zenon DEF WriteType, UpsertPending
    <3>. QED
      BY <2>5, <3>1, WriteUpsert, Zenon
  <2>6. CASE Flush(c) \/ FlushFails(c)
    BY <2>6, WriteFlush, Zenon
  <2>. QED
    BY <1>5, <2>0, <2>1, <2>2, <2>3, <2>4, <2>5, <2>6, Zenon DEF Step
<1>. QED
  BY <1>1, <1>2, <1>3, <1>4, <1>5, Zenon DEF Next

\* Steps that leave the allocated rows and the cursor alone
LEMMA AllocatedQuiet ==
    ASSUME AllocatedInv, UNCHANGED <<chain, top>>, rows'["snapshot"] = rows["snapshot"],
           cursor'["snapshot"] = cursor["snapshot"],
           pc'["snapshot"] \in Settled =>
              pc["snapshot"] \in Settled /\ hgt'["snapshot"] = hgt["snapshot"]
    PROVE  AllocatedInv'
<1>1. PICK n, m : n = cursor["snapshot"] /\ m = hgt["snapshot"]
  BY Zenon
<1>2. \A h : Expected(h)' = Expected(h)
  BY ExpectedKept, Zenon
<1>3. \A h \in 1 .. n : (rows["snapshot"][h] = RowsOf(Expected(h)))'
  BY <1>1, <1>2, Zenon DEF AllocatedInv, RowsOf
<1>4. \A h \in Heights : h > n =>
         (\/ rows["snapshot"][h] = Zero(Parties)
          \/ h = n + 1 /\ h + Lag <= top /\ rows["snapshot"][h] = RowsOf(Expected(h)))'
  BY <1>1, <1>2, Zenon DEF AllocatedInv, RowsOf
<1>5. pc'["snapshot"] \in Settled =>
         hgt'["snapshot"] = m /\ (rows["snapshot"][m] = RowsOf(Expected(m)))'
  BY <1>1, <1>2, Zenon DEF AllocatedInv, RowsOf
<1>. QED
  BY <1>1, <1>3, <1>4, <1>5, Zenon DEF AllocatedInv

\* Allocating writes the rows of the height, and stages its rewards.
LEMMA AllocatedAllocate ==
    ASSUME LoopType, LoopInv, SnapshotInv, WriteType, AllocatedInv, CountInv, Undisturbed,
           Allocate("snapshot")
    PROVE  AllocatedInv' /\ CountInv'
<1>0. pc["snapshot"] = "reward" /\ pc["snapshot"] \in Working /\ pc["snapshot"] \notin Settled
  BY Zenon DEF Allocate, Working, Settled
<1>1. PICK n \in Nat, m \in Heights :
         n = cursor["snapshot"] /\ m = hgt["snapshot"] /\ m = n + 1 /\ m + Lag <= top
  BY <1>0, TwoConsumers, RewardAt, Depths, Zenon DEF Working, LoopType
<1>2. PICK e \in [Receivers -> Nat] :
         e = Expected(m) /\ e = Rewards(m, read["snapshot"].reward, mem["snapshot"])
  BY <1>0, <1>1, TwoConsumers, RewardAt, Zenon DEF Working
<1>3. /\ slow' = [slow EXCEPT !["snapshot"] = StagedRewards("snapshot", e)]
      /\ rows' = [rows EXCEPT !["snapshot"][m] = Upserted(@, e)]
      /\ pc' \in {[pc EXCEPT !["snapshot"] = "subtract"], [pc EXCEPT !["snapshot"] = "flush"]}
      /\ UNCHANGED <<chain, top, hgt, cursor, paid>>
  BY <1>1, <1>2, Zenon DEF Allocate, redis, loop
<1>4. pc'["snapshot"] \in Settled
  BY <1>3, TwoConsumers, Zenon DEF Settled, LoopType
<1>5. \A h : Expected(h)' = Expected(h)
  BY <1>3, ExpectedKept, Zenon
<1>6. PICK old : old = rows["snapshot"][m]
  BY SMTT(30)
<1>7. old = Zero(Parties) \/ old = RowsOf(e)
  BY <1>1, <1>2, <1>6, SMTT(30) DEF AllocatedInv
<1>8. Upserted(old, e) = RowsOf(e)
  BY <1>7, UpsertSame, Zenon
<1>9. rows'["snapshot"][m] = RowsOf(e) /\ \A h \in Heights \ {m} :
         rows'["snapshot"][h] = rows["snapshot"][h]
  BY <1>3, <1>6, <1>8, TwoConsumers, SMTT(30) DEF WriteType
<1>10. \A h \in 1 .. n : h \in Heights \ {m}
  BY <1>1, ConsumerAssumption, SMTT(30) DEF Heights
<1>11. AllocatedInv'
  <2>1. \A h \in 1 .. n : (rows["snapshot"][h] = RowsOf(Expected(h)))'
    <3>1. ASSUME NEW h \in 1 .. n PROVE (rows["snapshot"][h] = RowsOf(Expected(h)))'
      <4>1. rows["snapshot"][h] = RowsOf(Expected(h))
        BY <1>1, Zenon DEF AllocatedInv
      <4>. QED
        BY <1>5, <1>9, <1>10, <4>1, Zenon DEF RowsOf
    <3>. QED
      BY <3>1, Zenon
  <2>2. \A h \in Heights : h > n =>
           (\/ rows["snapshot"][h] = Zero(Parties)
            \/ h = n + 1 /\ h + Lag <= top /\ rows["snapshot"][h] = RowsOf(Expected(h)))'
    <3>1. ASSUME NEW h \in Heights, h > n, h # m
          PROVE  (\/ rows["snapshot"][h] = Zero(Parties)
                  \/ h = n + 1 /\ h + Lag <= top /\ rows["snapshot"][h] = RowsOf(Expected(h)))'
      <4>1. rows["snapshot"][h] = Zero(Parties) \/ h = n + 1
        BY <1>1, <3>1, Zenon DEF AllocatedInv
      <4>. QED
        BY <1>1, <1>9, <3>1, <4>1, Zenon
    <3>2. (m = n + 1 /\ m + Lag <= top /\ rows["snapshot"][m] = RowsOf(Expected(m)))'
      BY <1>1, <1>2, <1>3, <1>5, <1>9, Zenon DEF RowsOf
    <3>. QED
      BY <3>1, <3>2, Zenon
  <2>3. (rows["snapshot"][m] = RowsOf(Expected(m)))'
    BY <1>2, <1>5, <1>9, Zenon DEF RowsOf
  <2>. QED
    BY <1>1, <1>3, <2>1, <2>2, <2>3, ZenonT(40) DEF AllocatedInv
<1>12. CountInv'
  <2>1. slow["snapshot"].inc["snapshot"] = Zero(Receivers)
    BY <1>0, Zenon DEF CountInv
  <2>2. PICK w \in [inc : [Consumers -> [Receivers -> Int]], total : Int] : w = slow["snapshot"]
    BY TwoConsumers, Zenon DEF WriteType
  <2>3. StagedRewards("snapshot", e) =
          [w EXCEPT !.inc["snapshot"] = [p \in DOMAIN w.inc["snapshot"] |->
                                           w.inc["snapshot"][p] + e[p]]]
    BY <2>2, SMTT(30) DEF StagedRewards
  <2>4. [p \in DOMAIN w.inc["snapshot"] |-> w.inc["snapshot"][p] + e[p]] = e
    BY <2>1, <2>2, SMTT(30) DEF Zero
  <2>5. slow' = [slow EXCEPT !["snapshot"] = [w EXCEPT !.inc["snapshot"] = e]]
    BY <1>3, <2>3, <2>4, Zenon
  <2>6. slow'["pending"] = slow["pending"] /\ slow'["snapshot"].inc["snapshot"] = e
    BY <2>5, TwoConsumers, SMTT(30) DEF WriteType
  <2>7. slow'["pending"].inc["snapshot"] = Zero(Receivers)
    BY <2>6, Zenon DEF CountInv
  <2>8. (slow["snapshot"].inc["snapshot"] = Expected(hgt["snapshot"]))'
    BY <1>1, <1>2, <1>3, <1>5, <2>6, Zenon
  <2>9. CountedOnce'
    <3>1. ASSUME NEW p \in Parties
          PROVE  paid'["snapshot"][p] =
                   SumFunction([h \in 1 .. cursor'["snapshot"] |-> rows'["snapshot"][h][p]])
      <4>1. [h \in 1 .. n |-> rows'["snapshot"][h][p]] = [h \in 1 .. n |-> rows["snapshot"][h][p]]
        BY <1>9, <1>10, Zenon
      <4>2. paid["snapshot"][p] = SumFunction([h \in 1 .. n |-> rows["snapshot"][h][p]])
        BY <1>1, Zenon DEF CountInv, CountedOnce
      <4>. QED
        BY <1>1, <1>3, <4>1, <4>2, ZenonT(40)
    <3>. QED
      BY <3>1, Zenon DEF CountedOnce
  <2>. QED
    BY <1>4, <2>7, <2>8, <2>9, Zenon DEF CountInv
<1>. QED
  BY <1>11, <1>12, SMTT(30)

\* The sum of the first heights and the next one
LEMMA SumNext ==
    ASSUME NEW n \in Nat, NEW f, \A h \in 1 .. n + 1 : f[h] \in Int
    PROVE  SumFunction([h \in 1 .. n + 1 |-> f[h]]) = SumFunction([h \in 1 .. n |-> f[h]]) + f[n + 1]
<1>1. PICK S : S = 1 .. n
  BY SMTT(30)
<1>2. 1 .. n + 1 = S \cup {n + 1} /\ n + 1 \notin S
  BY <1>1, SMTT(30)
<1>3. IsFiniteSet(S)
  <2>1. 1 \in Int /\ n \in Int
    OBVIOUS
  <2>. QED
    BY <1>1, <2>1, FS_Interval, Zenon
<1>4. PICK g : g = [h \in 1 .. n + 1 |-> f[h]]
  BY Zenon
<1>5. PICK k : k = [h \in S |-> f[h]]
  BY Zenon
<1>6. \A y \in S \cup {n + 1} : g[y] \in Int
  BY <1>2, <1>4, Zenon
<1>7. SumFunctionOnSet(g, S \cup {n + 1}) = g[n + 1] + SumFunctionOnSet(g, S)
  BY <1>2, <1>3, <1>6, SumAdd, Zenon
<1>8. \A y \in S : g[y] = k[y] /\ g[y] \in Int /\ k[y] \in Int
  BY <1>2, <1>4, <1>5, <1>6, Zenon
<1>9. SumFunctionOnSet(g, S) = SumFunctionOnSet(k, S)
  BY <1>3, <1>8, SumEq, Zenon
<1>10. DOMAIN g = S \cup {n + 1} /\ DOMAIN k = S /\ g[n + 1] = f[n + 1] /\ f[n + 1] \in Int
  BY <1>2, <1>4, <1>5, Zenon
<1>11. SumFunctionOnSet(k, S) \in Int
  BY <1>3, <1>8, SumInt, Zenon
<1>12. SumFunction(g) = SumFunctionOnSet(g, S \cup {n + 1}) /\ SumFunction(k) = SumFunctionOnSet(k, S)
  BY <1>10, Zenon DEF SumFunction
<1>13. SumFunction(g) = SumFunction(k) + f[n + 1]
  BY <1>7, <1>9, <1>10, <1>11, <1>12, SMTT(30)
<1>14. k = [h \in 1 .. n |-> f[h]]
  BY <1>1, <1>5, Zenon
<1>. QED
  BY <1>4, <1>13, <1>14, Zenon

\* The flush of a height: its rows and its staged rewards are settled.
LEMMA AllocatedFlush ==
    ASSUME LoopType, LoopInv, SnapshotInv, WriteType, AllocatedInv, CountInv, Undisturbed,
           Flush("snapshot") \/ FlushFails("snapshot")
    PROVE  AllocatedInv' /\ CountInv'
<1>0. pc["snapshot"] = "flush" /\ pc["snapshot"] \in Working /\ pc["snapshot"] \in Settled
  BY Zenon DEF Flush, FlushFails, Working, Settled
<1>1. PICK n \in Nat, m \in Heights :
         n = cursor["snapshot"] /\ m = hgt["snapshot"] /\ m = n + 1 /\ m + Lag <= top
  BY <1>0, TwoConsumers, RewardAt, Depths, Zenon DEF Working, LoopType
<1>2. PICK e \in [Receivers -> Nat] : e = Expected(m)
  BY <1>0, <1>1, TwoConsumers, RewardAt, Zenon DEF Working
<1>3. /\ UNCHANGED <<chain, top, hgt>> /\ cursor'["snapshot"] = m
      /\ pc'["snapshot"] \in {"clean", "poll"}
  <2>1. /\ pc' \in {[pc EXCEPT !["snapshot"] = "clean"], [pc EXCEPT !["snapshot"] = "poll"]}
        /\ UNCHANGED <<chain, top, hgt>>
        /\ cursor' = [cursor EXCEPT !["snapshot"] = hgt["snapshot"]]
    BY TwoConsumers, FlushDoes, Zenon
  <2>. QED
    BY <1>1, <2>1, TwoConsumers, Zenon DEF LoopType
<1>4. pc'["snapshot"] \notin Settled
  BY <1>3, SMTT(30) DEF Settled
<1>5. \A h : Expected(h)' = Expected(h)
  BY <1>3, ExpectedKept, Zenon
<1>6. /\ rows' = rows /\ slow' = [slow EXCEPT !["snapshot"] = NoWrites]
      /\ \A p \in Receivers : paid'["snapshot"][p] =
                                paid["snapshot"][p] + slow["snapshot"].inc["snapshot"][p]
  BY WriteFlush, TwoConsumers, Zenon
<1>7. rows["snapshot"][m] = RowsOf(e) /\ slow["snapshot"].inc["snapshot"] = e
  BY <1>0, <1>1, <1>2, Zenon DEF AllocatedInv, CountInv
<1>8. AllocatedInv'
  <2>1. ASSUME NEW h \in 1 .. m PROVE (rows["snapshot"][h] = RowsOf(Expected(h)))'
    <3>1. h \in 1 .. n \/ h = m
      BY <1>1, SMTT(30)
    <3>. QED
      BY <1>1, <1>2, <1>5, <1>6, <1>7, <3>1, SMTT(30) DEF AllocatedInv, RowsOf
  <2>2. \A h \in Heights : h > m => rows'["snapshot"][h] = Zero(Parties)
    <3>1. \A h \in Heights : h > m => h > n /\ h # n + 1
      BY <1>1, SMTT(30) DEF Heights
    <3>. QED
      BY <1>1, <1>6, <3>1, Zenon DEF AllocatedInv
  <2>. QED
    BY <1>3, <1>4, <2>1, <2>2, Zenon DEF AllocatedInv
<1>9. CountInv'
  <2>1. slow'["pending"] = slow["pending"] /\ slow'["snapshot"] = NoWrites
    BY <1>6, TwoConsumers, Zenon DEF WriteType
  <2>2. slow'["pending"].inc["snapshot"] = Zero(Receivers)
        /\ slow'["snapshot"].inc["snapshot"] = Zero(Receivers)
    BY <2>1, NoWritesType, Zenon DEF CountInv
  <2>3. ASSUME NEW p \in Parties
        PROVE  paid'["snapshot"][p] =
                 SumFunction([h \in 1 .. m |-> rows["snapshot"][h][p]])
    <3>1. PICK f \in [Heights -> Nat] : f = [h \in Heights |-> rows["snapshot"][h][p]]
      <4>1. [h \in Heights |-> rows["snapshot"][h][p]] \in [Heights -> Nat]
        BY TwoConsumers, SMTT(30) DEF WriteType
      <4>. QED
        BY <4>1, Zenon
    <3>2. \A h \in 1 .. n + 1 : h \in Heights
      BY <1>1, ConsumerAssumption, SMTT(30) DEF Heights
    <3>3. \A h \in 1 .. n + 1 : f[h] \in Int
      BY <3>2, SMTT(30)
    <3>4. SumFunction([h \in 1 .. n + 1 |-> f[h]])
            = SumFunction([h \in 1 .. n |-> f[h]]) + f[n + 1]
      BY <3>3, SumNext, ZenonT(40)
    <3>5. [h \in 1 .. n + 1 |-> rows["snapshot"][h][p]] = [h \in 1 .. n + 1 |-> f[h]]
          /\ [h \in 1 .. n |-> rows["snapshot"][h][p]] = [h \in 1 .. n |-> f[h]]
      BY <3>1, <3>2, SMTT(30)
    <3>6. paid["snapshot"][p] = SumFunction([h \in 1 .. n |-> rows["snapshot"][h][p]])
      BY <1>1, ZenonT(40) DEF CountInv, CountedOnce
    <3>7. f[n + 1] = e[p]
      BY <1>1, <1>7, <3>1, SMTT(30) DEF RowsOf
    <3>8. paid'["snapshot"][p] = paid["snapshot"][p] + e[p]
      BY <1>6, <1>7, Zenon DEF Receivers
    <3>. QED
      BY <1>1, <3>4, <3>5, <3>6, <3>7, <3>8, Zenon
  <2>4. CountedOnce'
    BY <1>3, <1>6, <2>3, Zenon DEF CountedOnce
  <2>. QED
    BY <1>4, <2>2, <2>4, ZenonT(40) DEF CountInv
<1>. QED
  BY <1>8, <1>9, SMTT(30)

\* Steps that stage nothing for the snapshot consumer and pay nothing
LEMMA CountQuiet ==
    ASSUME LoopType, WriteType, CountInv, chain' = chain,
           rows'["snapshot"] = rows["snapshot"], cursor'["snapshot"] = cursor["snapshot"],
           slow'["pending"].inc["snapshot"] = slow["pending"].inc["snapshot"],
           slow'["snapshot"].inc["snapshot"] = slow["snapshot"].inc["snapshot"],
           \A p \in Parties : paid'["snapshot"][p] = paid["snapshot"][p],
           pc'["snapshot"] \in Settled <=> pc["snapshot"] \in Settled,
           pc["snapshot"] \in Settled => hgt'["snapshot"] = hgt["snapshot"]
    PROVE  CountInv'
<1>1. CountedOnce'
  BY Zenon DEF CountInv, CountedOnce
<1>2. PICK m : m = hgt["snapshot"]
  BY Zenon
<1>3. Expected(m)' = Expected(m)
  BY ExpectedKept, Zenon
<1>4. pc'["snapshot"] \in Settled =>
         (slow["snapshot"].inc["snapshot"] = Expected(hgt["snapshot"]))'
  BY <1>2, <1>3, Zenon DEF CountInv
<1>5. pc'["snapshot"] \notin Settled => slow'["snapshot"].inc["snapshot"] = Zero(Receivers)
  BY Zenon DEF CountInv
<1>. QED
  BY <1>1, <1>4, <1>5, Zenon DEF CountInv

\* What the fast path does to the count: nothing up to the cursor changes.
LEMMA CountChain ==
    ASSUME LoopType, LoopInv, TopInv, WriteType, CountInv, Undisturbed, Buried,
           Commit \/ Rollback
    PROVE  CountInv'
<1>1. UNCHANGED <<pc, hgt, cursor, slow, paid>> /\ top \in Nat
  BY Zenon DEF Commit, Rollback, memory, loop, redis, LoopType
<1>2. PICK n \in Nat, m \in Nat : n = cursor["snapshot"] /\ m = hgt["snapshot"]
  BY TwoConsumers DEF LoopType
<1>3. \A h \in 1 .. n : h \in Nat /\ h >= 1 /\ h + Lag <= top
  BY <1>1, <1>2, Depths, ConsumerAssumption, SMTT(30)
<1>4. \A h \in 1 .. n : rows'["snapshot"][h] = rows["snapshot"][h]
  BY <1>3, DeepRewards, Zenon
<1>5. CountedOnce'
  <2>1. ASSUME NEW p \in Parties
        PROVE  paid["snapshot"][p] = SumFunction([h \in 1 .. n |-> rows'["snapshot"][h][p]])
    <3>1. [h \in 1 .. n |-> rows'["snapshot"][h][p]] = [h \in 1 .. n |-> rows["snapshot"][h][p]]
      BY <1>4, Zenon
    <3>2. paid["snapshot"][p] = SumFunction([h \in 1 .. n |-> rows["snapshot"][h][p]])
      BY <1>2, Zenon DEF CountInv, CountedOnce
    <3>. QED
      BY <3>1, <3>2, Zenon
  <2>. QED
    BY <1>1, <1>2, <2>1, Zenon DEF CountedOnce
<1>6. pc["snapshot"] \in Settled => Expected(m)' = Expected(m)
  <2>1. pc["snapshot"] \in Settled => m >= 1 /\ m + Lag <= top
    BY <1>2, Depths DEF Settled, Working
  <2>. QED
    BY <2>1, DeepRewards, Zenon
<1>7. pc'["snapshot"] \in Settled =>
         (slow["snapshot"].inc["snapshot"] = Expected(hgt["snapshot"]))'
  BY <1>1, <1>2, <1>6, Zenon DEF CountInv
<1>8. pc'["snapshot"] \notin Settled => slow'["snapshot"].inc["snapshot"] = Zero(Receivers)
  BY <1>1, Zenon DEF CountInv
<1>9. slow'["pending"].inc["snapshot"] = Zero(Receivers)
  BY <1>1, Zenon DEF CountInv
<1>. QED
  BY <1>5, <1>7, <1>8, <1>9, Zenon DEF CountInv

\* The other steps of the snapshot consumer, and those of the pending one,
\* neither write allocated rows nor stage or pay allocated rewards.
LEMMA SnapshotCalm ==
    ASSUME LoopType, LoopInv, SnapshotInv, WriteType, AllocatedInv, CountInv, Undisturbed,
           \/ Start("snapshot") \/ Poll("snapshot") \/ NotCommitted("snapshot")
           \/ LoadBindings("snapshot") \/ StageDeltas("snapshot") \/ Subtract("snapshot")
           \/ DeletePending("snapshot") \/ Advance("snapshot")
    PROVE  AllocatedInv' /\ CountInv'
<1>1. UNCHANGED <<chain, top, cursor, paid>>
  BY ZenonT(40) DEF Start, Poll, NotCommitted, LoadBindings, StageDeltas, ReadDeltas, Subtract,
     DeletePending, Advance, redis
<1>2. rows'["snapshot"] = rows["snapshot"]
  BY WriteDelete, Zenon DEF Start, Poll, NotCommitted, LoadBindings, StageDeltas, ReadDeltas,
     Subtract, Advance
<1>3. /\ slow'["pending"].inc["snapshot"] = slow["pending"].inc["snapshot"]
      /\ slow'["snapshot"].inc["snapshot"] = slow["snapshot"].inc["snapshot"]
  BY WriteSubtract, Zenon
     DEF Start, Poll, NotCommitted, LoadBindings, StageDeltas, ReadDeltas,
     DeletePending, Advance, memory
<1>4. /\ pc'["snapshot"] \in Settled <=> pc["snapshot"] \in Settled
      /\ pc["snapshot"] \in Settled => hgt'["snapshot"] = hgt["snapshot"]
  <2>1. CASE Subtract("snapshot") \/ DeletePending("snapshot")
    BY <2>1, TwoConsumers, Zenon DEF Subtract, DeletePending, loop, LoopType, Settled
  <2>2. CASE \/ Start("snapshot") \/ Poll("snapshot") \/ NotCommitted("snapshot")
             \/ LoadBindings("snapshot") \/ StageDeltas("snapshot") \/ Advance("snapshot")
    BY <2>2, TwoConsumers, Zenon
       DEF Start, Poll, NotCommitted, LoadBindings, StageDeltas, ReadDeltas,
       Advance, LoopType, Settled
  <2>. QED
    BY <2>1, <2>2, Zenon
<1>. QED
  BY <1>1, <1>2, <1>3, <1>4, AllocatedQuiet, CountQuiet, Zenon

\* No step of the pending consumer disturbs what is settled.
LEMMA PendingCalm ==
    ASSUME LoopType, LoopInv, SnapshotInv, WriteType, AllocatedInv, CountInv, Undisturbed,
           Step("pending") \/ FlushFails("pending")
    PROVE  AllocatedInv' /\ CountInv'
<1>1. /\ UNCHANGED <<chain, top>> /\ cursor'["snapshot"] = cursor["snapshot"]
      /\ pc'["snapshot"] = pc["snapshot"] /\ hgt'["snapshot"] = hgt["snapshot"]
  BY StepLoop, OtherLoop, TwoConsumers, Zenon
<1>2. CASE Flush("pending") \/ FlushFails("pending")
  <2>1. /\ rows' = rows /\ slow' = [slow EXCEPT !["pending"] = NoWrites]
        /\ \A p \in Receivers : paid'["snapshot"][p] =
                                  paid["snapshot"][p] + slow["pending"].inc["snapshot"][p]
    BY <1>2, WriteFlush, TwoConsumers, Zenon
  <2>2. slow["pending"].inc["snapshot"] = Zero(Receivers)
    BY Zenon DEF CountInv
  <2>3. \A p \in Parties : p \in Receivers /\ paid["snapshot"][p] \in Int
    BY TwoConsumers, SMTT(30) DEF WriteType, Receivers
  <2>4. \A p \in Parties : paid'["snapshot"][p] = paid["snapshot"][p]
    BY <2>1, <2>2, <2>3, SMTT(30) DEF Zero
  <2>5. slow'["snapshot"] = slow["snapshot"] /\ slow'["pending"].inc["snapshot"] = Zero(Receivers)
    BY <2>1, NoWritesType, TwoConsumers, Zenon DEF WriteType
  <2>. QED
    BY <1>1, <2>1, <2>2, <2>4, <2>5, AllocatedQuiet, CountQuiet, Zenon
<1>3. CASE ~(Flush("pending") \/ FlushFails("pending"))
  <2>1. paid' = paid
    BY <1>3, ZenonT(40)
       DEF Step, Start, Poll, NotCommitted, LoadBindings, StageDeltas, ReadDeltas, Allocate,
       Subtract, DeletePending, Announce, UpsertPending, Advance, redis
  <2>2. ~Subtract("pending") /\ ~DeletePending("pending") /\ ~Allocate("pending")
    BY TwoConsumers, ZenonT(40) DEF WriteType, Subtract, DeletePending, Allocate
  <2>3. rows'["snapshot"] = rows["snapshot"] /\ slow'["snapshot"] = slow["snapshot"]
        /\ slow'["pending"].inc["snapshot"] = slow["pending"].inc["snapshot"]
    <3>1. CASE Announce("pending") \/ UpsertPending("pending")
      BY <3>1, WriteAnnounce, WriteUpsert, Zenon
    <3>2. CASE \/ Start("pending") \/ Poll("pending") \/ NotCommitted("pending")
               \/ LoadBindings("pending") \/ StageDeltas("pending") \/ Advance("pending")
      BY <3>2, Zenon
         DEF Start, Poll, NotCommitted, LoadBindings, StageDeltas, ReadDeltas, Advance,
         memory
    <3>. QED
      BY <1>3, <2>2, <3>1, <3>2, ZenonT(40) DEF Step
  <2>. QED
    BY <1>1, <2>1, <2>3, AllocatedQuiet, CountQuiet, Zenon
<1>. QED
  BY <1>2, <1>3, Zenon

\* Every step leaves what is allocated and counted what the blocks define.
LEMMA AllocatedStep ==
    ASSUME LoopType, LoopInv, SnapshotInv, WriteType, AllocatedInv, CountInv, Undisturbed,
           Buried, [Next]_vars
    PROVE  AllocatedInv' /\ CountInv'
<1>1. CASE UNCHANGED vars
  <2>1. UNCHANGED <<chain, top, rows, cursor, pc, hgt, slow, paid>>
    BY <1>1, Zenon DEF vars, loop, memory, redis
  <2>. QED
    BY <2>1, AllocatedQuiet, CountQuiet, Zenon
<1>2. CASE Commit \/ Rollback
  BY <1>2, AllocatedChain, CountChain, Zenon DEF SnapshotInv
<1>3. CASE Crash
  <2>1. /\ UNCHANGED <<chain, top, rows, cursor, paid>> /\ pc'["snapshot"] \notin Settled
        /\ slow'["pending"] = NoWrites /\ slow'["snapshot"] = NoWrites
    BY <1>3, TwoConsumers, Zenon DEF Crash, redis, Settled
  <2>2. CountedOnce'
    BY <2>1, Zenon DEF CountInv, CountedOnce
  <2>3. CountInv'
    BY <2>1, <2>2, NoWritesType, Zenon DEF CountInv
  <2>. QED
    BY <2>1, <2>3, AllocatedQuiet, Zenon
<1>4. ASSUME NEW c \in Consumers,
             Step(c) \/ FlushFails(c) \/ Fail(c) \/ BalanceReadFails(c)
      PROVE  AllocatedInv' /\ CountInv'
  <2>1. ~Fail(c) /\ ~BalanceReadFails(c)
    BY Zenon DEF Undisturbed, Fail, BalanceReadFails, Budget
  <2>2. CASE c = "pending"
    BY <1>4, <2>1, <2>2, PendingCalm, Zenon
  <2>3. CASE c = "snapshot"
    <3>1. ~Announce("snapshot") /\ ~UpsertPending("snapshot")
      BY TwoConsumers, Zenon DEF WriteType, Announce, UpsertPending
    <3>. QED
      BY <1>4, <2>1, <2>3, <3>1, SnapshotCalm, AllocatedAllocate, AllocatedFlush, Zenon
         DEF Step
  <2>. QED
    BY <2>2, <2>3, TwoConsumers, Zenon
<1>. QED
  BY <1>1, <1>2, <1>3, <1>4, Zenon DEF Next

\* What is allocated and counted is inductive, together with the snapshots.
THEOREM AllocatedInvariant ==
    ASSUME Undisturbed, Buried
    PROVE  Spec => [](/\ LoopType /\ LoopInv /\ SnapshotInv /\ WriteType
                      /\ AllocatedInv /\ CountInv)
<1>1. Init => WriteType /\ AllocatedInv /\ CountInv
  <2>. SUFFICES ASSUME Init PROVE WriteType /\ AllocatedInv /\ CountInv
    BY SMTT(30)
  <2>1. PICK w \in [inc : [Consumers -> [Receivers -> Int]], total : Int] :
           w = NoWrites /\ w.inc["snapshot"] = Zero(Receivers)
    BY NoWritesType, Zenon
  <2>2. PICK z \in [Parties -> Nat] : z = Zero(Parties)
    BY NoWritesType, Zenon
  <2>3. /\ rows = [c \in Consumers |-> [h \in Heights |-> z]]
        /\ slow = [c \in Consumers |-> w]
        /\ paid = [c \in Consumers |-> Zero(Receivers)]
        /\ total = 0 /\ held \in Holdings /\ cursor["snapshot"] = 0
        /\ pc = [c \in Consumers |-> "off"]
    BY <2>1, <2>2, NoneHeldType, TwoConsumers, ZenonT(40) DEF Init, NoRows, Receivers, Zero
  <2>4. Zero(Receivers) \in [Receivers -> Int]
    BY SMTT(30) DEF Zero
  <2>5. WriteType
    BY <2>3, <2>4, TwoConsumers, SMTT(30) DEF WriteType
  <2>6. AllocatedInv
    BY <2>2, <2>3, TwoConsumers, SMTT(30) DEF AllocatedInv, Settled
  <2>7. CountedOnce
    <3>1. ASSUME NEW p \in Parties
          PROVE  paid["snapshot"][p] = SumFunction([h \in 1 .. 0 |-> rows["snapshot"][h][p]])
      <4>1. PICK f : f = [h \in 1 .. 0 |-> rows["snapshot"][h][p]]
        BY Zenon
      <4>2. DOMAIN f = {}
        BY <4>1, SMTT(30)
      <4>3. SumFunction(f) = 0
        BY <4>2, SumEmpty, Zenon DEF SumFunction
      <4>. QED
        BY <2>3, <4>1, <4>3, TwoConsumers, Zenon DEF Zero, Receivers
    <3>. QED
      BY <2>3, <3>1, Zenon DEF CountedOnce
  <2>8. CountInv
    BY <2>1, <2>3, <2>7, TwoConsumers, Zenon DEF CountInv, Settled
  <2>. QED
    BY <2>5, <2>6, <2>8, SMTT(30)
<1>2. LoopType /\ LoopInv /\ SnapshotInv /\ WriteType /\ AllocatedInv /\ CountInv
      /\ [Next]_vars => WriteType' /\ AllocatedInv' /\ CountInv'
  BY WriteStep, AllocatedStep, Zenon
<1>. QED
  BY <1>1, <1>2, SnapshotInvariant, PTL DEF Spec

\* The allocated rows of every consumed height are those the committed blocks
\* define, whatever crashed, was rolled back or was answered too late, when
\* slow_lag_blocks also covers the proof window and the deepest reorganisation
\* (Buried): then the proofs that count are final before they are paid.
THEOREM RowsAreReplay == ASSUME Undisturbed, Buried PROVE Spec => []AllocationIsReplay
<1>1. ASSUME AllocatedInv PROVE AllocationIsReplay
  <2>1. ASSUME NEW h \in 1 .. cursor["snapshot"] PROVE AsExpected("snapshot", h)
    <3>1. rows["snapshot"][h] = RowsOf(Expected(h))
      BY <1>1, Zenon DEF AllocatedInv
    <3>. QED
      BY <3>1, RowsExpected, Zenon
  <2>. QED
    BY <2>1, SMTT(30) DEF AllocationIsReplay
<1>. QED
  BY <1>1, AllocatedInvariant, PTL

\* A party's total in Redis is the sum of its allocated rows up to the cursor,
\* under the same conditions: the increments and the cursor are one flush.
THEOREM RewardsCountedOnce == ASSUME Undisturbed, Buried PROVE Spec => []CountedOnce
<1>1. CountInv => CountedOnce
  BY Zenon DEF CountInv
<1>. QED
  BY <1>1, AllocatedInvariant, PTL
-------------------------------------------------------------------------------
(***************************************************************************)
(* What is announced: until the first reorganisation, a height the pending *)
(* consumer is done with has the rows the blocks define, announced or      *)
(* allocated; the height it is at has them or none.                        *)
(***************************************************************************)
Announced(h) ==
    rows["pending"][h] = RowsOf(Expected(h)) \/ rows["snapshot"][h] = RowsOf(Expected(h))

Announces ==
    /\ Len(chain) = top
    /\ \A h \in 1 .. cursor["pending"] : h >= Cfg.stage2Start => Announced(h)
    /\ \A h \in Heights : h > cursor["pending"] =>
         \/ rows["pending"][h] = Zero(Parties)
         \/ /\ h = cursor["pending"] + 1 /\ h + Window(h) <= top
            /\ rows["pending"][h] = RowsOf(Expected(h))
    /\ pc["pending"] = "flush" /\ hgt["pending"] >= Cfg.stage2Start =>
         Announced(hgt["pending"])

\* Between the deletion and the upsert the amounts of the height are in memory.
HeldIsDue == pc["pending"] = "upsert" => held.amounts = Expected(hgt["pending"])

AnnouncedInv == faults.reorg \in BOOLEAN /\ (~faults.reorg => Announces /\ HeldIsDue)

\* The heights the pending consumer is done with, and the one it is at
LEMMA PendingHeights ==
    ASSUME LoopType, LoopInv
    PROVE  /\ \A h \in 1 .. cursor["pending"] : h \in Heights
           /\ pc["pending"] \in Working => hgt["pending"] \in Heights
<1>1. \A h \in Nat : h >= 1 /\ h + Window(h) <= top => h \in Heights
  <2>1. \A h \in Nat : Window(h) \in Nat
    BY WindowType, Zenon
  <2>. QED
    BY <2>1, ConsumerAssumption, SMTT(30) DEF LoopType, Heights
<1>2. \A h \in 1 .. cursor["pending"] : h \in Nat /\ h >= 1
  BY TwoConsumers, SMTT(30) DEF LoopType
<1>3. hgt["pending"] \in Nat
  BY TwoConsumers, Zenon DEF LoopType
<1>. QED
  BY <1>1, <1>2, <1>3, Depths, Zenon

\* A commit leaves every window that has passed as it is.
LEMMA CommitKeeps ==
    ASSUME LoopType, Len(chain) = top, Commit, NEW h \in Nat, h >= 1, h + Window(h) <= top
    PROVE  Expected(h)' = Expected(h)
<1>1. PICK b : chain' = Append(chain, b)
  BY Zenon DEF Commit
<1>2. /\ Len(chain) \in Nat /\ Len(chain') = Len(chain) + 1
      /\ \A k \in 1 .. Len(chain) : chain'[k] = chain[k]
  BY <1>1, SMTT(30) DEF LoopType
<1>3. PICK w \in Nat : w = Window(h)
  BY WindowType, SMTT(30)
<1>4. SameUpTo(h + w)
  BY <1>2, <1>3, SMTT(30) DEF SameUpTo
<1>. QED
  BY <1>2, <1>3, <1>4, ExpectedSame, SMTT(30)

\* What is announced stays so when a block is committed.
LEMMA AnnouncesCommit ==
    ASSUME LoopType, LoopInv, WriteType, Announces, Commit
    PROVE  Announces'
<1>0. PICK n \in Nat, m \in Nat : n = cursor["pending"] /\ m = hgt["pending"]
  BY TwoConsumers, Zenon DEF LoopType
<1>1. UNCHANGED <<pc, hgt, cursor, rows>>
  BY Zenon DEF Commit, loop, redis
<1>2. PICK b : chain' = Append(chain, b)
  BY Zenon DEF Commit
<1>3. /\ Len(chain) \in Nat /\ Len(chain') = Len(chain) + 1
      /\ \A k \in 1 .. Len(chain) : chain'[k] = chain[k]
  BY <1>2, SMTT(30) DEF LoopType
<1>4. top = Len(chain) /\ top' = top + 1
  <2>1. top' = IF Len(chain) + 1 > top THEN Len(chain) + 1 ELSE top
    BY Zenon DEF Commit, indexed
  <2>2. top = Len(chain)
    BY Zenon DEF Announces
  <2>. QED
    BY <1>3, <2>1, <2>2
<1>5. ASSUME NEW h \in Nat, h >= 1, h + Window(h) <= top PROVE Expected(h)' = Expected(h)
  BY <1>4, <1>5, CommitKeeps, Zenon
<1>6. ASSUME NEW h \in Nat, h >= 1, h + Window(h) <= top, Announced(h) PROVE Announced(h)'
  BY <1>1, <1>5, <1>6, Zenon DEF Announced, RowsOf
<1>7. \A h \in 1 .. n : h >= Cfg.stage2Start => Announced(h)'
  <2>1. \A h \in 1 .. n : h \in Nat /\ h >= 1 /\ h + Window(h) <= top
    BY <1>0, Depths, SMTT(30)
  <2>. QED
    BY <1>0, <1>6, <2>1, Zenon DEF Announces
<1>8. ASSUME NEW h \in Heights, h > n
      PROVE  (\/ rows["pending"][h] = Zero(Parties)
              \/ h = n + 1 /\ h + Window(h) <= top /\ rows["pending"][h] = RowsOf(Expected(h)))'
  <2>1. CASE rows["pending"][h] = Zero(Parties)
    BY <1>1, <2>1, Zenon
  <2>2. CASE h = n + 1 /\ h + Window(h) <= top /\ rows["pending"][h] = RowsOf(Expected(h))
    <3>1. PICK w \in Nat : w = Window(h) /\ w = Window(h)'
      BY <2>2, WindowType, SMTT(30) DEF Window
    <3>2. h + w <= top'
      BY <1>3, <1>4, <2>2, <3>1, SMTT(30)
    <3>. QED
      BY <1>1, <1>5, <2>2, <3>1, <3>2, SMTT(30) DEF RowsOf
  <2>. QED
    BY <1>0, <1>8, <2>1, <2>2, ZenonT(40) DEF Announces
<1>9. pc["pending"] = "flush" /\ m >= Cfg.stage2Start => Announced(m)'
  BY <1>0, <1>6, Depths, Zenon DEF Announces, Working
<1>10. Len(chain') = top'
  BY <1>3, <1>4, Zenon
<1>. QED
  BY <1>0, <1>1, <1>7, <1>8, <1>9, <1>10, Zenon DEF Announces

\* Steps that leave the announced rows and the pending cursor alone, and keep
\* the allocated rows that are as the blocks define them
LEMMA AnnouncesQuiet ==
    ASSUME Announces, UNCHANGED <<chain, top>>,
           \A h \in Heights : rows'["pending"][h] = rows["pending"][h],
           \A h \in Heights :
              rows'["snapshot"][h] = rows["snapshot"][h]
              \/ rows'["snapshot"][h] = RowsOf(Expected(h)),
           LoopType, LoopInv,
           cursor'["pending"] = cursor["pending"],
           pc'["pending"] = "flush" /\ hgt'["pending"] >= Cfg.stage2Start =>
              pc["pending"] = "flush" /\ hgt'["pending"] = hgt["pending"]
    PROVE  Announces'
<1>1. PICK n \in Nat, m \in Nat : n = cursor["pending"] /\ m = hgt["pending"]
  BY TwoConsumers, Zenon DEF LoopType
<1>2. \A h : Expected(h)' = Expected(h)
  BY ExpectedKept, Zenon
<1>3. ASSUME NEW h \in Heights, Announced(h) PROVE Announced(h)'
  BY <1>2, <1>3, Zenon DEF Announced, RowsOf
<1>4. \A h \in 1 .. n : h \in Heights
  BY <1>1, PendingHeights, Zenon
<1>5. \A h \in 1 .. n : h >= Cfg.stage2Start => Announced(h)'
  BY <1>1, <1>3, <1>4, Zenon DEF Announces
<1>6. \A h \in Heights : h > n =>
         (\/ rows["pending"][h] = Zero(Parties)
          \/ h = n + 1 /\ h + Window(h) <= top /\ rows["pending"][h] = RowsOf(Expected(h)))'
  BY <1>1, <1>2, Zenon DEF Announces, RowsOf, Window
<1>7. ASSUME pc'["pending"] = "flush", hgt'["pending"] >= Cfg.stage2Start PROVE Announced(m)'
  <2>1. m \in Heights
    BY <1>1, <1>7, PendingHeights, Zenon DEF Working
  <2>. QED
    BY <1>1, <1>3, <1>7, <2>1, Zenon DEF Announces
<1>8. Len(chain') = top'
  BY Zenon DEF Announces
<1>9. pc'["pending"] = "flush" /\ hgt'["pending"] >= Cfg.stage2Start => hgt'["pending"] = m
  BY <1>1, Zenon
<1>. QED
  BY <1>1, <1>5, <1>6, <1>7, <1>8, <1>9, Zenon DEF Announces

\* The announced rows are deleted once the allocated ones are there.
LEMMA AnnouncesDelete ==
    ASSUME LoopType, LoopInv, SnapshotInv, WriteType, AllocatedInv, Announces, Undisturbed,
           DeletePending("snapshot")
    PROVE  Announces'
<1>0. pc["snapshot"] = "delete"
  BY SMTT(30) DEF DeletePending
<1>1. PICK m \in Heights : m = hgt["snapshot"]
  BY <1>0, TwoConsumers, RewardAt, Zenon DEF Working
<1>2. PICK n \in Nat, k \in Nat : n = cursor["pending"] /\ k = hgt["pending"]
  BY TwoConsumers, Zenon DEF LoopType
<1>3. UNCHANGED <<chain, top, hgt, cursor>> /\ pc'["pending"] = pc["pending"]
      /\ rows' = [rows EXCEPT !["pending"][m] = Zero(Parties)]
  BY <1>1, TwoConsumers, Zenon DEF DeletePending, loop, redis, LoopType
<1>4. /\ \A h \in Heights \ {m} : rows'["pending"][h] = rows["pending"][h]
      /\ rows'["pending"][m] = Zero(Parties) /\ rows'["snapshot"] = rows["snapshot"]
  BY <1>3, TwoConsumers, Zenon DEF WriteType
<1>5. \A h : Expected(h)' = Expected(h)
  BY <1>3, ExpectedKept, Zenon
<1>6. rows["snapshot"][m] = RowsOf(Expected(m))
  BY <1>0, <1>1, Zenon DEF AllocatedInv, Settled
<1>8. ASSUME NEW h \in Heights, Announced(h) PROVE Announced(h)'
  <2>1. CASE h = m
    BY <1>4, <1>5, <1>6, <2>1, Zenon DEF Announced, RowsOf
  <2>2. CASE h # m
    BY <1>4, <1>5, <1>8, <2>2, Zenon DEF Announced, RowsOf
  <2>. QED
    BY <2>1, <2>2, Zenon
<1>9. \A h \in 1 .. n : h >= Cfg.stage2Start => Announced(h)'
  BY <1>2, <1>8, PendingHeights, Zenon DEF Announces
<1>10. \A h \in Heights : h > n =>
         (\/ rows["pending"][h] = Zero(Parties)
          \/ h = n + 1 /\ h + Window(h) <= top /\ rows["pending"][h] = RowsOf(Expected(h)))'
  BY <1>2, <1>3, <1>4, <1>5, Zenon DEF Announces, RowsOf, Window
<1>11. pc'["pending"] = "flush" /\ k >= Cfg.stage2Start => Announced(k)'
  BY <1>2, <1>3, <1>8, PendingHeights, Zenon DEF Announces, Working
<1>. QED
  BY <1>2, <1>3, <1>9, <1>10, <1>11, Zenon DEF Announces

\* Announcing: the rows of the height the pending consumer is at
LEMMA AnnouncesWrite ==
    ASSUME LoopType, LoopInv, SnapshotInv, WriteType, Announces, Undisturbed,
           HeldIsDue, Announce("pending") \/ UpsertPending("pending")
    PROVE  Announces'
<1>0. pc["pending"] \in {"reward", "upsert"} /\ pc["pending"] \in Working
  BY Zenon DEF Announce, UpsertPending, Working
<1>1. PICK n \in Nat, m \in Heights :
         n = cursor["pending"] /\ m = hgt["pending"] /\ m = n + 1 /\ m + Window(m) <= top
  BY <1>0, TwoConsumers, RewardAt, Depths, Zenon DEF Working, LoopType
<1>2. PICK e \in [Receivers -> Nat] :
         e = Expected(m) /\ e = Rewards(m, read["pending"].reward, mem["pending"])
  BY <1>0, <1>1, TwoConsumers, RewardAt, Zenon DEF Working
<1>3. PICK old \in [Parties -> Nat] : old = rows["pending"][m]
  BY TwoConsumers, SMTT(30) DEF WriteType
<1>4. old = Zero(Parties) \/ old = RowsOf(e)
  <2>1. m > n
    BY <1>1
  <2>. QED
    BY <1>1, <1>2, <1>3, <2>1, Zenon DEF Announces
<1>5. UNCHANGED <<chain, top, hgt, cursor>>
  BY Zenon DEF Announce, UpsertPending, loop, redis
<1>6. \/ rows' = [rows EXCEPT !["pending"][m] = Zero(Parties)] /\ pc'["pending"] = "upsert"
      \/ rows' = rows /\ pc'["pending"] = "flush" /\ ~HasRows(e)
      \/ rows' = [rows EXCEPT !["pending"][m] = RowsOf(e)] /\ pc'["pending"] = "flush"
  <2>1. CASE Announce("pending")
    <3>1. \/ /\ rows' = [rows EXCEPT !["pending"][m] = Zero(Parties)]
             /\ pc' = [pc EXCEPT !["pending"] = "upsert"]
          \/ rows' = rows /\ pc' = [pc EXCEPT !["pending"] = "flush"] /\ ~HasRows(e)
      BY <1>1, <1>2, <2>1, Zenon DEF Announce
    <3>. QED
      BY <3>1, TwoConsumers, Zenon DEF LoopType
  <2>2. CASE UpsertPending("pending")
    <3>0. held.amounts = e
      BY <1>1, <1>2, <2>2, Zenon DEF UpsertPending, HeldIsDue
    <3>1. rows' = [rows EXCEPT !["pending"][m] = Upserted(old, e)] /\ pc'["pending"] = "flush"
      BY <1>1, <1>3, <2>2, <3>0, TwoConsumers, Zenon DEF UpsertPending, LoopType
    <3>2. Upserted(old, e) = RowsOf(e)
      BY <1>4, UpsertSame, Zenon
    <3>. QED
      BY <3>1, <3>2, Zenon
  <2>. QED
    BY <2>1, <2>2, Zenon
<1>7. ~HasRows(e) => RowsOf(e) = Zero(Parties)
  BY SMTT(30) DEF HasRows, RowsOf, Zero, Receivers
<1>8. /\ \A h \in Heights : h # m => rows'["pending"][h] = rows["pending"][h]
      /\ rows'["snapshot"] = rows["snapshot"]
  BY <1>6, TwoConsumers, SMTT(30) DEF WriteType
<1>9. rows'["pending"][m] = Zero(Parties) \/ rows'["pending"][m] = RowsOf(e)
  BY <1>3, <1>4, <1>6, TwoConsumers, SMTT(30) DEF WriteType
<1>10. pc'["pending"] = "flush" => rows'["pending"][m] = RowsOf(e)
  BY <1>3, <1>4, <1>6, <1>7, TwoConsumers, SMTT(30) DEF WriteType
<1>11. \A h : Expected(h)' = Expected(h)
  BY <1>5, ExpectedKept, Zenon
<1>12. \A h \in 1 .. n : h >= Cfg.stage2Start => Announced(h)'
  <2>1. \A h \in 1 .. n : h # m /\ h \in Heights
    BY <1>1, PendingHeights, SMTT(30)
  <2>2. ASSUME NEW h \in 1 .. n, h >= Cfg.stage2Start PROVE Announced(h)'
    <3>1. Announced(h)
      BY <1>1, <2>2, Zenon DEF Announces
    <3>2. /\ rows'["pending"][h] = rows["pending"][h]
          /\ rows'["snapshot"][h] = rows["snapshot"][h]
      BY <1>8, <2>1, Zenon
    <3>3. RowsOf(Expected(h))' = RowsOf(Expected(h))
      BY <1>11, Zenon DEF RowsOf
    <3>. QED
      BY <3>1, <3>2, <3>3, Zenon DEF Announced
  <2>. QED
    BY <2>2, Zenon
<1>13. \A h \in Heights : h > n =>
         (\/ rows["pending"][h] = Zero(Parties)
          \/ h = n + 1 /\ h + Window(h) <= top /\ rows["pending"][h] = RowsOf(Expected(h)))'
  BY <1>1, <1>2, <1>5, <1>8, <1>9, <1>11, ZenonT(40) DEF Announces, RowsOf, Window
<1>14. pc'["pending"] = "flush" => Announced(m)'
  BY <1>2, <1>10, <1>11, ZenonT(40) DEF Announced, RowsOf
<1>. QED
  BY <1>1, <1>5, <1>12, <1>13, <1>14, Zenon DEF Announces

\* The flush of the pending consumer: the height it was at is done with.
LEMMA AnnouncesFlush ==
    ASSUME LoopType, LoopInv, SnapshotInv, WriteType, Announces, Undisturbed,
           Flush("pending") \/ FlushFails("pending")
    PROVE  Announces'
<1>0. pc["pending"] = "flush" /\ pc["pending"] \in Working
  BY Zenon DEF Flush, FlushFails, Working
<1>1. PICK n \in Nat, m \in Heights : n = cursor["pending"] /\ m = hgt["pending"] /\ m = n + 1
  BY <1>0, TwoConsumers, RewardAt, Depths, Zenon DEF Working, LoopType
<1>2. /\ UNCHANGED <<chain, top, hgt, rows>> /\ cursor'["pending"] = m
      /\ pc'["pending"] \in {"clean", "poll"}
  <2>1. /\ pc' \in {[pc EXCEPT !["pending"] = "clean"], [pc EXCEPT !["pending"] = "poll"]}
        /\ UNCHANGED <<chain, top, hgt, rows>>
        /\ cursor' = [cursor EXCEPT !["pending"] = hgt["pending"]]
    BY TwoConsumers, FlushDoes, Zenon
  <2>. QED
    BY <1>1, <2>1, TwoConsumers, Zenon DEF LoopType
<1>3. \A h : Expected(h)' = Expected(h)
  BY <1>2, ExpectedKept, Zenon
<1>4. \A h : Announced(h) => Announced(h)'
  BY <1>2, <1>3, Zenon DEF Announced, RowsOf
<1>5. \A h \in 1 .. m : h >= Cfg.stage2Start => Announced(h)'
  <2>1. \A h \in 1 .. m : h \in 1 .. n \/ h = m
    BY <1>1, SMTT(30)
  <2>. QED
    BY <1>0, <1>1, <1>4, <2>1, Zenon DEF Announces
<1>6. \A h \in Heights : h > m => rows'["pending"][h] = Zero(Parties)
  <2>1. \A h \in Heights : h > m => h > n /\ h # n + 1
    BY <1>1, SMTT(30) DEF Heights
  <2>. QED
    BY <1>1, <1>2, <2>1, Zenon DEF Announces
<1>. QED
  BY <1>2, <1>5, <1>6, Zenon DEF Announces

\* The amounts held stay those the blocks define, whatever the other consumer
\* does and is committed meanwhile.
LEMMA HeldStep ==
    ASSUME LoopType, LoopInv, SnapshotInv, WriteType, Announces, HeldIsDue, Undisturbed,
           ~Rollback, [Next]_vars
    PROVE  HeldIsDue'
<1>1. ASSUME UNCHANGED <<chain, held>>, pc'["pending"] = pc["pending"],
             hgt'["pending"] = hgt["pending"]
      PROVE  HeldIsDue'
  <2>1. \A h : Expected(h)' = Expected(h)
    BY <1>1, ExpectedKept, Zenon
  <2>. QED
    BY <1>1, <2>1, Zenon DEF HeldIsDue
<1>2. ASSUME pc'["pending"] # "upsert" PROVE HeldIsDue'
  BY <1>2, Zenon DEF HeldIsDue
<1>3. CASE UNCHANGED vars
  BY <1>1, <1>3, Zenon DEF vars, loop, memory
<1>4. CASE Commit
  <2>1. UNCHANGED <<pc, hgt, held>>
    BY <1>4, Zenon DEF Commit, loop, memory
  <2>2. PICK m \in Nat : m = hgt["pending"]
    BY TwoConsumers, Zenon DEF LoopType
  <2>3. pc["pending"] = "upsert" => m >= 1 /\ m + Window(m) <= top
    BY <2>2, Depths, Zenon DEF Working
  <2>4. pc["pending"] = "upsert" => Expected(m)' = Expected(m)
    BY <1>4, <2>3, CommitKeeps, Zenon DEF Announces
  <2>. QED
    BY <2>1, <2>2, <2>4, Zenon DEF HeldIsDue
<1>5. CASE Crash
  BY <1>2, <1>5, TwoConsumers, Zenon DEF Crash
<1>6. ASSUME NEW c \in Consumers,
             Step(c) \/ FlushFails(c) \/ Fail(c) \/ BalanceReadFails(c)
      PROVE  HeldIsDue'
  <2>0. UNCHANGED chain
    BY <1>6, StepLoop, Zenon
  <2>1. ~Fail(c) /\ ~BalanceReadFails(c)
    BY Zenon DEF Undisturbed, Fail, BalanceReadFails, Budget
  <2>2. CASE c = "pending" /\ Announce(c)
    <3>0. pc["pending"] = "reward"
      BY <2>2, Zenon DEF Announce
    <3>1. PICK m, e : /\ m = hgt["pending"] /\ e = Expected(m)
                      /\ e = Rewards(m, read["pending"].reward, mem["pending"])
      BY <3>0, TwoConsumers, RewardAt, Zenon DEF Working
    <3>2. /\ UNCHANGED hgt
          /\ \/ pc' = [pc EXCEPT !["pending"] = "flush"]
             \/ held' = [existing |-> Amount(rows["pending"][m]), amounts |-> e]
      BY <2>2, <3>1, Zenon DEF Announce, loop
    <3>3. CASE pc' = [pc EXCEPT !["pending"] = "flush"]
      BY <1>2, <3>3, TwoConsumers, Zenon DEF LoopType
    <3>4. CASE held' = [existing |-> Amount(rows["pending"][m]), amounts |-> e]
      <4>1. held'.amounts = e
        BY <3>4, Zenon
      <4>2. Expected(m)' = Expected(m)
        BY <2>0, ExpectedKept, Zenon
      <4>. QED
        BY <3>1, <3>2, <4>1, <4>2, Zenon DEF HeldIsDue
    <3>. QED
      BY <3>2, <3>3, <3>4, Zenon
  <2>3. CASE c = "pending" /\ ~Announce(c)
    <3>1. \E s \in {"poll", "load", "stage", "reward", "subtract", "delete", "flush", "clean"} :
             pc' = [pc EXCEPT !["pending"] = s]
      BY <1>6, <2>1, <2>3, Zenon
         DEF Step, Start, Poll, NotCommitted, LoadBindings, StageDeltas, ReadDeltas, Allocate,
         Subtract, DeletePending, UpsertPending, Flush, FlushFails, Advance
    <3>. QED
      BY <1>2, <3>1, TwoConsumers, Zenon DEF LoopType
  <2>4. CASE c = "snapshot"
    <3>1. pc'["pending"] = pc["pending"] /\ hgt'["pending"] = hgt["pending"]
      BY <1>6, <2>4, OtherLoop, TwoConsumers, Zenon
    <3>2. ~Announce("snapshot") /\ ~UpsertPending("snapshot")
      BY TwoConsumers, SMTT(30) DEF WriteType, Announce, UpsertPending
    <3>3. UNCHANGED held
      BY <1>6, <2>1, <2>4, <3>2, ZenonT(40)
         DEF Step, Start, Poll, NotCommitted, LoadBindings, StageDeltas, ReadDeltas, Allocate,
         Subtract, DeletePending, Flush, FlushFails, Execute, Executed, Advance, memory
    <3>. QED
      BY <1>1, <2>0, <3>1, <3>3, Zenon
  <2>. QED
    BY <2>2, <2>3, <2>4, TwoConsumers, Zenon
<1>. QED
  BY <1>3, <1>4, <1>5, <1>6, Zenon DEF Next

\* Every step keeps what is announced as the blocks define it.
LEMMA AnnouncedStep ==
    ASSUME LoopType, LoopInv, SnapshotInv, WriteType, AllocatedInv, AnnouncedInv, Undisturbed,
           [Next]_vars
    PROVE  AnnouncedInv'
<1>. SUFFICES ASSUME ~faults'.reorg PROVE Announces' /\ HeldIsDue'
  BY ReorgStep, Zenon DEF AnnouncedInv
<1>0. Announces /\ HeldIsDue /\ ~Rollback
  BY ReorgStep, Zenon DEF AnnouncedInv
<1>5. HeldIsDue'
  BY <1>0, HeldStep, Zenon
<1>. SUFFICES Announces'
  BY <1>5, Zenon
<1>1. CASE UNCHANGED vars
  <2>1. UNCHANGED <<chain, top, rows, cursor, pc, hgt>>
    BY <1>1, Zenon DEF vars, loop, redis
  <2>. QED
    BY <1>0, <2>1, AnnouncesQuiet, Zenon
<1>2. CASE Commit
  BY <1>0, <1>2, AnnouncesCommit, Zenon
<1>3. CASE Crash
  <2>1. UNCHANGED <<chain, top, rows, cursor>> /\ pc'["pending"] = "off"
    BY <1>3, TwoConsumers, Zenon DEF Crash, redis
  <2>. QED
    BY <1>0, <2>1, AnnouncesQuiet, Zenon
<1>4. ASSUME NEW c \in Consumers,
             Step(c) \/ FlushFails(c) \/ Fail(c) \/ BalanceReadFails(c)
      PROVE  Announces'
  <2>0. UNCHANGED <<chain, top>>
    BY <1>4, StepLoop, Zenon
  <2>1. ~Fail(c) /\ ~BalanceReadFails(c)
    BY Zenon DEF Undisturbed, Fail, BalanceReadFails, Budget
  <2>2. CASE c = "pending"
    <3>1. ~Subtract("pending") /\ ~DeletePending("pending") /\ ~Allocate("pending")
      BY TwoConsumers, Zenon DEF WriteType, Subtract, DeletePending, Allocate
    <3>2. CASE Announce("pending") \/ UpsertPending("pending")
      BY <1>0, <3>2, AnnouncesWrite, Zenon
    <3>3. CASE Flush("pending") \/ FlushFails("pending")
      BY <1>0, <3>3, AnnouncesFlush, SMTT(30)
    <3>4. CASE \/ Start("pending") \/ Poll("pending") \/ NotCommitted("pending")
               \/ LoadBindings("pending") \/ StageDeltas("pending") \/ Advance("pending")
      <4>1. UNCHANGED <<rows, cursor>>
        BY <3>4, Zenon
           DEF Start, Poll, NotCommitted, LoadBindings, StageDeltas, ReadDeltas, Advance,
           redis
      <4>2. pc'["pending"] = "flush" => hgt'["pending"] < Cfg.stage2Start
        BY <3>4, TwoConsumers, Zenon
           DEF Start, Poll, NotCommitted, LoadBindings, StageDeltas, ReadDeltas,
           Advance, LoopType
      <4>3. hgt'["pending"] \in Nat /\ Cfg.stage2Start \in Nat
        BY <1>4, StepLoop, TwoConsumers, CfgAssumption, Zenon DEF LoopType
      <4>4. ~(pc'["pending"] = "flush" /\ hgt'["pending"] >= Cfg.stage2Start)
        BY <4>2, <4>3, SMTT(30)
      <4>. QED
        BY <1>0, <2>0, <4>1, <4>4, AnnouncesQuiet, Zenon
    <3>. QED
      BY <1>4, <2>1, <2>2, <3>1, <3>2, <3>3, <3>4, Zenon DEF Step
  <2>3. CASE c = "snapshot"
    <3>0. /\ cursor'["pending"] = cursor["pending"] /\ pc'["pending"] = pc["pending"]
          /\ hgt'["pending"] = hgt["pending"]
      BY <1>4, <2>3, OtherLoop, TwoConsumers, Zenon
    <3>1. ~Announce("snapshot") /\ ~UpsertPending("snapshot")
      BY TwoConsumers, SMTT(30) DEF WriteType, Announce, UpsertPending
    <3>2. CASE DeletePending("snapshot")
      BY <1>0, <3>2, AnnouncesDelete, Zenon
    <3>3. CASE Allocate("snapshot")
      <4>1. pc["snapshot"] = "reward"
        BY <3>3, Zenon DEF Allocate
      <4>2. PICK m \in Heights, e \in [Receivers -> Nat] :
               /\ m = hgt["snapshot"] /\ e = Expected(m)
               /\ e = Rewards(m, read["snapshot"].reward, mem["snapshot"])
        BY <4>1, TwoConsumers, RewardAt, Zenon DEF Working
      <4>3. rows["snapshot"][m] = Zero(Parties) \/ rows["snapshot"][m] = RowsOf(e)
        <5>1. cursor["snapshot"] \in Nat /\ m = cursor["snapshot"] + 1
          BY <4>1, <4>2, Depths, TwoConsumers, ZenonT(40) DEF Working, LoopType
        <5>2. m > cursor["snapshot"]
          BY <5>1
        <5>. QED
          BY <4>2, <5>2, ZenonT(40) DEF AllocatedInv
      <4>4. PICK old : old = rows["snapshot"][m]
        BY Zenon
      <4>5. rows' = [rows EXCEPT !["snapshot"][m] = Upserted(old, e)]
        BY <3>3, <4>2, <4>4, Zenon DEF Allocate
      <4>6. Upserted(old, e) = RowsOf(e)
        BY <4>3, <4>4, UpsertSame, Zenon
      <4>7. /\ rows'["pending"] = rows["pending"] /\ rows'["snapshot"][m] = RowsOf(e)
            /\ \A h \in Heights : h # m => rows'["snapshot"][h] = rows["snapshot"][h]
        BY <4>5, <4>6, TwoConsumers, Zenon DEF WriteType
      <4>. QED
        BY <1>0, <2>0, <3>0, <4>2, <4>7, AnnouncesQuiet, ZenonT(40)
    <3>4. CASE ~Allocate("snapshot") /\ ~DeletePending("snapshot")
      <4>1. rows' = rows
        BY <1>4, <2>1, <2>3, <3>1, <3>4, ZenonT(40)
           DEF Step, Start, Poll, NotCommitted, LoadBindings,
           StageDeltas, ReadDeltas, Subtract, Flush, FlushFails, Execute, Executed, Advance
      <4>. QED
        BY <1>0, <2>0, <3>0, <4>1, AnnouncesQuiet, Zenon
    <3>. QED
      BY <3>2, <3>3, <3>4, Zenon
  <2>. QED
    BY <2>2, <2>3, TwoConsumers, Zenon
<1>. QED
  BY <1>0, <1>1, <1>2, <1>3, <1>4, Zenon DEF Next

\* An announced reward is what is allocated later, as long as nothing is
\* reorganised, and is never lost on the way from one table to the other,
\* under the same conditions: the pending rows are deleted after the upsert.
THEOREM AnnouncedRewards == ASSUME Undisturbed, Buried PROVE Spec => []AnnouncedIsReplay
<1>1. Init => AnnouncedInv
  <2>. SUFFICES ASSUME Init PROVE AnnouncedInv
    BY Zenon
  <2>1. Len(chain) = top /\ faults.reorg = FALSE /\ cursor["pending"] = 0
        /\ pc["pending"] = "off"
    BY TwoConsumers, Zenon DEF Init, Zero
  <2>2. \A h \in Heights : rows["pending"][h] = Zero(Parties)
    BY TwoConsumers, Zenon DEF Init, NoRows
  <2>3. \A h \in 1 .. cursor["pending"] : FALSE
    BY <2>1, SMTT(30)
  <2>4. Announces
    BY <2>1, <2>2, <2>3, Zenon DEF Announces
  <2>. QED
    BY <2>1, <2>4, ZenonT(40) DEF AnnouncedInv, HeldIsDue
<1>2. LoopType /\ LoopInv /\ SnapshotInv /\ WriteType /\ AllocatedInv /\ AnnouncedInv
      /\ [Next]_vars => AnnouncedInv'
  BY AnnouncedStep, Zenon
<1>3. ASSUME LoopType, AnnouncedInv PROVE AnnouncedIsReplay
  <2>. SUFFICES ASSUME ~faults.reorg,
                       NEW h \in Max({Cfg.stage2Start, cursor["snapshot"] + 1})
                                   .. cursor["pending"]
                PROVE  AsExpected("pending", h) \/ AsExpected("snapshot", h)
    BY Zenon DEF AnnouncedIsReplay
  <2>1. PICK a \in Int, b \in Int : a = Cfg.stage2Start /\ b = cursor["snapshot"] + 1 /\ b >= 1
    <3>1. cursor["snapshot"] \in Nat
      BY <1>3, TwoConsumers, Zenon DEF LoopType
    <3>2. PICK k \in Nat : k = Cfg.stage2Start
      BY CfgAssumption, Zenon
    <3>. QED
      BY <3>1, <3>2, SMTT(30)
  <2>2. Max({a, b}) = IF a <= b THEN b ELSE a
    BY MaxOfTwo, Zenon
  <2>3. h \in (IF a <= b THEN b ELSE a) .. cursor["pending"]
    BY <2>1, <2>2, Zenon
  <2>4. h \in 1 .. cursor["pending"] /\ h >= Cfg.stage2Start
    <3>1. cursor["pending"] \in Nat
      BY <1>3, TwoConsumers, Zenon DEF LoopType
    <3>. QED
      BY <2>1, <2>3, <3>1
  <2>5. Announced(h)
    BY <1>3, <2>4, Zenon DEF AnnouncedInv, Announces
  <2>. QED
    BY <2>5, RowsExpected, Zenon DEF Announced
<1>. QED
  BY <1>1, <1>2, <1>3, AllocatedInvariant, PTL DEF Spec
===============================================================================
