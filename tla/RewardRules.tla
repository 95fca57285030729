----------------------------- MODULE RewardRules -----------------------------
(***************************************************************************)
(* The rules of the reward of one block: what the configuration loader     *)
(* accepts, which proofs of a height count and with which share of the     *)
(* stake, and how the unlocked reward is divided.                          *)
(*                                                                         *)
(* A configuration c is a record.  Percentages of the release tiers are in *)
(* tenths, commission ratios in basis points; the float64 quotients of the *)
(* code are the exact rationals num / den.  A proof hash is the tuple that *)
(* the code feeds to sha256.                                               *)
(***************************************************************************)
EXTENDS Integers, FiniteSets, Sequences, FiniteSetsExt, Functions

CONSTANT EpsInv   \* 1 / rewardTruncationEpsilon (10^9)

ASSUME EpsAssumption == EpsInv \in Nat \ {0}

Stage3Percents == <<100, 95, 87, 75, 59, 35, 10>>
------------------------------------------------------------------------------
(***************************************************************************)
(* conf/init.go                                                            *)
(***************************************************************************)
parseDelaySubmitStage3Blocks(raw) ==
    /\ Len(raw) = 7
    /\ \A k \in 1 .. 7 : raw[k] > 0 /\ (k > 1 => raw[k] > raw[k - 1])

\* Every tier is checked by itself; their order is not.
parseRewardReleaseTiers(raw) ==
    \A k \in 1 .. Len(raw) : raw[k].percent \in 0 .. 1000

\* An indexer id that is not of the form height:txIdx.
Malformed == -1
IsIndexerIDHeightTxIdx(id) == id # Malformed

parseIndexerAllowlistWindows(raw) ==
    \A w \in raw : w.end > w.start /\ \A id \in w.ids : IsIndexerIDHeightTxIdx(id)

\* raw.isSet has the list keys that are in the file (viper's IsSet).
LoadFails(raw) ==
    \/ "stage3Blocks" \in raw.isSet /\ ~parseDelaySubmitStage3Blocks(raw.stage3Blocks)
    \/ "tiers" \in raw.isSet /\ ~parseRewardReleaseTiers(raw.tiers)
    \/ "windows" \in raw.isSet /\ ~parseIndexerAllowlistWindows(raw.windows)

UintFields == {"proofWindow", "triggerBlocks", "stepBlocks", "stepPercent",
               "stage2Start", "stage3Start", "startReward"}

ListFields == {"stage3Blocks", "tiers", "windows"}

\* A number that is missing or zero leaves the default in place; so does a
\* list that is missing, but an empty one takes its place.
Load(default, raw) ==
    [f \in DOMAIN default |->
        IF \/ f \in UintFields /\ raw[f] = 0
           \/ f \in ListFields \ raw.isSet
        THEN default[f] ELSE raw[f]]

IsIndexerRewardAllowedAtHeight(c, i, h) ==
    LET matched == {w \in c.windows : w.start <= h /\ h < w.end}
    IN  matched = {} \/ \E w \in matched : i \in w.ids

RewardReleasePercentByHeight(c, h) ==
    LET passed == {k \in 1 .. Len(c.tiers) : \A j \in 1 .. k : c.tiers[j].start <= h}
    IN  IF passed = {} THEN 0 ELSE c.tiers[Cardinality(passed)].percent

\* Variant: one step too many when stepPercent divides 100.
RewardProofWindowOneMore(c, h) ==
    IF h >= c.stage3Start THEN c.stage3Blocks[7]
    ELSE IF h >= c.stage2Start
    THEN c.stepBlocks * (100 \div c.stepPercent + 1)
    ELSE c.proofWindow

RewardProofWindowByHeight(c, h) ==
    IF c.stage3Start > 0 /\ h >= c.stage3Start THEN c.stage3Blocks[7]
    ELSE IF c.stage2Start > 0 /\ h >= c.stage2Start
    THEN c.stepBlocks * ((100 + c.stepPercent - 1) \div c.stepPercent)
    ELSE c.proofWindow

resolveRewardReleasePercent(c, h) ==
    Min({1000, RewardReleasePercentByHeight(c, h)})
------------------------------------------------------------------------------
(***************************************************************************)
(* pg/stake_proofs.go: which proofs of a height are valid                  *)
(***************************************************************************)
Earlier(a, b) ==
    \/ a.height < b.height
    \/ a.height = b.height /\ a.txIdx < b.txIdx
    \/ a.height = b.height /\ a.txIdx = b.txIdx /\ a.txid < b.txid

\* Variant: the latest proof of a group is the canonical one.
Later(a, b) == Earlier(b, a)

isProofEarlier(a, b) == Earlier(a, b)

ListStakeProofByProveHeight(proofs, h, window) ==
    {p \in proofs : p.prove = h /\ p.height > h /\ p.height <= h + window}

computeStakeProofHash(i, blockHash, stateHash) == <<i, blockHash, stateHash>>

resolveStage2StakeProofStatus(c, p) ==
    IF p.height <= p.prove \/ c.stepBlocks = 0 \/ c.stepPercent = 0 THEN "Valid"
    ELSE LET penalty == ((p.height - p.prove - 1) \div c.stepBlocks) * c.stepPercent
         IN  IF penalty >= 100 THEN "Expired"
             ELSE IF penalty > 0 THEN "ValidDelayed" ELSE "Valid"

resolveStage3StakeProofStatus(c, p) ==
    IF p.height <= p.prove THEN "Valid"
    ELSE IF p.height - p.prove > c.stage3Blocks[7] THEN "Expired"
    ELSE IF p.height - p.prove > c.stage3Blocks[1] THEN "ValidDelayed" ELSE "Valid"

shouldApplyDelaySubmitPenalty(c, p) ==
    c.triggerBlocks # 0 /\ p.height > p.prove /\ p.height - p.prove > c.triggerBlocks

resolveValidStakeProofStatus(c, p) ==
    IF c.stage3Start > 0 /\ p.prove >= c.stage3Start
    THEN resolveStage3StakeProofStatus(c, p)
    ELSE IF c.stage2Start > 0 /\ p.prove >= c.stage2Start
    THEN resolveStage2StakeProofStatus(c, p)
    ELSE IF shouldApplyDelaySubmitPenalty(c, p) THEN "ValidDelayed" ELSE "Valid"

hashGroup(ps, p) == {q \in ps : q.indexer = p.indexer /\ q.hash = p.hash}

\* The status written for p when the proofs ps were selected.
verifyUpdate(c, ps, p, blockHash, stateHash) ==
    IF p.hash # computeStakeProofHash(p.indexer, blockHash, stateHash) THEN "InvalidHash"
    ELSE IF \A q \in hashGroup(ps, p) \ {p} : isProofEarlier(p, q)
    THEN resolveValidStakeProofStatus(c, p)
    ELSE "InvalidDuplicate"

resolveStakeProofValidity(c, ps, blockHash, stateHash) ==
    {[p EXCEPT !.status = verifyUpdate(c, ps, p, blockHash, stateHash)] : p \in ps}

ValidProofs(resolved) == {p \in resolved : p.status \in {"Valid", "ValidDelayed"}}
------------------------------------------------------------------------------
(***************************************************************************)
(* manager/handler_reward.go: shares and amounts                           *)
(***************************************************************************)
isRewardBlockVersion(version) ==
    version \div 2^16 = 8230 /\ (version \div 2^8) % 16 = 1   \* 0x2026.1..

shouldUseRewardTruncation(c, h) == h >= c.stage2Start

shouldUseStage3DelayPenalty(c, h) == c.stage3Start > 0 /\ h >= c.stage3Start

\* Variant: a step of the penalty is counted when it begins, one block early.
Stage2PercentEarly(c, delayed) ==
    LET penalty == (delayed \div c.stepBlocks) * c.stepPercent
    IN  IF penalty >= 100 THEN 0 ELSE 100 - penalty

resolveStage2DelaySubmitStakePercent(c, delayed) ==
    IF c.stepBlocks = 0 \/ c.stepPercent = 0 THEN 100
    ELSE LET penalty == ((delayed - 1) \div c.stepBlocks) * c.stepPercent
         IN  IF penalty >= 100 THEN 0 ELSE 100 - penalty

resolveStage3DelaySubmitStakePercent(c, delayed) ==
    LET reached == {k \in 1 .. 7 : delayed <= c.stage3Blocks[k]}
    IN  IF reached = {} THEN 0 ELSE Stage3Percents[Min(reached)]

resolveDelaySubmitStakePercent(c, h, p) ==
    IF p.status # "ValidDelayed" THEN 100
    ELSE IF ~shouldUseRewardTruncation(c, h) THEN 95
    ELSE IF p.height <= p.prove THEN 100
    ELSE IF shouldUseStage3DelayPenalty(c, h)
    THEN resolveStage3DelaySubmitStakePercent(c, p.height - p.prove)
    ELSE resolveStage2DelaySubmitStakePercent(c, p.height - p.prove)

resolveRewardStakePercentByIndexer(c, h, valid) ==
    LET allowed == {p \in valid : IsIndexerRewardAllowedAtHeight(c, p.indexer, h)}
    IN  [i \in {p.indexer : p \in allowed} |->
            Max({resolveDelaySubmitStakePercent(c, h, p) :
                    p \in {q \in allowed : q.indexer = i}})]

\* Variant: both phases round to the nearest unit.
quantizeRounded(num, den, useTruncation) == (2 * num + den) \div (2 * den)

quantizeReward(num, den, useTruncation) ==
    IF num <= 0 THEN 0
    ELSE IF useTruncation THEN (num * EpsInv + den) \div (den * EpsInv)
    ELSE (2 * num + den) \div (2 * den)

rawStake(stakes, i) == SumFunction(stakes[i])

\* indexerStakeTotal: raw and effective stake of the indexers that take part.
indexerStakeTotal(percent, stakes) ==
    LET effective(i) == (rawStake(stakes, i) * percent[i]) \div 100
    IN  [i \in {j \in DOMAIN percent \cap DOMAIN stakes : effective(j) > 0} |->
            [raw |-> rawStake(stakes, i), effective |-> effective(i)]]

unlockedRewardAmount(c, h, reward) ==
    quantizeReward(reward * resolveRewardReleasePercent(c, h), 1000,
                   shouldUseRewardTruncation(c, h))

firstLayerReward(c, h, weights, i, unlocked) ==
    quantizeReward(unlocked * weights[i].effective,
                   SumFunction([j \in DOMAIN weights |-> weights[j].effective]),
                   shouldUseRewardTruncation(c, h))

indexerReward(c, h, first, ratio) ==
    Min({first, quantizeReward(first * ratio, 10000, shouldUseRewardTruncation(c, h))})

stakerReward(c, h, pool, stake, raw) ==
    quantizeReward(pool * stake, raw, shouldUseRewardTruncation(c, h))

\* The amounts of one indexer: its first layer, its own reward, its stakers'.
Shares(c, h, weights, i, unlocked, ratio, stakes) ==
    LET first == firstLayerReward(c, h, weights, i, unlocked)
        own == indexerReward(c, h, first, ratio)
    IN  [first |-> first, own |-> own,
         users |-> [u \in DOMAIN stakes[i] |->
                      stakerReward(c, h, first - own, stakes[i][u], weights[i].raw)]]
=============================================================================
