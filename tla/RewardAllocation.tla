--------------------------- MODULE RewardAllocation ---------------------------
(***************************************************************************)
(* The reward of one block, from the configuration file to the amounts:    *)
(* conf.Load, then handleBlockReward with its early returns.  The inputs   *)
(* are a raw configuration, a block, the proofs in stake_proofs, and the   *)
(* stakes and commission ratios of the indexers.                           *)
(***************************************************************************)
EXTENDS RewardRules

CONSTANTS Default,  \* DefaultConfig
          Inputs    \* families of inputs: a set of values for each part

\* Every number of DefaultConfig is set, its penalty steps ascend.
ASSUME DefaultAssumption ==
    /\ DOMAIN Default = UintFields \cup ListFields
    /\ \A f \in UintFields : Default[f] \in Nat \ {0}
    /\ Default.stage3Blocks \in Seq(Nat)
    /\ parseDelaySubmitStage3Blocks(Default.stage3Blocks)
    /\ Default.tiers \in Seq([start : Nat, percent : 0 .. 1000])

\* What a configuration file may hold, and a row of stake_proofs that was not
\* judged yet; the transaction id is its key.
RawType(raw) ==
    /\ \A f \in UintFields : raw[f] \in Nat
    /\ raw.stage3Blocks \in Seq(Nat) /\ raw.tiers \in Seq([start : Nat, percent : Int])
    /\ raw.isSet \subseteq ListFields

ProofType(p) ==
    /\ DOMAIN p = {"indexer", "prove", "hash", "height", "txIdx", "txid", "status"}
    /\ p.prove \in Nat /\ p.height \in Nat /\ p.txIdx \in Nat /\ p.txid \in Nat

ASSUME InputAssumption ==
    \A f \in Inputs :
        /\ \A raw \in f.raw : RawType(raw)
        /\ \A b \in f.block : b.height \in Nat /\ b.reward \in Nat
        /\ \A ps \in f.proofs : \A p \in ps :
              /\ ProofType(p) /\ p.status = "Pending"
              /\ \A q \in ps : q.txid = p.txid => q = p
        /\ \A s \in f.stakes : \A i \in DOMAIN s :
              /\ \A u \in DOMAIN s[i] : s[i][u] \in Nat
              /\ \A r \in f.ratio : r[i] \in Nat

\* There are fewer indexers and stakers than 1 / rewardTruncationEpsilon.
ASSUME PartiesAssumption ==
    \A f \in Inputs : \A s \in f.stakes :
        /\ IsFiniteSet(DOMAIN s) /\ Cardinality(DOMAIN s) < EpsInv
        /\ \A i \in DOMAIN s :
              IsFiniteSet(DOMAIN s[i]) /\ Cardinality(DOMAIN s[i]) < EpsInv

VARIABLES in,       \* the input of this behaviour
          cfg,      \* StakeRewardCfg
          pc,       \* "load", "reward", "weigh", "divide", "done", or why it ended
          proofs,   \* stake_proofs
          percent,  \* stakePercentByIndexer
          weights,  \* indexerStakeTotal
          unlocked, \* unlockedRewardAmount
          shares    \* the amounts of every indexer that takes part

vars == <<in, cfg, pc, proofs, percent, weights, unlocked, shares>>

None == [i \in {} |-> 0]
h == in.block.height
Window == RewardProofWindowByHeight(cfg, h)
Selected == ListStakeProofByProveHeight(proofs, h, Window)

Init ==
    /\ \E f \in Inputs :
          in \in [raw : f.raw, block : f.block, proofs : f.proofs,
                 stakes : f.stakes, ratio : f.ratio]
    /\ cfg = Default /\ pc = "load"
    /\ proofs = in.proofs
    /\ percent = None /\ weights = None /\ unlocked = 0 /\ shares = None

\* conf.Init; bootstrap stops the process when it fails.
LoadConfig ==
    /\ pc = "load"
    /\ IF LoadFails(in.raw) THEN pc' = "refused" /\ UNCHANGED cfg
       ELSE pc' = "reward" /\ cfg' = Load(Default, in.raw)
    /\ UNCHANGED <<in, proofs, percent, weights, unlocked, shares>>

NotRewarded ==
    /\ pc = "reward"
    /\ \/ h < cfg.startReward
       \/ ~isRewardBlockVersion(in.block.version)
       \/ in.block.reward = 0
    /\ pc' = "none"
    /\ UNCHANGED <<in, cfg, proofs, percent, weights, unlocked, shares>>

\* ResolveStakeProofValidityByProveHeight: the statuses are written back.
ResolveProofs ==
    /\ pc = "reward"
    /\ h >= cfg.startReward /\ isRewardBlockVersion(in.block.version)
    /\ in.block.reward > 0
    /\ LET resolved == resolveStakeProofValidity(cfg, Selected, in.block.hash,
                                                 in.block.state)
       IN  /\ proofs' = (proofs \ Selected) \cup resolved
           /\ percent' = resolveRewardStakePercentByIndexer(cfg, h, ValidProofs(resolved))
    /\ pc' = IF DOMAIN percent' = {} THEN "none" ELSE "weigh"
    /\ UNCHANGED <<in, cfg, weights, unlocked, shares>>

Weigh ==
    /\ pc = "weigh"
    /\ weights' = indexerStakeTotal(percent, in.stakes)
    /\ unlocked' = IF DOMAIN weights' = {} THEN 0
                   ELSE unlockedRewardAmount(cfg, h, in.block.reward)
    /\ pc' = IF unlocked' = 0 THEN "none" ELSE "divide"
    /\ UNCHANGED <<in, cfg, proofs, percent, shares>>

Divide ==
    /\ pc = "divide"
    /\ shares' = [i \in DOMAIN weights |->
                    Shares(cfg, h, weights, i, unlocked, in.ratio[i], in.stakes)]
    /\ pc' = "done"
    /\ UNCHANGED <<in, cfg, proofs, percent, weights, unlocked>>

Next == LoadConfig \/ NotRewarded \/ ResolveProofs \/ Weigh \/ Divide

Spec == Init /\ [][Next]_vars
------------------------------------------------------------------------------
Loaded == pc \notin {"load", "refused"}
Resolved == percent # None
Delay(p) == p.height - p.prove
Matching(i) ==
    {p \in Selected : p.indexer = i
        /\ p.hash = computeStakeProofHash(i, in.block.hash, in.block.state)}

(***************************************************************************)
(* The window of conf/init.go and the penalties of pg/stake_proofs.go end  *)
(* at the same block: a proof the window selects is never Expired, and its *)
(* stake counts for something.                                             *)
(***************************************************************************)
SelectedIsNeverExpired ==
    Loaded => \A p \in Selected :
        /\ resolveValidStakeProofStatus(cfg, p) # "Expired"
        /\ resolveDelaySubmitStakePercent(cfg, h,
               [p EXCEPT !.status = resolveValidStakeProofStatus(cfg, p)]) > 0

(***************************************************************************)
(* The status written by pg/stake_proofs.go and the percentage computed    *)
(* again by handler_reward.go agree: ValidDelayed exactly when the stake   *)
(* is reduced, Valid exactly when it counts in full.                       *)
(***************************************************************************)
StatusAgreesWithPercent ==
    Resolved /\ shouldUseRewardTruncation(cfg, h) =>
        \A p \in {q \in proofs : q.prove = h /\ q.status \in {"Valid", "ValidDelayed"}} :
            LET full == IF shouldUseStage3DelayPenalty(cfg, h)
                        THEN resolveStage3DelaySubmitStakePercent(cfg, Delay(p))
                        ELSE resolveStage2DelaySubmitStakePercent(cfg, Delay(p))
            IN  (p.status = "Valid") <=> full = 100

(***************************************************************************)
(* An indexer's stake is weighed by the best of its matching proofs: that  *)
(* duplicates are dropped in favour of the earliest proof never costs the  *)
(* indexer anything, whatever was submitted again, later or in one block.  *)
(***************************************************************************)
ExtraProofsDoNotMatter ==
    Resolved => \A i \in DOMAIN percent :
        percent[i] = Max({resolveDelaySubmitStakePercent(cfg, h,
                            [p EXCEPT !.status = resolveValidStakeProofStatus(cfg, p)]) :
                              p \in Matching(i)})

(***************************************************************************)
(* What is divided never exceeds what it is divided from once amounts are  *)
(* truncated, and misses it by less than one unit per party; with rounding *)
(* the two differ by at most half a unit per party.  Both for the unlocked *)
(* reward over the indexers and for an indexer's pool over its stakers.    *)
(***************************************************************************)
Divided(sum, whole, parties) ==
    IF shouldUseRewardTruncation(cfg, h)
    THEN sum <= whole /\ whole - sum < parties
    ELSE 2 * (sum - whole) <= parties /\ 2 * (whole - sum) <= parties

AllocationIsBounded ==
    pc = "done" =>
        /\ unlocked <= in.block.reward
        /\ Divided(SumFunction([i \in DOMAIN shares |-> shares[i].first]), unlocked,
                   Cardinality(DOMAIN shares))
        /\ \A i \in DOMAIN shares :
             LET s == shares[i] IN
             /\ s.own <= s.first
             /\ Divided(SumFunction(s.users), s.first - s.own,
                        Cardinality({u \in DOMAIN s.users : in.stakes[i][u] > 0}))

(***************************************************************************)
(* docs/REWARD_ALLOCATION_RULES.md: the release percentage is that of the  *)
(* highest configured tier that starts at or below the reward height.      *)
(***************************************************************************)
ReleaseIsHighestReachedTier ==
    Loaded =>
        LET reached == {k \in 1 .. Len(cfg.tiers) : cfg.tiers[k].start <= h}
        IN  \A k \in reached :
               (\A j \in reached : cfg.tiers[j].start <= cfg.tiers[k].start)
               => resolveRewardReleasePercent(cfg, h) = cfg.tiers[k].percent
=============================================================================
