-------------------------- MODULE MCRewardAllocation --------------------------
(***************************************************************************)
(* Height 10 is the reward height.  The stages begin at 10 or above, the   *)
(* penalty steps are a few blocks, and the proofs of indexer 1 are all     *)
(* pairs over every height of the window and one block to either side.     *)
(***************************************************************************)
EXTENDS RewardAllocation, TLC

H == 10
RewardVersion == 539361536   \* 0x20260100

MCDefault == [proofWindow |-> 5, triggerBlocks |-> 2, stepBlocks |-> 2,
              stepPercent |-> 40, stage2Start |-> 20, stage3Start |-> 30,
              startReward |-> 5, stage3Blocks |-> <<1, 2, 3, 4, 5, 6, 7>>,
              tiers |-> <<[start |-> 5, percent |-> 375]>>, windows |-> {}]

Unset == [proofWindow |-> 0, triggerBlocks |-> 0, stepBlocks |-> 0,
          stepPercent |-> 0, stage2Start |-> 0, stage3Start |-> 0,
          startReward |-> 0, stage3Blocks |-> <<>>, tiers |-> <<>>, windows |-> {},
          isSet |-> {}]

\* The file has this list.
With(raw, key, list) == [raw EXCEPT ![key] = list, !.isSet = @ \cup {key}]

Phase1 == Unset
Phase2(blocks, pct) ==
    [Unset EXCEPT !.stage2Start = 1, !.stepBlocks = blocks, !.stepPercent = pct]
Phase3 == With([Unset EXCEPT !.stage2Start = 1, !.stage3Start = H],
               "stage3Blocks", <<1, 2, 4, 5, 6, 7, 8>>)
Sorted == <<[start |-> 5, percent |-> 300], [start |-> 10, percent |-> 525],
            [start |-> 11, percent |-> 1000]>>

MCRaws == {Phase1, Phase2(0, 0), Phase2(3, 30), Phase2(2, 50), Phase2(1, 25), Phase3}
          \cup {With(With(Phase2(0, 50), "tiers", Sorted),
                     "windows", {[start |-> 8, end |-> e, ids |-> {2}]}) : e \in {10, 11}}
          \cup {With(Phase1, "stage3Blocks", b) : b \in {<<1, 2, 4, 4, 5, 6, 7>>, <<>>}}
          \cup {With(Phase1, "windows", {[start |-> 8, end |-> 11, ids |-> {2, Malformed}]}),
                With(Phase1, "tiers", <<>>), [Phase1 EXCEPT !.startReward = 11]}

Block(reward) == [height |-> H, version |-> RewardVersion, reward |-> reward,
                  hash |-> "b", state |-> "s"]

Proof(i, blk, height, idx, id) ==
    [indexer |-> i, prove |-> H, hash |-> <<i, blk, "s">>, height |-> height,
     txIdx |-> idx, txid |-> id, status |-> "Pending"]

Pairs == {{Proof(1, b1, h1, x1, 1), Proof(1, b2, h2, 1, 2)} :
            b1 \in {"b"}, b2 \in {"b", "orphan"}, x1 \in {1, 2},
            h1 \in H .. H + 9, h2 \in H .. H + 9}
Others == {{}} \cup {{Proof(2, "b", h2, 1, 3)} : h2 \in {H + 1, H + 3, H + 5}}

Stakes(a, b, c) == 1 :> ("u" :> a @@ "v" :> b) @@ 2 :> ("u" :> c)

MCInputs ==
    { \* every pair of proofs of indexer 1, in every phase
      [raw |-> MCRaws, block |-> {Block(7)},
       proofs |-> {p \cup q : p \in Pairs, q \in Others},
       stakes |-> {Stakes(2, 1, 4)}, ratio |-> {1 :> 1500 @@ 2 :> 0}],
      \* every division of a small reward over small stakes, in both phases
      [raw |-> {With(Phase1, "tiers", Sorted), With(Phase2(2, 40), "tiers", Sorted)},
       block |-> {Block(a) : a \in 0 .. 12},
       proofs |-> {{Proof(1, "b", d, 1, 1), Proof(2, "b", H + 1, 1, 3)} : d \in {H + 1, H + 4}},
       stakes |-> {Stakes(x, y, z) : x \in 0 .. 3, y \in 0 .. 3, z \in {0, 1, 3}},
       ratio |-> {1 :> k @@ 2 :> 1500 : k \in {0, 500, 1500}}],
      \* versions of blocks that are not rewarded
      [raw |-> {Phase1}, block |-> {[Block(7) EXCEPT !.version = v] : v \in {536870912, 539361792}},
       proofs |-> {{}}, stakes |-> {Stakes(1, 1, 1)}, ratio |-> {1 :> 0 @@ 2 :> 0}] }

MCUnsorted ==
    {[raw |-> {With(Phase1, "tiers", <<[start |-> 11, percent |-> 1000],
                                       [start |-> 5, percent |-> 300]>>)},
      block |-> {Block(7)}, proofs |-> {{}}, stakes |-> {Stakes(1, 1, 1)},
      ratio |-> {1 :> 0 @@ 2 :> 0}]}
=============================================================================
