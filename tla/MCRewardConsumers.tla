-------------------------- MODULE MCRewardConsumers --------------------------
(***************************************************************************)
(* Instances of RewardConsumers for TLC: five or six blocks, phase 2 from  *)
(* the second one on with a proof window of one or two blocks, two stake   *)
(* addresses.  The first block binds and funds the first, a later one the  *)
(* second; one block has two versions, of which only one holds a proof.    *)
(***************************************************************************)
EXTENDS RewardConsumers

CONSTANTS MCWindow, MCStart, MCAddrUsers

MCCfg == [proofWindow |-> MCWindow, triggerBlocks |-> 1, stepBlocks |-> MCWindow,
          stepPercent |-> 100, stage2Start |-> 2, stage3Start |-> 0, startReward |-> MCStart,
          stage3Blocks |-> <<1, 2, 3, 4, 5, 6, 7>>,
          tiers |-> <<[start |-> 0, percent |-> 1000]>>, windows |-> {}]

MCUserOf == [a \in {1, 2} |-> MCAddrUsers[a]]
MCOneEach == <<"u1", "u2">>
MCSameUser == <<"u1", "u1">>

Proves(h, fork) == [prove |-> h, hash |-> computeStakeProofHash(Indexer, fork, fork)]

\* Every block proves the one before it; the proof of the third block is only
\* in one of the two fourth blocks.
MCContents(h) ==
    {[hash |-> fork, reward |-> 10, binds |-> IF h \in {1, 2} THEN {h} ELSE {},
      delta |-> [a \in {1, 2} |-> IF h = a THEN 2 * a ELSE IF h = 3 /\ a = 1 THEN -1 ELSE 0],
      proofs |-> IF h > 1 /\ ~(h = 4 /\ fork = 2) THEN {Proves(h - 1, 1)} ELSE {}] :
        fork \in IF h = 4 THEN {1, 2} ELSE {1}}
=============================================================================
