------------------------------ MODULE IndexLog ------------------------------
(***************************************************************************)
(* What the block indexer promises to the readers of sync_blocks: the      *)
(* committed rows are a log of blocks, one per height, that only grows at  *)
(* its end or is cut back to a prefix.  A committed hash is never replaced *)
(* in place and never missing below another committed height.              *)
(***************************************************************************)
EXTENDS Naturals

CONSTANT Block

VARIABLE log

Init == log = <<>>

\* Blocks at heights from 1 on, with no gap below any of them.
IsLog(f) ==
    \A i \in DOMAIN f : /\ i >= 1 /\ 1 .. i \subseteq DOMAIN f
                        /\ f[i] \in Block

\* `shorter' is a proper prefix of `longer'.
IsPrefixOf(shorter, longer) ==
    /\ DOMAIN shorter \subseteq DOMAIN longer /\ DOMAIN shorter # DOMAIN longer
    /\ \A i \in DOMAIN shorter : shorter[i] = longer[i]

\* A batch is marked committed.
Extend == IsLog(log') /\ IsPrefixOf(log, log')

\* A rollback has deleted the rows from some height on.
Truncate == IsLog(log') /\ IsPrefixOf(log', log)

Next == Extend \/ Truncate

Spec == Init /\ [][Next]_log
=============================================================================
