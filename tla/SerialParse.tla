----------------------------- MODULE SerialParse -----------------------------
(***************************************************************************)
(* What ParseLongestChain promises to the block sync loop: the blocks of   *)
(* the window Start .. End - 1 go through the three serial steps one at a  *)
(* time and in height order, until the window is exhausted or the parse    *)
(* stops.  BlockSync takes these steps as its own.                         *)
(***************************************************************************)
EXTENDS Naturals

CONSTANTS Start, End

VARIABLES phase,  \* the next serial step, or "parsed"
          at      \* Start .. at - 1 are finalised

Init == phase = "serial" /\ at = Start

SerialStart == phase = "serial" /\ at < End /\ phase' = "fast" /\ UNCHANGED at

FastBlock == phase = "fast" /\ phase' \in {"final", "parsed"} /\ UNCHANGED at

Finalize ==
    /\ phase = "final"
    /\ \/ phase' = "serial" /\ at' = at + 1
       \/ phase' = "parsed" /\ UNCHANGED at

ParseEnds == phase = "serial" /\ phase' = "parsed" /\ UNCHANGED at

Next == SerialStart \/ FastBlock \/ Finalize \/ ParseEnds

Spec == Init /\ [][Next]_<<phase, at>>
=============================================================================
