---------------------------- MODULE MCBlockSync ----------------------------
(***************************************************************************)
(* A block tree with two branches from height 2 on.                        *)
(*                                                                         *)
(*     a1 - a2 - a3 - a4        A is bound in a1, D in a3 and in b2;       *)
(*       \                      C is a reward claim sender.                *)
(*        b2 - b3 - b4                                                     *)
(*                                                                         *)
(* The same transactions are mined at different heights of the branches:   *)
(* s1 is spent into s2 in a2 and in b3, d1 is paid in a3 and in b2, x is   *)
(* paid in a2, where it is spent at once, and in b4.                       *)
(***************************************************************************)
EXTENDS BlockSync, TLC

CONSTANTS a1, a2, a3, a4, b2, b3, b4, s1, s2, s3, c1, d1, x, A, C, D

MCBlock == {a1, a2, a3, a4, b2, b3, b4}
MCOutpoint == {s1, s2, s3, c1, d1, x}
MCAddr == {A, C, D}

MCParent == a1 :> NoBlock @@ a2 :> a1 @@ a3 :> a2 @@ a4 :> a3
            @@ b2 :> a1 @@ b3 :> b2 @@ b4 :> b3

\* b2 competes with a1 for the first indexed height.
MCParentFirst == [MCParent EXCEPT ![b2] = NoBlock]

MCNews == a1 :> {s1, c1} @@ a2 :> {s2, x} @@ a3 :> {d1} @@ a4 :> {s3}
          @@ b2 :> {d1} @@ b3 :> {s2} @@ b4 :> {x}

MCSpends == a1 :> {} @@ a2 :> {s1, x} @@ a3 :> {c1} @@ a4 :> {d1, s2}
            @@ b2 :> {} @@ b3 :> {s1, d1} @@ b4 :> {s2}

MCBinds == a1 :> <<A>> @@ a2 :> <<>> @@ a3 :> <<D>> @@ a4 :> <<>>
           @@ b2 :> <<D>> @@ b3 :> <<>> @@ b4 :> <<>>

MCOwner == s1 :> A @@ s2 :> A @@ s3 :> A @@ x :> A @@ c1 :> C @@ d1 :> D

MCClaimSenders == {C}
=============================================================================
