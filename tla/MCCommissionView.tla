--------------------------- MODULE MCCommissionView ---------------------------
(***************************************************************************)
(* The consumers' distances from the committed tip, scaled down.           *)
(***************************************************************************)
EXTENDS CommissionView

MCLagOf == [c \in Consumers |-> IF c = "snapshot" THEN 2 ELSE 1]
==============================================================================
