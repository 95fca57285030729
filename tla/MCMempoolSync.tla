--------------------------- MODULE MCMempoolSync ---------------------------
(* Instances of MempoolSync for TLC.  Amounts are 1 and 2, so that a sum    *)
(* tells which outputs are in it.                                           *)
EXTENDS MempoolSync

CONSTANTS a1, a2

Pay(a, v) == [x \in Addr |-> IF x = a THEN v ELSE 0]
Tx(op, valid, a, v, ins) ==
    [op |-> op, valid |-> valid, addr |-> a, outs |-> Pay(a, v), ins |-> ins]

\* A stake of two on a1; a spend of it that leaves one; a plain payment to
\* a2 and a stake on it, of another user with the same indexer; a rejected
\* stake; claims.
MCTxOf == [
    stake   |-> Tx("stake", TRUE, a1, 2, {}),
    part    |-> Tx("none", TRUE, a1, 1, {<<"stake", a1>>}),
    pay     |-> Tx("none", TRUE, a2, 1, {}),
    stake2  |-> Tx("stake", TRUE, a2, 2, {}),
    spend   |-> Tx("none", TRUE, a2, 0, {<<"pay", a2>>}),
    bad     |-> Tx("stake", FALSE, a1, 1, {}),
    claim   |-> Tx("claim", TRUE, a1, 0, {}),
    support |-> Tx("support", TRUE, a1, 0, {}),
    ratio   |-> Tx("other", TRUE, a1, 0, {})]

\* One indexer with two stakers
MCIndexerOf == [x \in Addr |-> "i"]
MCUserOf == [x \in Addr |-> IF x = a2 THEN "v" ELSE "u"]

\* Two stake addresses of one user with one indexer
MCOneUser == [x \in Addr |-> "u"]
=============================================================================
