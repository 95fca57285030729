-------------------------- MODULE MCProtocolHandlers --------------------------
(***************************************************************************)
(* Instances of ProtocolHandlers: two owners, one staker and chains of up  *)
(* to three blocks in which registers, stakes, proofs, claims and          *)
(* commission updates meet in every order that matters.                    *)
(***************************************************************************)
EXTENDS ProtocolHandlers

Tx(tag, user, indexer, ratio) ==
    [tag |-> tag, user |-> user, indexer |-> indexer, ratio |-> ratio, prove |-> 1,
     ok |-> TRUE, inputs |-> {"sender"}, early |-> FALSE]

First == <<1, 1>>

MCTxs ==
    <<Tx("register", "a", NoID, 500),
      Tx("register", "a", NoID, 600),                      \* the same owner again
      Tx("register", "b", NoID, 2000),                     \* above the limit
      Tx("proof", "a", First, 0),
      Tx("stake", "u", First, 0),
      Tx("stake", "u", First, 0),                          \* the same stake address
      Tx("claim", "u", NoID, 0),                           \* a legacy claim
      Tx("claim", "u", First, 0),
      Tx("commission", "a", First, 700),
      Tx("commission", "a", First, 800),
      Tx("commission", "b", First, 900),                   \* not the owner
      Tx("register", "b", NoID, 0),
      [Tx("claim", "u", First, 0) EXCEPT !.early = TRUE],
      [Tx("claim", "u", NoID, 0) EXCEPT !.inputs = {"u"}],
      [Tx("stake", "u", First, 0) EXCEPT !.ok = FALSE]>>

MCLegacy == 7 :> <<1, 2>>

Distinct(c) ==
    \A h, k \in DOMAIN c : \A i \in DOMAIN c[h], j \in DOMAIN c[k] :
        c[h][i] = c[k][j] => h = k /\ i = j

ChainsOf(b1, b2, b3) ==
    {c \in {<<x, y, z>> : x \in b1, y \in b2, z \in b3} : Distinct(c)}

MCChains ==
    ChainsOf({<<1>>, <<1, 2>>, <<2, 1>>, <<4, 12, 1>>, <<3, 1, 12>>},
             {<<2>>, <<5, 6>>, <<9, 10>>, <<11, 9>>, <<8, 13>>, <<4, 14, 15>>},
             {<<6, 2, 5>>, <<10>>, <<7, 8>>})

MCReorgChains ==
    ChainsOf({<<1>>, <<12, 1>>, <<5>>}, {<<2>>, <<5, 4>>, <<1, 8>>}, {<<6, 2>>, <<1, 4>>, <<8>>})

MCFaultChains ==
    ChainsOf({<<1>>, <<12, 2>>}, {<<2, 9>>, <<5, 4>>, <<1, 8>>}, {<<4, 9>>, <<8, 12>>, <<6>>})

\* The node keeps to one of the first chains, or changes between the others.
MCFamilies == {{c} : c \in MCChains} \cup {MCReorgChains, MCFaultChains}

MCRegisterFamilies == {{<< <<1>>, <<4>> >>}}
MCStopFamilies == {{<< <<4>>, <<1>> >>}}
MCCommissionFamilies == {{<< <<1>>, <<9>> >>, << <<1>>, <<5, 9>> >>}}
MCAbandonedFamilies == {{<< <<1>>, <<4>> >>, << <<12>>, <<8>> >>}}
==============================================================================
