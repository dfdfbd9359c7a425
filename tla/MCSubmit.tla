------------------------------ MODULE MCSubmit ------------------------------
(***************************************************************************)
(* Model-checking instance of Submit.  The genesis transaction g has two   *)
(* unspent outputs.  Callers submit A (spends g:0), its low-fee child B    *)
(* (spends A's only output, so confirming both leaves A fully spent), D    *)
(* (spends g:1, bad scripts) and E (spends g:1, insane fee).  A peer       *)
(* relays C, a double spend of g:0.                                        *)
(***************************************************************************)
EXTENDS Submit

CONSTANTS g, a, b, c, d, e

Out(id, n) == [hash |-> id, n |-> n]

TxA == [id |-> a, ins |-> {Out(g, 0)}, nout |-> 1, fee |-> "normal", valid |-> TRUE]
TxB == [id |-> b, ins |-> {Out(a, 0)}, nout |-> 1, fee |-> "low",    valid |-> TRUE]
TxC == [id |-> c, ins |-> {Out(g, 0)}, nout |-> 1, fee |-> "normal", valid |-> TRUE]
TxD == [id |-> d, ins |-> {Out(g, 1)}, nout |-> 1, fee |-> "normal", valid |-> FALSE]
TxE == [id |-> e, ins |-> {Out(g, 1)}, nout |-> 1, fee |-> "insane", valid |-> TRUE]

MCUserTxs      == {TxA, TxB, TxD, TxE}
MCPeerTxs      == {TxC}
MCGenesisCoins == {Out(g, 0), Out(g, 1)}
MCGenesisIds   == {g}

=============================================================================
