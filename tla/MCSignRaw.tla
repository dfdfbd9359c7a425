----------------------------- MODULE MCSignRaw -----------------------------
(***************************************************************************)
(* Model-checking instances of SignRaw.  Three keys; previous transaction  *)
(* t1 has a pay-to-key-hash output (k1) and a 2-of-3 multisig output, t2   *)
(* has a spent output 0 and a P2SH output 1 (2-of-2 of k2, k3).  The base  *)
(* transactions spend both outputs of t1 into one output (so SINGLE on     *)
(* input 2 has no output), differ only in their output (so a signature of  *)
(* one is stale for the other), spend t2's outputs, or have fewer inputs   *)
(* than the merge target.                                                  *)
(***************************************************************************)
EXTENDS SignRaw

CONSTANTS k1, k2, k3, t1, t2, o1, o2

MCKeys     == {k1, k2, k3}
MCTxIds    == {t1, t2}
MCPayloads == {o1, o2}

FINAL == 1   \* nSequence left at its default (maximum) value

(* The redeem script of t2's P2SH output.                                  *)
Inner == MultiSig(2, <<k2, k3>>)

MCBackend ==
  [t \in MCTxIds |->
     IF t = t1 THEN <<PubKeyHash(k1), MultiSig(2, <<k1, k2, k3>>)>>
     ELSE <<Spent, ScriptHash(Inner)>>]

(* A caller's wallet, or a privatekeys array (bad: one does not decode).  *)
Wallet(keys, scripts) == [given |-> FALSE, keys |-> keys, scripts |-> scripts,
                          bad |-> FALSE]
Given(keys, bad)      == [given |-> TRUE, keys |-> keys, scripts |-> {},
                          bad |-> bad]

TxA     == [vin |-> <<TxIn(t1, 0, FINAL), TxIn(t1, 1, FINAL)>>, vout |-> <<o1>>]
TxB     == [vin |-> <<TxIn(t1, 0, FINAL), TxIn(t1, 1, FINAL)>>, vout |-> <<o2>>]
TxShort == [vin |-> <<TxIn(t1, 1, FINAL)>>, vout |-> <<o1>>]
TxT2    == [vin |-> <<TxIn(t2, 0, FINAL), TxIn(t2, 1, FINAL)>>, vout |-> <<o1>>]

(* Hints: one that contradicts the chain's multisig script for (t1,1), one *)
(* that revives the spent (t2,0), the P2SH output (t2,1) with and without  *)
(* its redeem script, and a negative vout.                                 *)
Hint(t, n, script, redeem) ==
  [txid |-> t, n |-> n, script |-> script, redeem |-> redeem]
HintWrongScript == Hint(t1, 1, PubKeyHash(k3), <<>>)
HintRevive      == Hint(t2, 0, PubKeyHash(k3), <<>>)
HintSame        == Hint(t2, 1, ScriptHash(Inner), <<Inner>>)
HintNoRedeem    == Hint(t2, 1, ScriptHash(Inner), <<>>)
HintNegative    == Hint(t1, -1, PubKeyHash(k1), <<>>)

MergeBaseTxs   == {TxA, TxB}
MergeKeyArgs   == {Wallet({k1}, {}), Wallet({k2, k3}, {})}
MergeHints     == {<<>>}
MergeSigHash   == {"null", "NONE|ANYONECANPAY"}

(* Caller parameters: wallet and given keys (one that does not decode),   *)
(* sighash strings of the base types NONE and SINGLE, the absent one       *)
(* (which gives ALL) and an unknown one (sign_merge uses                   *)
(* "NONE|ANYONECANPAY"), and the hints, over base transactions the hints   *)
(* bear on and one shorter than the others.                                *)
ParamBaseTxs   == {TxA, TxT2, TxShort}
ParamKeyArgs   == {Wallet({k1, k3}, {Inner}), Given({k2}, FALSE), Given({k2}, TRUE)}
ParamHints     == {<<>>, <<HintRevive>>, <<HintSame, HintRevive>>,
                   <<HintWrongScript>>, <<HintNoRedeem>>, <<HintNegative>>}
ParamSigHash   == {"NONE", "SINGLE", "null", "BAD"}

ShortKeyArgs   == {Wallet({k1, k2}, {}), Wallet({k3}, {})}
ShortHints     == {<<>>}
ShortSigHash   == {"null"}

ShortBaseTxs == {TxA, TxShort}

=============================================================================
