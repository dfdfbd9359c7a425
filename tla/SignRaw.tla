------------------------------ MODULE SignRaw ------------------------------
(***************************************************************************)
(* signrawtransaction (rpcrawtransaction.cpp 542-770) and the output view  *)
(* it builds, as used for multi-party signing: callers holding different   *)
(* keystores each pass one or more published transactions (the variants,   *)
(* concatenated hex) to the RPC and publish the result.                    *)
(*                                                                         *)
(* One call is one atomic action: the handler is a synchronous unit of     *)
(* work whose only lock (mempool.cs) is held while the view is warmed, and *)
(* the chain/mempool backend is fixed here (module Submit lets it move).   *)
(* The per-input loop is computed per index: iteration i reads and writes  *)
(* only input i's scriptSig, and SignatureHash blanks every scriptSig, so  *)
(* the iterations do not depend on each other.                             *)
(***************************************************************************)
EXTENDS RawTx

CONSTANTS
  Backend,        \* chain+mempool coins: TxIds -> NoCoins or a sequence of
                  \* locking scripts and Spent, indexed by prevout.n + 1
  BaseTxs,        \* unsigned transactions built by createrawtransaction
  KeyArgs,        \* signers callers choose: [given, keys, scripts, bad];
                  \* given = FALSE is the caller's wallet (its keys and
                  \* redeem scripts), given = TRUE the privatekeys array
                  \* (params[2]), bad when one of them does not decode
  HintLists,      \* prevout hint arrays callers pass (params[1]): each
                  \* [txid, n, script, redeem], redeem <<>> or <<script>>
  SigHashParams,  \* sighash strings callers pass (params[3]), "null" = absent
  MaxVariants,    \* most transactions concatenated in one call
  MaxCalls,       \* bound on the number of calls
  NoCoins,        \* GetCoins failed: no entry for this txid
  Spent           \* a null (spent) output inside CCoins

ASSUME MaxVariants \in Nat \ {0} /\ MaxCalls \in Nat

VARIABLES
  published,  \* transactions callers hold: BaseTxs and every result
  results,    \* history: one record per successful call
  reply,      \* outcome of the last call
  calls       \* number of calls made

vars == <<published, results, reply, calls>>

Replies == {"none", "ok", "MissingTransaction", "PrevoutScriptMismatch",
            "InvalidParameter", "InvalidKey", "WalletUnlockNeeded",
            "NegativeVout", "MissingRedeemScript", "crash"}

----------------------------------------------------------------------------
(* The view (CCoinsViewCache).                                             *)

(* CCoins::IsAvailable(n)                                                  *)
IsAvailable(coins, n) ==
  /\ coins # NoCoins
  /\ n < Len(coins)
  /\ coins[n + 1] # Spent

(* Warming (617-633): GetCoins through the chain+mempool backend for each  *)
(* input of the merge target; afterwards the backend is the dummy view, so *)
(* only the txids fetched here are known.                                  *)
WarmView(tx) ==
  LET fetched == {tx.vin[j].prevout.hash : j \in DOMAIN tx.vin}
  IN  [t \in TxIds |-> IF t \in fetched THEN Backend[t] ELSE NoCoins]

(* coins.vout.resize(nOut+1) when the index is past the end, then the      *)
(* output's script is set (nValue = 0 is not modelled: no amounts here).   *)
SetOutput(coins, n, script) ==
  LET c == IF coins = NoCoins THEN <<>> ELSE coins
      r == IF n < Len(c) THEN c
           ELSE c \o [j \in 1..(n + 1 - Len(c)) |-> Spent]
  IN  [r EXCEPT ![n + 1] = script]

IsP2SH(h) == h.script.type = "scripthash"

(* Injecting one prevout hint (661-706); acc.err records what is thrown,   *)
(* acc.scripts the redeem scripts added to the temporary keystore.         *)
InjectHintNoCheck(given, acc, h) ==
  IF acc.err # "none" THEN acc
  ELSE [acc EXCEPT !.view[h.txid] = SetOutput(@, h.n, h.script)]

InjectHint(given, acc, h) ==
  CASE acc.err # "none" -> acc
    [] h.n < 0 -> [acc EXCEPT !.err = "NegativeVout"]
    [] /\ IsAvailable(acc.view[h.txid], h.n)
       /\ acc.view[h.txid][h.n + 1] # h.script ->
         [acc EXCEPT !.err = "PrevoutScriptMismatch"]
    \* RPCTypeCheck of a P2SH hint with given keys requires redeemScript
    [] given /\ IsP2SH(h) /\ h.redeem = <<>> ->
         [acc EXCEPT !.err = "MissingRedeemScript"]
    [] OTHER ->
         [acc EXCEPT !.view[h.txid] = SetOutput(@, h.n, h.script),
                     !.scripts = IF given /\ IsP2SH(h) THEN @ \cup {h.redeem[1]}
                                 ELSE @]

ApplyHints(given, view, hints) ==
  FoldLeft(LAMBDA acc, h : InjectHint(given, acc, h),
           [view |-> view, err |-> "none", scripts |-> {}], hints)

----------------------------------------------------------------------------
(* The per-input loop (738-761).  i is 1-based: the code's test            *)
(* i < mergedTx.vout.size() on a 0-based i is i <= Len(vout) here.         *)

(* Reading txv.vin[i] of a variant with fewer inputs is out of bounds      *)
(* (undefined behaviour); when the process survives, the copied scriptSig  *)
(* is garbage, a signature that checks for nothing.                       *)
GarbageSig == [key |-> "garbage", hash |-> [kind |-> "garbage"],
               ht |-> SIGHASH_ALL]

VariantScript(v, i) ==
  IF i <= Len(v.vin) THEN v.vin[i].scriptSig ELSE {GarbageSig}

ShortVariantRead(merged, variants, view) ==
  \E i \in DOMAIN merged.vin, v \in Range(variants) :
     /\ IsAvailable(view[merged.vin[i].prevout.hash], merged.vin[i].prevout.n)
     /\ Len(v.vin) < i

(* Only sign SIGHASH_SINGLE if there's a corresponding output (750-752).   *)
FreshSignature(ks, code, merged, i, ht) ==
  IF ht.base # "SINGLE" \/ i <= Len(merged.vout)
  THEN SignSignature(ks, code, merged, i, ht)
  ELSE {}

MergeSkippingFirst(code, merged, i, fresh, variants) ==
  FoldLeft(LAMBDA acc, v : CombineSignatures(code, merged, i, acc,
                                             VariantScript(v, i)),
           fresh, Tail(variants))

(* ... and merge in other signatures (755-758): every variant, the first  *)
(* one (whose scriptSig was just cleared in the merge target) included.    *)
MergeVariants(code, merged, i, fresh, variants) ==
  FoldLeft(LAMBDA acc, v : CombineSignatures(code, merged, i, acc,
                                             VariantScript(v, i)),
           fresh, variants)

SignInputUnverified(merged, variants, view, ks, ht, i) ==
  LET po == merged.vin[i].prevout
  IN  IF ~IsAvailable(view[po.hash], po.n)
      THEN [ss |-> merged.vin[i].scriptSig, ok |-> FALSE, fresh |-> {}]
      ELSE LET code  == view[po.hash][po.n + 1]
               fresh == FreshSignature(ks, code, merged, i, ht)
           IN  [ss |-> MergeVariants(code, merged, i, fresh, variants),
                ok |-> TRUE, fresh |-> fresh]

(* One iteration: an input whose prevout the view cannot resolve is left   *)
(* as it was and makes the result incomplete; otherwise its scriptSig is   *)
(* cleared, freshly signed, merged and verified.                           *)
SignInput(merged, variants, view, ks, ht, i) ==
  LET po == merged.vin[i].prevout
  IN  IF ~IsAvailable(view[po.hash], po.n)
      THEN [ss |-> merged.vin[i].scriptSig, ok |-> FALSE, fresh |-> {}]
      ELSE LET code  == view[po.hash][po.n + 1]
               fresh == FreshSignature(ks, code, merged, i, ht)
               ss    == MergeVariants(code, merged, i, fresh, variants)
           IN  [ss |-> ss, ok |-> VerifyScript(ss, code, merged, i),
                fresh |-> fresh]

----------------------------------------------------------------------------
(* The handler.                                                            *)

(* The sighash parameter (716-733); NoHashType stands for the thrown       *)
(* "Invalid sighash param".                                                *)
NoHashType == [base |-> "invalid", acp |-> FALSE]

HashTypeOfUnchecked(shp) ==
  IF shp = "null" THEN SIGHASH_ALL
  ELSE IF shp \in SigHashNames THEN SigHashValue[shp]
  ELSE [base |-> "0", acp |-> FALSE]

HashTypeOf(shp) ==
  IF shp = "null" THEN SIGHASH_ALL
  ELSE IF shp \in SigHashNames THEN SigHashValue[shp]
  ELSE NoHashType

Init ==
  /\ published = BaseTxs
  /\ results   = {}
  /\ reply     = "none"
  /\ calls     = 0

(* Common guard and bookkeeping of a call: the node is up, calls remain.  *)
Call ==
  /\ reply # "crash"
  /\ calls < MaxCalls
  /\ calls' = calls + 1

Fail(err) ==
  /\ reply' = err
  /\ UNCHANGED <<published, results>>

(* signrawtransaction(hexstring, prevtxs, privatekeys, sighashtype), with  *)
(* the wallet locked or not.  The keystore is the temporary one when keys  *)
(* are given (710-714), the wallet otherwise.                              *)
SignRawTransaction(variants, ka, locked, hints, shp) ==
  LET merged == variants[1]
      hinted == ApplyHints(ka.given, WarmView(merged), hints)
      view   == hinted.view
      ks     == IF ka.given THEN [keys |-> ka.keys, scripts |-> hinted.scripts]
                ELSE [keys |-> ka.keys, scripts |-> ka.scripts]
      ht     == HashTypeOf(shp)
      res    == [i \in DOMAIN merged.vin |->
                   SignInput(merged, variants, view, ks, ht, i)]
      out    == [merged EXCEPT !.vin = [i \in DOMAIN merged.vin |->
                                          [merged.vin[i] EXCEPT
                                             !.scriptSig = res[i].ss]]]
  IN
  /\ Call
  /\ CASE variants = <<>>       -> Fail("MissingTransaction")
       [] ka.given /\ ka.bad    -> Fail("InvalidKey")
       [] ~ka.given /\ locked   -> Fail("WalletUnlockNeeded")
       [] hinted.err # "none"   -> Fail(hinted.err)
       [] ht = NoHashType       -> Fail("InvalidParameter")
       [] OTHER ->
            \/ /\ ShortVariantRead(merged, variants, view)
               /\ Fail("crash")
            \/ /\ published' = published \cup {out}
               /\ results' = results \cup
                    {[variants |-> variants, keystore |-> ks, view |-> view,
                      ht |-> ht, tx |-> out,
                      complete |-> \A i \in DOMAIN res : res[i].ok]}
               /\ reply' = "ok"

(* The caller stops making calls, or the node has crashed.                 *)
Stopped ==
  /\ reply = "crash" \/ calls = MaxCalls
  /\ UNCHANGED vars

Next ==
  \/ \E n \in 0..MaxVariants, ka \in KeyArgs, hints \in HintLists,
        shp \in SigHashParams :
       \E variants \in [1..n -> published],
          locked \in IF ka.given THEN {FALSE} ELSE BOOLEAN :
          SignRawTransaction(variants, ka, locked, hints, shp)
  \/ Stopped

Spec == Init /\ [][Next]_vars

----------------------------------------------------------------------------
(* Properties.                                                             *)

TypeOK ==
  /\ \A tx \in published :
        /\ tx.vout \in Seq(Payloads)
        /\ \A i \in DOMAIN tx.vin :
              /\ tx.vin[i].prevout.hash \in TxIds
              /\ \A s \in tx.vin[i].scriptSig :
                    /\ s.key \in Keys \cup {"garbage", "redeem"}
                    /\ s.ht \in Range(SigHashValue)
  /\ reply \in Replies
  /\ calls \in 0..MaxCalls
  /\ \A r \in results : r.complete \in BOOLEAN /\ r.tx \in published

(* A result flagged complete spends its inputs validly: every input whose  *)
(* previous output the chain/mempool holds as available verifies against   *)
(* that output's real script, whatever hints and variants the caller       *)
(* passed (the hint check at 679-685 and the verify at 759-760).           *)
CompleteImpliesValid ==
  \A r \in results : r.complete =>
     \A i \in DOMAIN r.tx.vin :
        LET po == r.tx.vin[i].prevout
        IN  IsAvailable(Backend[po.hash], po.n) =>
               VerifyScript(r.tx.vin[i].scriptSig, Backend[po.hash][po.n + 1],
                            r.tx, i)

(* Merging never loses a signature: for every input the view resolves, the *)
(* result carries as many verifying signatures as the variants and the     *)
(* keystore together offer, up to the number the script requires (the      *)
(* clear at 749 followed by the merge loop at 755-758).                    *)
NoSignatureLost ==
  \A r \in results : \A i \in DOMAIN r.tx.vin :
     LET po   == r.tx.vin[i].prevout
         code == r.view[po.hash][po.n + 1]
         sc   == ScriptCode(code)
         mayI == /\ r.ht.base # "SINGLE" \/ i <= Len(r.tx.vout)
                 /\ code.type = "scripthash" => code.inner \in r.keystore.scripts
         offered ==
           UNION {SignedKeys(VariantScript(v, i), code, r.tx, i) :
                    v \in Range(r.variants)}
           \cup (IF mayI /\ code.type # "nulldata"
                 THEN Range(sc.keys) \cap r.keystore.keys ELSE {})
         got == Cardinality(SignedKeys(r.tx.vin[i].scriptSig, code, r.tx, i))
     IN  IsAvailable(r.view[po.hash], po.n) =>
            got >= IF Cardinality(offered) < sc.req
                   THEN Cardinality(offered) ELSE sc.req

(* spec 7: the caller always receives a (possibly partially signed)        *)
(* transaction or an error back; the node never dies in the merge loop.    *)
SignReturnsResult == reply # "crash"

=============================================================================
