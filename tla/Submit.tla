------------------------------- MODULE Submit -------------------------------
(***************************************************************************)
(* The submission gateway, sendrawtransaction (rpcrawtransaction.cpp       *)
(* 772-835), against the shared chain tip and mempool, which blocks and    *)
(* peer transactions change between calls.  The handler is not threadSafe, *)
(* so it runs under cs_main like block and peer processing: each handler   *)
(* call, each block and each peer transaction is one atomic step.          *)
(*                                                                         *)
(* A transaction is a record [id, ins, nout, fee, valid]: its id, the set  *)
(* of outpoints it spends, its number of outputs, its fee class (low, a    *)
(* normal one, or above the insane-fee limit) and whether its scripts      *)
(* verify.  AcceptToMemoryPool, block connection and peer relay are        *)
(* outside src/ and follow Bitcoin 0.9 (main.cpp) as spec 4.5 describes.   *)
(***************************************************************************)
EXTENDS Integers, FiniteSets

CONSTANTS
  UserTxs,      \* transactions callers submit through the gateway
  PeerTxs,      \* transactions peers relay to the node
  GenesisCoins, \* unspent outpoints of the initial chain tip
  GenesisIds    \* ids of the transactions confirmed initially

VARIABLES
  chainCoins, \* unspent outpoints of pcoinsTip
  confirmed,  \* ids of confirmed transactions
  mempool,    \* transactions in the mempool
  synced,     \* ids the gateway passed to SyncWithWallets
  accepted,   \* ids the gateway has admitted so far (history)
  call        \* the gateway call made by the latest step, if any

vars == <<chainCoins, confirmed, mempool, synced, accepted, call>>

Replies == {"none", "ok", "REJECTED", "TRANSACTION_ERROR", "ALREADY_IN_CHAIN"}

Outs(tx) == {[hash |-> tx.id, n |-> n] : n \in 0..(tx.nout - 1)}

----------------------------------------------------------------------------
(* The outpoints the mempool-backed view holds: the tip's unspent ones     *)
(* and the outputs of mempool transactions.                                *)
Available == chainCoins \cup UNION {Outs(m) : m \in mempool}

(* HaveCoins(id) of a view over the tip: some output of id is unspent, or  *)
(* id is confirmed with all outputs spent and its pruned entry is still    *)
(* in the tip's cache (cached); a flush erases it.                         *)
HaveCoins(id, cached) ==
  \/ \E o \in Available : o.hash = id
  \/ cached /\ id \in confirmed

(* AcceptToMemoryPool(pool, state, tx, fLimitFree, pfMissingInputs,        *)
(* fRejectInsaneFee), in its order of checks.  invalid is state.IsInvalid: *)
(* spent inputs, fees below the minimum under fLimitFree, bad scripts.     *)
AcceptToMemoryPool(tx, cached, fLimitFree, fRejectInsaneFee) ==
  LET No(inv) == [ok |-> FALSE, invalid |-> inv]
  IN  CASE tx \in mempool                                  -> No(FALSE)
        [] \E m \in mempool : m.ins \cap tx.ins # {}         -> No(FALSE)
        [] HaveCoins(tx.id, cached)                         -> No(FALSE)
        [] \E o \in tx.ins : ~HaveCoins(o.hash, cached)      -> No(FALSE)
        [] ~(tx.ins \subseteq Available)                    -> No(TRUE)
        [] fLimitFree /\ tx.fee = "low"                     -> No(TRUE)
        [] fRejectInsaneFee /\ tx.fee = "insane"            -> No(FALSE)
        [] ~tx.valid                                        -> No(TRUE)
        [] OTHER                         -> [ok |-> TRUE, invalid |-> FALSE]

----------------------------------------------------------------------------
(* sendrawtransaction                                                      *)

(* view.GetCoins(hashTx, ...) on pcoinsTip: true while one of its outputs *)
(* is unspent, and for a fully spent confirmed transaction only while its  *)
(* pruned entry is still cached.                                           *)
HaveChain(tx, cached) ==
  \/ \E o \in chainCoins : o.hash = tx.id
  \/ cached /\ tx.id \in confirmed

(* The reply of the admission branch: throw REJECTED when the state is     *)
(* invalid, TRANSACTION_ERROR otherwise.                                   *)
AdmissionReply(r) ==
  CASE r.ok      -> "ok"
    [] r.invalid -> "REJECTED"
    [] OTHER     -> "TRANSACTION_ERROR"

OutcomeNoChainThrow(tx, override, cached) ==
  IF tx \notin mempool /\ ~HaveChain(tx, cached)
  THEN LET r == AcceptToMemoryPool(tx, cached, FALSE, ~override)
       IN  [admit |-> r.ok, reply |-> AdmissionReply(r),
            relay |-> AdmissionReply(r) = "ok"]
  ELSE [admit |-> FALSE, reply |-> "ok", relay |-> TRUE]

(* What the handler does: admit or not, its reply, relay or not.          *)
Outcome(tx, override, cached) ==
  LET fHaveMempool == tx \in mempool
      fHaveChain   == HaveChain(tx, cached)
  IN  CASE ~fHaveMempool /\ ~fHaveChain ->
             LET r == AcceptToMemoryPool(tx, cached, FALSE, ~override)
             IN  [admit |-> r.ok, reply |-> AdmissionReply(r),
                  relay |-> AdmissionReply(r) = "ok"]
        [] fHaveChain ->
             [admit |-> FALSE, reply |-> "ALREADY_IN_CHAIN", relay |-> FALSE]
        [] OTHER ->
             [admit |-> FALSE, reply |-> "ok", relay |-> TRUE]

NoCall == [tx |-> "none", override |-> FALSE, reply |-> "none",
           relay |-> FALSE, prior |-> FALSE]

Init ==
  /\ chainCoins = GenesisCoins
  /\ confirmed  = GenesisIds
  /\ mempool    = {}
  /\ synced     = {}
  /\ accepted   = {}
  /\ call       = NoCall

(* sendrawtransaction(hex, allowhighfees) of tx; an admitted tx is synced *)
(* with the wallets and relayed.                                           *)
sendrawtransaction(tx, override, cached) ==
  LET o == Outcome(tx, override, cached)
  IN  /\ mempool'  = IF o.admit THEN mempool \cup {tx} ELSE mempool
      /\ synced'   = IF o.admit THEN synced \cup {tx.id} ELSE synced
      /\ accepted' = IF o.reply = "ok" THEN accepted \cup {tx.id} ELSE accepted
      /\ call'     = [tx |-> tx, override |-> override, reply |-> o.reply,
                      relay |-> o.relay, prior |-> tx.id \in accepted]
      /\ UNCHANGED <<chainCoins, confirmed>>

(* A block confirming one mempool transaction whose inputs are in the tip. *)
ConnectBlock(tx) ==
  /\ tx \in mempool
  /\ tx.ins \subseteq chainCoins
  /\ chainCoins' = (chainCoins \ tx.ins) \cup Outs(tx)
  /\ confirmed'  = confirmed \cup {tx.id}
  /\ mempool'    = mempool \ {tx}
  /\ call' = NoCall
  /\ UNCHANGED <<synced, accepted>>

(* A peer's transaction, admitted with fLimitFree and no insane-fee check. *)
PeerTransaction(tx, cached) ==
  /\ AcceptToMemoryPool(tx, cached, TRUE, FALSE).ok
  /\ mempool' = mempool \cup {tx}
  /\ call' = NoCall
  /\ UNCHANGED <<chainCoins, confirmed, synced, accepted>>

Next ==
  \/ \E tx \in UserTxs, override \in BOOLEAN, cached \in BOOLEAN :
       sendrawtransaction(tx, override, cached)
  \/ \E tx \in mempool : ConnectBlock(tx)
  \/ \E tx \in PeerTxs, cached \in BOOLEAN : PeerTransaction(tx, cached)

Spec == Init /\ [][Next]_vars

----------------------------------------------------------------------------

(* After a call that replies success or relays, the transaction is in the *)
(* mempool: a failed AcceptToMemoryPool is never reported as success or    *)
(* relayed, and neither is a transaction the chain already holds, whatever *)
(* blocks and peers did before the call (816-834).                         *)
GatewaySuccessIsPooled ==
  call.reply = "ok" \/ call.relay => call.tx \in mempool

(* spec 4.5 and 8: submitting a transaction the gateway already admitted   *)
(* fails with AlreadySubmitted (ALREADY_IN_CHAIN here) and is not relayed  *)
(* again (816-832).                                                         *)
SecondSubmitAlreadySubmitted ==
  call.prior => call.reply = "ALREADY_IN_CHAIN" /\ ~call.relay

(* spec 4.5: allowhighfees is the caller's flag to bypass minimum-fee      *)
(* rejection, so a below-minimum-fee transaction is admitted by the        *)
(* gateway only when the caller set it (805, 820).                         *)
LowFeeNeedsOverride ==
  (call.reply = "ok" /\ ~call.prior /\ call.tx.fee = "low") => call.override

=============================================================================
