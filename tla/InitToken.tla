------------------------------ MODULE InitToken ------------------------------
(***************************************************************************)
(* inittoken (rpcrawtransaction.cpp 1192-1306) and its helpers             *)
(* makeInputTransactionForToken (1142-1162) and signrawtokentransaction    *)
(* (867-955): pay 1001 SMLY to the wallet's first address-book entry,      *)
(* find the 1001 output of that funding transaction, commit a file to it,  *)
(* build a transaction spending it into 1000 SMLY to the caller's address  *)
(* and an OP_RETURN carrying the token id, sign it with the wallet and     *)
(* submit it.  lottery (837-865) pays an amount out of the same wallet    *)
(* and listunspent (203-314) lists its coins.  The handlers are not        *)
(* threadSafe, so a call holds cs_main and the wallet lock throughout and  *)
(* is one atomic step; a throw ends the step but keeps what a payment      *)
(* already committed.                                                      *)
(*                                                                         *)
(* Amounts are whole SMLY (the COIN factor cannot overflow at 1001).  An   *)
(* output is [tx, n, value, owner, fromToken]: owner "mine" when the       *)
(* wallet holds its key, "foreign" otherwise, fromToken when its           *)
(* transaction carries an OP_RETURN.  The wallet's coin selection and fee  *)
(* (SendMoneyToDestination, ...2) and AcceptToMemoryPool are outside      *)
(* src/ and follow Bitcoin 0.9.                                            *)
(***************************************************************************)
EXTENDS Integers, Sequences, FiniteSets, FiniteSetsExt, Functions

CONSTANTS
  FirstEntryOwner, \* owner of mapAddressBook.begin(): "mine" or "foreign"
  Dests,           \* the smlyaddress argument: "mine", "foreign", "invalid"
  GenesisCoins,    \* the wallet's spendable outputs at start
  FEE,             \* the wallet's fee for the funding transaction
  INSANE,          \* fees above this are rejected as insane
  MAX_MONEY,       \* AmountFromValue's upper bound, in whole SMLY
  LotteryAmounts,  \* the amount argument of lottery
  MinConfs,        \* the minconf argument of listunspent
  MaxConfs,        \* the maxconf argument of listunspent
  AddressArgs,     \* the addresses argument of listunspent, as sequences
                   \* of "mine", "foreign", "invalid"
  MaxCalls         \* bound on the number of calls

ASSUME FEE \in Nat /\ INSANE \in Nat /\ MaxCalls \in Nat

VARIABLES
  coins,  \* unspent outputs in the chain and mempool
  calls,  \* calls made so far
  call    \* the latest call: its reply and the funding it made

vars == <<coins, calls, call>>

PAYMENT == 1001  \* makeInputTransactionForToken(1001)
TOKENOUT == 1000 \* CTxOut out(1000 * COIN, ...)

Owners == {"mine", "foreign"}

WalletValue(cs) == MapThenSumSet(LAMBDA c : c.value,
                                 {c \in cs : c.owner = "mine"})

Output(txid, n, value, owner, fromToken) ==
  [tx |-> txid, n |-> n, value |-> value, owner |-> owner,
   fromToken |-> fromToken]

----------------------------------------------------------------------------
(* The wallet's payments (CWallet, outside src/, as in Bitcoin 0.9).       *)

(* The coins each sending call may select: SendMoneyToDestination2 skips   *)
(* outputs of transactions carrying an OP_RETURN (the comment at 1154);    *)
(* SendMoneyToDestination, which lottery uses, may take any coin.          *)
Selectable(cs)  == {c \in cs : c.owner = "mine"}
Selectable2(cs) == {c \in cs : c.owner = "mine" /\ ~c.fromToken}

Covers(sel, amount) ==
  /\ sel # {}
  /\ MapThenSumSet(LAMBDA c : c.value, sel) >= amount + FEE

(* CreateTransaction: the selected coins (sel) pay amount to payTo and the *)
(* change, if any, goes back to the wallet at a random position           *)
(* (changeFirst).  The result is the outputs in order, as [value, owner].  *)
PaymentVout(sel, changeFirst, amount, payTo) ==
  LET change  == MapThenSumSet(LAMBDA c : c.value, sel) - amount - FEE
      pay     == [value |-> amount, owner |-> payTo]
      chg     == [value |-> change, owner |-> "mine"]
  IN  CASE change = 0   -> <<pay>>
        [] changeFirst  -> <<chg, pay>>
        [] OTHER        -> <<pay, chg>>

(* SendMoney fails, and spends nothing, when the wallet is locked or no   *)
(* selection covers the amount and fee ("Insufficient funds").            *)
CanSend(sel, amount, locked, pool) ==
  IF locked \/ ~\E s \in SUBSET pool : Covers(s, amount)
  THEN sel = {}
  ELSE Covers(sel, amount)

(* The coins after a committed payment: the selection spent, the outputs  *)
(* of the new transaction txid added.                                      *)
AfterPayment(cs, sel, txid, vout) ==
  (cs \ sel) \cup
    {Output(txid, i - 1, vout[i].value, vout[i].owner, FALSE) : i \in 1..Len(vout)}

(* makeInputTransactionForToken(1001): SendMoneyToDestination2 to the     *)
(* first address-book entry.                                               *)
makeInputTransactionForToken(dest, sel, changeFirst) ==
  PaymentVout(sel, changeFirst, PAYMENT, FirstEntryOwner)

(* The scan for the 1001 output: the index of the first output worth     *)
(* 1001, or Len(vout) when none is.  Indices are 0-based as in the code.   *)
ScanFromOne(vout) ==
  LET hits == {i \in 1..Len(vout) : vout[i].value = PAYMENT}
  IN  IF hits = {} THEN Len(vout) + 1 ELSE Min(hits)

FundingOutputIndex(vout) ==
  LET hits == {i \in 1..Len(vout) : vout[i].value = PAYMENT}
  IN  IF hits = {} THEN Len(vout) ELSE Min(hits) - 1

(* signrawtokentransaction with the wallet keystore and SIGHASH_ALL: the   *)
(* single input is signed when the view has the output and the wallet     *)
(* holds its key; fComplete is computed but not returned.                  *)
SignsTokenInput(vout, nOutput) ==
  nOutput < Len(vout) /\ vout[nOutput + 1].owner = "mine"

(* AcceptToMemoryPool(mempool, state, tx, false, NULL, true) of the token  *)
(* transaction, and the reply inittoken throws or returns.  The checks     *)
(* follow Bitcoin 0.9's order: a missing input is invalid (REJECTED), an   *)
(* insane fee fails without an invalid state (TRANSACTION_ERROR), then     *)
(* CheckInputs rejects value out above value in and a missing signature.   *)
SubmitReply(vout, nOutput, signed) ==
  CASE nOutput >= Len(vout)                        -> "REJECTED"
    [] vout[nOutput + 1].value - TOKENOUT > INSANE -> "TRANSACTION_ERROR"
    [] vout[nOutput + 1].value < TOKENOUT          -> "REJECTED"
    [] ~signed                                     -> "REJECTED"
    [] OTHER                                       -> "ok"

----------------------------------------------------------------------------

NoCall == [op |-> "none", reply |-> "none", dest |-> "none", funding |-> <<>>,
           nOutput |-> 0, listed |-> {}]

Init ==
  /\ coins = GenesisCoins
  /\ calls = 0
  /\ call  = NoCall

(* inittoken(smlyaddress, pathToFile) with the wallet locked or not, its   *)
(* coin choice sel and change position changeFirst.                       *)
inittoken(dest, locked, sel, changeFirst) ==
  /\ calls < MaxCalls
  /\ calls' = calls + 1
  /\ CanSend(sel, PAYMENT, locked, Selectable2(coins))
  /\ IF sel = {}
     THEN \* SendMoneyToDestination2 fails: RPC_WALLET_ERROR, nothing spent
          /\ call' = [NoCall EXCEPT !.op = "inittoken", !.reply = "WALLET_ERROR",
                                    !.dest = dest]
          /\ UNCHANGED coins
     ELSE
       LET fid     == <<"fund", calls>>
           tid     == <<"token", calls>>
           vout    == makeInputTransactionForToken(dest, sel, changeFirst)
           funded  == AfterPayment(coins, sel, fid, vout)
           nOutput == FundingOutputIndex(vout)
           input   == {c \in funded : c.tx = fid /\ c.n = nOutput}
           reply   == IF dest = "invalid" THEN "INVALID_ADDRESS"
                      ELSE SubmitReply(vout, nOutput,
                                       SignsTokenInput(vout, nOutput))
           after   == IF reply = "ok"
                      THEN (funded \ input) \cup
                             {Output(tid, 0, TOKENOUT, dest, TRUE)}
                      ELSE funded
       IN  /\ coins' = after
           /\ call'  = [op |-> "inittoken", reply |-> reply, dest |-> dest,
                        funding |-> vout, nOutput |-> nOutput, listed |-> {}]

(* lottery(amount) (837-865): AmountFromValue, EnsureWalletIsUnlocked, then *)
(* SendMoneyToDestination of amount to the fixed lottery address.          *)
lottery(amount, locked, sel, changeFirst) ==
  /\ calls < MaxCalls
  /\ calls' = calls + 1
  /\ CASE amount <= 0 \/ amount > MAX_MONEY ->
            /\ sel = {} /\ ~changeFirst
            /\ call' = [NoCall EXCEPT !.op = "lottery", !.reply = "TYPE_ERROR"]
            /\ UNCHANGED coins
       [] locked ->
            /\ sel = {} /\ ~changeFirst
            /\ call' = [NoCall EXCEPT !.op = "lottery", !.reply = "WALLET_UNLOCK_NEEDED"]
            /\ UNCHANGED coins
       [] OTHER ->
            /\ CanSend(sel, amount, FALSE, Selectable(coins))
            /\ IF sel = {}
               THEN /\ call' = [NoCall EXCEPT !.op = "lottery", !.reply = "WALLET_ERROR"]
                    /\ UNCHANGED coins
               ELSE /\ coins' = AfterPayment(coins, sel, <<"lottery", calls>>,
                                    PaymentVout(sel, changeFirst, amount, "foreign"))
                    /\ call' = [NoCall EXCEPT !.op = "lottery", !.reply = "ok"]

(* The confirmations of a coin: the model has no blocks, so the genesis    *)
(* coins stay confirmed once and every later output is in the mempool.     *)
Depth(c) == IF c.tx[1] = "genesis" THEN 1 ELSE 0

(* The address loop (254-265): the error of the first address that does    *)
(* not decode or repeats an earlier one, or "none".                        *)
AddressError(addrs) ==
  LET bad(k) == CASE addrs[k] = "invalid"                    -> "INVALID_ADDRESS"
                  [] \E j \in 1..(k - 1) : addrs[j] = addrs[k] -> "INVALID_PARAMETER"
                  [] OTHER                                  -> "none"
      errs == {k \in DOMAIN addrs : bad(k) # "none"}
  IN  IF errs = {} THEN "none" ELSE bad(Min(errs))

(* listunspent(minconf, maxconf, addresses) (203-314): a query; the        *)
(* address filter applies only when the set is not empty (273).            *)
listunspent(minconf, maxconf, addrs) ==
  LET setAddress == Range(addrs)
      err        == AddressError(addrs)
      listed     == {c \in Selectable(coins) :
                       /\ minconf <= Depth(c) /\ Depth(c) <= maxconf
                       /\ setAddress # {} => c.owner \in setAddress}
  IN  /\ call' = [NoCall EXCEPT !.op = "listunspent",
                     !.reply  = IF err = "none" THEN "ok" ELSE err,
                     !.listed = IF err = "none" THEN listed ELSE {}]
      /\ UNCHANGED <<coins, calls>>

(* The bound on calls is reached: the model stops there.                   *)
Stopped ==
  /\ calls = MaxCalls
  /\ UNCHANGED vars

Next ==
  \/ \E dest \in Dests, locked, changeFirst \in BOOLEAN,
        sel \in SUBSET Selectable2(coins) :
       inittoken(dest, locked, sel, changeFirst)
  \/ \E amount \in LotteryAmounts, locked, changeFirst \in BOOLEAN,
        sel \in SUBSET Selectable(coins) :
       lottery(amount, locked, sel, changeFirst)
  \/ \E minconf \in MinConfs, maxconf \in MaxConfs, addrs \in AddressArgs :
       listunspent(minconf, maxconf, addrs)
  \/ Stopped

Spec == Init /\ [][Next]_vars

----------------------------------------------------------------------------

(* spec 4.6 a: the funding transaction sends the 1001 to the wallet       *)
(* itself (makeInputTransactionForToken, 1147-1155).                       *)
FundingIsSelfAddressed ==
  \A i \in DOMAIN call.funding :
     call.funding[i].value = PAYMENT => call.funding[i].owner = "mine"

(* The wallet's balance and the tokens its calls minted, as AbstractMint   *)
(* sees them: a token is an output of a transaction carrying an OP_RETURN. *)
Abstract == INSTANCE AbstractMint WITH
              Initial  <- WalletValue(GenesisCoins),
              TOKENFEE <- PAYMENT - TOKENOUT,
              balance  <- WalletValue(coins),
              tokens   <- {[id |-> c.tx[2], owner |-> c.owner] :
                             c \in {c \in coins : c.fromToken}}

(* The wallet's calls implement AbstractMint: over any sequence of         *)
(* inittoken, lottery and listunspent calls, an inittoken either mints     *)
(* exactly one token to the requested address and charges the fixed       *)
(* price, or mints nothing and charges at most the funding fee, and never  *)
(* spends an earlier token's output, even though the handler pays before   *)
(* it can fail and picks the token input by scanning for a value           *)
(* (1203-1224, 1258-1306); a lottery payment costs more than the fee and   *)
(* only the wallet's own tokens can go with it (860).                      *)
MintRefinesAbstract == Abstract!Spec

=============================================================================
