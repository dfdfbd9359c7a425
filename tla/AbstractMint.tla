---------------------------- MODULE AbstractMint ----------------------------
(***************************************************************************)
(* What inittoken promises the wallet owner, without coins, funding        *)
(* transactions or output indices: each call either mints one token to     *)
(* the requested address at a fixed price, or mints nothing and costs at   *)
(* most the funding fee.  Other payments of the wallet (lottery) cost more *)
(* than the fee and may carry away tokens the wallet holds, never others.  The price is the funding fee, the token fee      *)
(* (the 1 SMLY the token transaction leaves as its fee) and, when the      *)
(* token goes to someone else, the value it carries.  InitToken is shown   *)
(* to implement this specification.                                        *)
(***************************************************************************)
EXTENDS Integers

CONSTANTS
  Initial,   \* the wallet's balance at start
  FEE,       \* the funding transaction's fee
  TOKENFEE,  \* the token transaction's fee
  TOKENOUT,  \* the value the token output carries
  MaxCalls   \* bound on the number of calls

VARIABLES
  balance, \* the wallet's spendable value
  tokens,  \* minted tokens: [id, owner]
  calls    \* calls made so far

vars == <<balance, tokens, calls>>

Init ==
  /\ balance = Initial
  /\ tokens  = {}
  /\ calls   = 0

(* A successful call: one new token, owned by dest, at the fixed price.    *)
Mint(dest) ==
  /\ calls < MaxCalls
  /\ calls'   = calls + 1
  /\ tokens'  = tokens \cup {[id |-> calls, owner |-> dest]}
  /\ balance' = balance - FEE - TOKENFEE
                        - (IF dest = "mine" THEN 0 ELSE TOKENOUT)

(* A failed call: no token; the funding fee may already be spent.          *)
Fail ==
  /\ calls < MaxCalls
  /\ calls'   = calls + 1
  /\ balance' \in {balance, balance - FEE}
  /\ UNCHANGED tokens

(* A payment out of the wallet: a positive amount plus the fee; the coins  *)
(* it spends may be outputs of the wallet's own tokens.                    *)
Pay ==
  /\ calls < MaxCalls
  /\ calls'   = calls + 1
  /\ balance' < balance - FEE
  /\ tokens'  \subseteq tokens
  /\ \A t \in tokens \ tokens' : t.owner = "mine"

Next == (\E dest \in {"mine", "foreign"} : Mint(dest)) \/ Fail \/ Pay

Spec == Init /\ [][Next]_vars

=============================================================================
