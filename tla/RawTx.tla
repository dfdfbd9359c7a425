------------------------------- MODULE RawTx -------------------------------
(***************************************************************************)
(* The script layer that the raw-transaction RPCs of rpcrawtransaction.cpp *)
(* call into: locking scripts, transactions, the signature-hash digest,    *)
(* and the interpreter entry points SignSignature, CombineSignatures and   *)
(* VerifyScript.  That code lives outside src/ (script.cpp), so these      *)
(* operators follow spec.md section 4.4 and the Bitcoin 0.9 semantics it   *)
(* describes.                                                              *)
(*                                                                         *)
(* Data abstraction: a key is a model value, an output's amount and script *)
(* are one model value of Payloads, and an unlocking script is the set of  *)
(* signatures it carries.  A signature records the key that made it and    *)
(* the digest it commits to, so "a signature verifies" is "its key is one  *)
(* of the script's keys and its digest is the digest of this input".       *)
(***************************************************************************)
EXTENDS Integers, Sequences, SequencesExt, FiniteSets

CONSTANTS
  Keys,       \* private/public key pairs
  TxIds,      \* identifiers of previous transactions
  Payloads    \* contents (amount and locking script) of the outputs built

----------------------------------------------------------------------------
(* Locking scripts of previous outputs, classified as Solver does.         *)

PubKeyHash(k)   == [type |-> "pubkeyhash", keys |-> <<k>>, req |-> 1]
MultiSig(m, ks) == [type |-> "multisig",   keys |-> ks,    req |-> m]
NullData        == [type |-> "nulldata",   keys |-> <<>>,  req |-> 1]

(* A pay-to-script-hash output; the hash is collision free, so it is      *)
(* represented by the redeem script itself.                                *)
ScriptHash(inner) == [type |-> "scripthash", inner |-> inner]

(* The script whose keys sign and which is the scriptCode of the digest:   *)
(* the redeem script of a P2SH output, the output's script otherwise.      *)
ScriptCode(code) == IF code.type = "scripthash" THEN code.inner ELSE code

(* The sighash types accepted by signrawtransaction (mapSigHashValues).    *)
SigHashNames ==
  {"ALL", "ALL|ANYONECANPAY", "NONE", "NONE|ANYONECANPAY",
   "SINGLE", "SINGLE|ANYONECANPAY"}

SigHashValue ==
  [n \in SigHashNames |->
     [base |-> CASE n \in {"ALL", "ALL|ANYONECANPAY"}       -> "ALL"
                 [] n \in {"NONE", "NONE|ANYONECANPAY"}     -> "NONE"
                 [] n \in {"SINGLE", "SINGLE|ANYONECANPAY"} -> "SINGLE",
      acp  |-> n \in {"ALL|ANYONECANPAY", "NONE|ANYONECANPAY",
                      "SINGLE|ANYONECANPAY"}]]

SIGHASH_ALL == SigHashValue["ALL"]

----------------------------------------------------------------------------
(* Transactions.  prevout.n is the 0-based output index of the code; the   *)
(* inputs and outputs of a transaction are 1-based TLA+ sequences.         *)

TxIn(t, n, seq) ==
  [prevout |-> [hash |-> t, n |-> n], seq |-> seq, scriptSig |-> {}]

(* The degenerate digest: SignatureHash returns the constant 1 for SINGLE  *)
(* when the input has no output of the same index.                        *)
OneHash == [kind |-> "one"]

(* SignatureHash(scriptCode, txTo, nIn, nHashType): every scriptSig is     *)
(* blanked, so the digest never depends on unlocking scripts.  ALL (and    *)
(* any base type that is neither NONE nor SINGLE) covers every input and   *)
(* output; NONE and SINGLE zero the other inputs' sequence numbers; NONE   *)
(* drops the outputs; SINGLE keeps outputs 1..i with all but the i-th     *)
(* blanked; ANYONECANPAY keeps only input i.                               *)
SignatureHash(code, tx, i, ht) ==
  IF ht.base = "SINGLE" /\ i > Len(tx.vout)
  THEN OneHash
  ELSE
    LET Covered(j) == [prevout |-> tx.vin[j].prevout,
                       seq     |-> IF j = i \/ ht.base = "ALL"
                                   THEN tx.vin[j].seq ELSE 0]
    IN [kind |-> "tx",
        ht   |-> ht,
        code |-> code,
        ins  |-> IF ht.acp THEN <<Covered(i)>>
                 ELSE [j \in DOMAIN tx.vin |-> Covered(j)],
        pos  |-> IF ht.acp THEN 1 ELSE i,
        outs |-> CASE ht.base = "NONE"   -> <<>>
                   [] ht.base = "SINGLE" ->
                        [j \in 1..i |-> IF j = i THEN tx.vout[j] ELSE "blank"]
                   [] OTHER              -> tx.vout]

MakeSig(k, code, tx, i, ht) ==
  [key |-> k, hash |-> SignatureHash(code, tx, i, ht), ht |-> ht]

(* CheckSig: the key is one of the script's keys and the digest matches.   *)
CheckSig(s, code, tx, i) ==
  /\ s.key \in Range(ScriptCode(code).keys)
  /\ s.hash = SignatureHash(ScriptCode(code), tx, i, s.ht)

(* The serialized redeem script a P2SH scriptSig pushes last, and the     *)
(* parts of a scriptSig: the redeem scripts pushed and the signatures.    *)
RedeemPush(inner) ==
  [key |-> "redeem", hash |-> [kind |-> "redeem", script |-> inner],
   ht |-> SIGHASH_ALL]

Pushed(ss) == {s.hash.script : s \in {x \in ss : x.key = "redeem"}}

Sigs(ss) == {s \in ss : s.key # "redeem"}

(* The distinct keys whose signatures in ss verify for input i.            *)
SignedKeys(ss, code, tx, i) ==
  {s.key : s \in {x \in ss : CheckSig(x, code, tx, i)}}

(* VerifyScript under SCRIPT_VERIFY_P2SH | SCRIPT_VERIFY_STRICTENC: a      *)
(* null-data output is unspendable; otherwise every signature present must *)
(* check and carry a defined hash type (STRICTENC), and at least req       *)
(* distinct keys must have signed.                                         *)
VerifyPlain(ss, code, tx, i) ==
  /\ code.type # "nulldata"
  /\ \A s \in ss : CheckSig(s, code, tx, i) /\ s.ht \in Range(SigHashValue)
  /\ Cardinality(SignedKeys(ss, code, tx, i)) >= code.req

(* With SCRIPT_VERIFY_P2SH a P2SH output needs the pushed redeem script to *)
(* match its hash and the rest of the scriptSig to satisfy that script.    *)
VerifyScript(ss, code, tx, i) ==
  IF code.type = "scripthash"
  THEN /\ Pushed(ss) = {code.inner}
       /\ VerifyPlain(Sigs(ss), code.inner, tx, i)
  ELSE VerifyPlain(ss, code, tx, i)

(* The first n of the script's keys that are in S, in pubkey order.       *)
FirstKeys(code, n, S) ==
  LET ks == SelectSeq(code.keys, LAMBDA k : k \in S)
  IN  Range(SubSeq(ks, 1, IF n < Len(ks) THEN n ELSE Len(ks)))

SignPlain(keys, code, tx, i, ht) ==
  {MakeSig(k, code, tx, i, ht) : k \in FirstKeys(code, code.req, keys)}

(* SignSignature(keystore, fromPubKey, txTo, nIn, nHashType): sign with    *)
(* the keystore's keys in pubkey order until req signatures are made.  A   *)
(* keystore is [keys, scripts].  For P2SH the keystore must know the       *)
(* redeem script (GetCScript); the redeem script is then signed and        *)
(* pushed whether or not it is completely signed.                          *)
SignSignature(keystore, code, tx, i, ht) ==
  CASE code.type = "nulldata"   -> {}
    [] code.type = "scripthash" ->
         IF code.inner \in keystore.scripts
         THEN SignPlain(keystore.keys, code.inner, tx, i, ht)
                \cup {RedeemPush(code.inner)}
         ELSE {}
    [] OTHER -> SignPlain(keystore.keys, code, tx, i, ht)

(* CombineSignatures(scriptPubKey, txTo, nIn, sig1, sig2), spec 4.4: for a *)
(* multisig script keep, in pubkey order and up to req, one verifying      *)
(* signature per key (sig1's first); otherwise prefer the candidate that   *)
(* verifies, then the non-empty one, sig1 first.                           *)
CombinePlain(code, tx, i, s1, s2) ==
  IF code.type = "multisig"
  THEN LET Good(ss, k)  == {s \in ss : s.key = k /\ CheckSig(s, code, tx, i)}
           Signers      == FirstKeys(code, code.req,
                                     {k \in Keys : Good(s1 \cup s2, k) # {}})
           Pick(k)      == IF Good(s1, k) # {} THEN CHOOSE s \in Good(s1, k) : TRUE
                           ELSE CHOOSE s \in Good(s2, k) : TRUE
       IN {Pick(k) : k \in Signers}
  ELSE IF VerifyScript(s1, code, tx, i)
          \/ (~VerifyScript(s2, code, tx, i) /\ s1 # {})
       THEN s1 ELSE s2

(* For P2SH: a side without a pushed redeem script yields the other;       *)
(* otherwise the signatures are combined under sig1's redeem script, which *)
(* is pushed again.                                                        *)
CombineSignatures(code, tx, i, s1, s2) ==
  IF code.type = "scripthash"
  THEN CASE Pushed(s1) = {} -> s2
         [] Pushed(s2) = {} -> s1
         [] OTHER ->
              LET inner == CHOOSE r \in Pushed(s1) : TRUE
              IN  CombinePlain(inner, tx, i, Sigs(s1), Sigs(s2))
                    \cup {RedeemPush(inner)}
  ELSE CombinePlain(code, tx, i, s1, s2)

=============================================================================
