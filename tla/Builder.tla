------------------------------- MODULE Builder -------------------------------
(***************************************************************************)
(* The transaction builder, createrawtransaction (rpcrawtransaction.cpp    *)
(* 317-432): append one input per {txid, vout, sequence} object and one    *)
(* output per {address: amount} or {data: "hex:amount"} pair, failing on   *)
(* the first bad parameter.                                                *)
(*                                                                         *)
(* Widths are scaled so TLC can evaluate them: INTW stands for the 32 bits *)
(* of int, I64W for the 64 bits of int64_t.  A JSON integer is held as an  *)
(* int64 by json_spirit; get_int() casts it to int.  strtoll saturates at  *)
(* the int64 range and reads a string without digits as 0; the product     *)
(* amount * COIN wraps modulo 2^I64W (signed overflow, which the build     *)
(* compiles to a two's-complement multiply).                               *)
(***************************************************************************)
EXTENDS Integers, Sequences, FiniteSets

CONSTANTS
  INTW,        \* bits of int
  I64W,        \* bits of int64_t
  COIN,        \* base units per coin
  MAX_MONEY,   \* AmountFromValue's upper bound, in base units
  ValidAddresses, \* address strings that decode
  InputLists,  \* candidate "transactions" arguments
  SendTos      \* candidate "addresses" arguments

VARIABLES call  \* the latest call: its arguments, reply and the tx built

(* A JSON value or string argument: missing, a number, or a string with   *)
(* no digits.                                                              *)
Absent  == [t |-> "absent", v |-> 0]
Junk    == [t |-> "junk",   v |-> 0]
Num(x)  == [t |-> "int",    v |-> x]

(* Two's-complement cast to a signed w-bit integer.                        *)
Signed(x, w) == ((x + 2^(w - 1)) % 2^w) - 2^(w - 1)

(* Value::get_int(): static_cast<int> of the stored int64.                 *)
GetInt(x) == Signed(x, INTW)

(* strtoll(s, NULL, 10)                                                    *)
Strtoll(s) ==
  CASE s = Junk               -> 0
    [] s.v > 2^(I64W - 1) - 1 -> 2^(I64W - 1) - 1
    [] s.v < -(2^(I64W - 1))  -> -(2^(I64W - 1))
    [] OTHER                  -> s.v

MaxInt(a, b) == IF a >= b THEN a ELSE b

(* "hex" alone leaves amount = 0; "hex:s" sets it to strtoll(s).           *)
DataAmount(a) == IF a = Absent THEN 0 ELSE Strtoll(a)

DataValueUnwrapped(amount) == MaxInt(0, DataAmount(amount)) * COIN

(* CTxOut out(max(DEFAULT_AMOUNT, amount) * COIN, OP_RETURN << data)       *)
DataValue(amount) == Signed(MaxInt(0, DataAmount(amount)) * COIN, I64W)

(* The input loop: the first error, or the inputs built.                  *)
BuildInputs(inputs) ==
  LET bad(o) ==
        CASE o.vout = Absent                                 -> "INVALID_PARAMETER"
          [] GetInt(o.vout.v) < 0                              -> "INVALID_PARAMETER"
          [] o.seq # Absent /\ GetInt(o.seq.v) < 0              -> "INVALID_PARAMETER"
          [] OTHER                                           -> "none"
      errs == {i \in DOMAIN inputs : bad(inputs[i]) # "none"}
  IN  IF errs # {} THEN [err |-> "INVALID_PARAMETER", vin |-> <<>>]
      ELSE [err |-> "none",
            vin |-> [i \in DOMAIN inputs |->
                       [txid |-> inputs[i].txid,
                        n    |-> GetInt(inputs[i].vout.v),
                        seq  |-> IF inputs[i].seq = Absent THEN "final"
                                 ELSE GetInt(inputs[i].seq.v)]]]

(* The output loop over the pairs in order: the first error, or the      *)
(* outputs built.  AmountFromValue (outside src/) rejects a negative       *)
(* amount or one above MAX_MONEY.                                          *)
BuildOutputs(sendTo) ==
  LET addrs(k) == {sendTo[j].key : j \in 1..(k - 1)}
      bad(k) ==
        LET p == sendTo[k] IN
        CASE p.key = "data"                          -> "none"
          [] p.key \notin ValidAddresses             -> "INVALID_ADDRESS"
          [] p.key \in addrs(k)                      -> "INVALID_PARAMETER"
          [] p.amount < 0 \/ p.amount > MAX_MONEY     -> "INVALID_PARAMETER"
          [] OTHER                                   -> "none"
      errs == {k \in DOMAIN sendTo : bad(k) # "none"}
  IN  IF errs # {}
      THEN LET k == CHOOSE k \in errs : \A j \in errs : k <= j
           IN  [err |-> bad(k), vout |-> <<>>]
      ELSE [err |-> "none",
            vout |-> [k \in DOMAIN sendTo |->
                        IF sendTo[k].key = "data"
                        THEN [to |-> "OP_RETURN", value |-> DataValue(sendTo[k].amount)]
                        ELSE [to |-> sendTo[k].key, value |-> sendTo[k].amount]]]

NoCall == [inputs |-> <<>>, sendTo |-> <<>>, reply |-> "none",
           tx |-> [vin |-> <<>>, vout |-> <<>>]]

Init == call = NoCall

(* createrawtransaction(transactions, addresses): inputs are processed     *)
(* before outputs, so an input error wins.                                 *)
createrawtransaction(inputs, sendTo) ==
  LET ins  == BuildInputs(inputs)
      outs == BuildOutputs(sendTo)
      err  == IF ins.err # "none" THEN ins.err ELSE outs.err
  IN  call' = [inputs |-> inputs, sendTo |-> sendTo,
               reply  |-> IF err = "none" THEN "ok" ELSE err,
               tx     |-> IF err = "none" THEN [vin |-> ins.vin, vout |-> outs.vout]
                          ELSE [vin |-> <<>>, vout |-> <<>>]]

Next == \E inputs \in InputLists, sendTo \in SendTos :
          createrawtransaction(inputs, sendTo)

Spec == Init /\ [][Next]_call

----------------------------------------------------------------------------

(* spec 4.3: a built transaction has exactly the requested inputs (the     *)
(* given output index, the given sequence) and each data output carries    *)
(* max(0, amount) base-unit coins (369-410).                               *)
BuiltAsRequested ==
  call.reply = "ok" =>
    /\ \A i \in DOMAIN call.inputs :
          /\ call.tx.vin[i].n = call.inputs[i].vout.v
          /\ call.inputs[i].seq # Absent => call.tx.vin[i].seq = call.inputs[i].seq.v
    /\ \A k \in DOMAIN call.sendTo :
          call.sendTo[k].key = "data" =>
             call.tx.vout[k].value = DataValueUnwrapped(call.sendTo[k].amount)

(* The values COutPoint::n and CTxIn::nSequence hold: unsigned int,       *)
(* whose width is INTW here.                                               *)
Unsigned == 0..(2^INTW - 1)

(* spec 4.3 and 7: the only input errors are a missing or negative index   *)
(* and a negative sequence, so a request whose every vout and sequence is  *)
(* a value those unsigned fields hold, and whose outputs are data or       *)
(* distinct valid addresses with amounts in range, is built (the get_int   *)
(* reads and sign checks at 371-385).                                      *)
WithinRange(ins, outs) ==
  /\ \A i \in DOMAIN ins :
        /\ ins[i].vout # Absent /\ ins[i].vout.v \in Unsigned
        /\ ins[i].seq = Absent \/ ins[i].seq.v \in Unsigned
  /\ \A k \in DOMAIN outs :
        outs[k].key # "data" =>
          /\ outs[k].key \in ValidAddresses
          /\ outs[k].amount \in 0..MAX_MONEY
          /\ \A j \in 1..(k - 1) : outs[j].key # outs[k].key

ValidRequestBuilds ==
  call.reply # "none" /\ WithinRange(call.inputs, call.sendTo) => call.reply = "ok"

=============================================================================
