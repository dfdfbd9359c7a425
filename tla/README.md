# TLA+ models of the smileyCoin raw-transaction RPC layer

This directory holds TLA+ models of `src/src/rpcrawtransaction.cpp` and the
RPC declarations of `src/src/rpcserver.h`. The code is the raw-transaction RPC
layer of a Bitcoin-0.9 descendant, plus a token protocol built from the same
primitives. The modules are checked with TLC.

## 1. Inventory

### Components

| Component | Code | State it keeps | Operations |
|---|---|---|---|
| Codec / JSON projection | `ScriptPubKeyToJSON`, `TxToJSON`, `decoderawtransaction`, `decodescript`, `getrawtransaction` (cpp 33-200, 434-540) | none | pure formatting of a transaction; decode of hex |
| Output resolver (view) | `signrawtransaction` cpp 617-633 and 656-708 | a per-request `CCoinsViewCache` over chain + mempool, warmed under `mempool.cs`, then detached | warm, inject a prevout hint, look up |
| Transaction builder | `createrawtransaction` cpp 317-432 | none (builds one `CMutableTransaction`) | append inputs; append address and `data` outputs |
| Signing engine | `signrawtransaction` cpp 542-770, `signrawtokentransaction` cpp 867-955 | per-request: variants, merged tx, keystore, view, `fComplete` | decode variants, choose keystore, parse sighash type, per-input sign / merge / verify |
| Submission gateway | `sendrawtransaction` cpp 772-835, inittoken cpp 1260-1295 | shared: mempool, chain tip (external) | dedup against mempool and chain, admit, relay |
| Token protocol | `createtoken`, `CreateToken`, `GetHexStringFromBytes`, `makeInputTransactionForToken`, `inittoken` (cpp 957-1306) | shared: wallet, mempool (external) | commit a file to a fresh signature; fund, build, sign, submit |
| Wallet helpers | `listunspent` (203-314), `lottery` (837-865) | shared wallet (external) | filter coins; send to a fixed address |
| RPC dispatch | `CRPCTable`, `CRPCCommand::threadSafe` (rpcserver.h 64-100) | table of commands | run a handler, under `cs_main` unless `threadSafe` |

External collaborators (not in `src/`): `CCoinsViewCache`/`CCoinsViewMemPool`,
`AcceptToMemoryPool`, the script interpreter (`SignSignature`,
`CombineSignatures`, `VerifyScript`, `SignatureHash`), the wallet, `RelayTransaction`.
Where the models need them they are written from `spec.md` and marked
`spec_modelled` in `PROJECT.json`.

### How the components interact

`createrawtransaction` produces an unsigned transaction; callers pass its hex,
possibly several partially signed copies back to back, to `signrawtransaction`.
That handler warms its private view from chain+mempool (holding `mempool.cs`
only for the warming loop), applies caller-supplied prevout hints, signs each
input with the chosen keystore, merges in the same input's script of every
variant, verifies it, and returns hex plus `complete`. `sendrawtransaction`
admits a transaction to the shared mempool and relays it. `inittoken` chains
all of these: it sends 1001 SMLY to the wallet's first address-book entry
(wallet + mempool), finds that output, derives a token commitment from a file
and the funding txid, builds a 1000 + OP_RETURN transaction, signs it with the
wallet, and submits it.

### What is hard

* Merging partial signatures from several variants: signatures made over a
  different transaction (different outputs), under different sighash types,
  or over the degenerate SIGHASH_SINGLE hash; variants with fewer inputs.
* Caller-supplied prevout hints that disagree with the chain, arrive in an
  order that matters, or resurrect a spent output.
* The view is a snapshot taken under `mempool.cs`; chain and mempool move on
  afterwards (other RPC threads, blocks, peers).
* `sendrawtransaction` is check-then-act over shared mempool/chain state.
* `inittoken` is a multi-step procedure whose first step (a payment) is not
  undone when a later step fails.
* Numeric edges: `data` amount times `COIN` overflow, the 64-byte hash window
  of the token commitment, the funding-output scan that runs off the end, the
  signed-char nibble extraction of `GetHexStringFromBytes`.

### Properties that make each component correct

* Signing engine: a result flagged `complete` verifies against the real
  previous outputs; merging never loses a valid signature another variant
  contributed; the caller
  always gets a result back (no crash).
* Resolver: a hint never replaces the script of an output the chain/mempool
  says is available.
* Builder: every output amount is non-negative; addresses are unique.
* Submission: the same transaction is admitted at most once, and a second
  submission is reported as already submitted.
* Token protocol: the commitment binds both the file and the anchor txid; the
  OP_RETURN payload is the token id; the spent funding output is the 1001
  output; a failed mint does not leave the funding spent to nowhere.

## 2. Module layout

| module | models | checked by |
|---|---|---|
| `RawTx` | script layer operators (interpreter, written from spec §4.4) | through `SignRaw` |
| `SignRaw` / `MCSignRaw` | `signrawtransaction` and its view | `sign_merge`, `sign_params`, `sign_short_variant` |
| `Submit` / `MCSubmit` | `sendrawtransaction` against a moving chain and mempool | `submit_gateway`, `submit_duplicate`, `submit_fee_flag` |
| `Builder` / `MCBuilder` | `createrawtransaction` over scaled integer widths | `builder_amounts`, `builder_sequence` |
| `TokenCommit` / `MCTokenCommit` | `createtoken`, `CreateToken`, `GetHexStringFromBytes` | `token_hex`, `token_window` |
| `InitToken` / `MCInitToken` | the wallet's calls: `inittoken`, `makeInputTransactionForToken`, `signrawtokentransaction`, `lottery`, `listunspent` | `init_token`, `init_token_foreign` |
| `AbstractMint` | what an `inittoken` or `lottery` call promises the wallet owner | as the refinement property of `init_token` |

Not modelled: Codec and JSON projection (pure formatting and parsing; the
property of interest, decode∘encode = id, is byte-level), and RPC dispatch
(`rpcserver.h` only declares the table; its one effect on these handlers,
running under `cs_main` unless `threadSafe`, is why each call is one step).

## 3. Modules and runs

### `RawTx` (operators only)
Scripts (`PubKeyHash`, `MultiSig`, `NullData`, `ScriptHash`), sighash names and values as
parsed by `signrawtransaction` (`mapSigHashValues`, cpp 716-727), inputs, and
the interpreter: `SignatureHash`, `CheckSig`, `VerifyScript`,
`SignSignature`, `CombineSignatures`. A signature is the key that made it
plus the digest it commits to, so a signature made over another transaction,
or under another hash type, fails `CheckSig` exactly when the real digest
would differ. Pay-to-script-hash follows Bitcoin 0.9: `SignSignature`
signs the redeem script (`ScriptCode`) when the keystore knows it and pushes
it last (`RedeemPush`), whether or not the inner signing completed;
`CombineSignatures` takes the other side whole when one side has no push,
and otherwise merges the inner signatures against the first side's pushed
script and pushes it again; `VerifyScript` requires the pushed script to be
the hashed one and the inner script to verify. A keystore is a record of
keys and redeem scripts. These operators follow spec §4.4 (the interpreter
is not in `src/`).

### `SignRaw` / `MCSignRaw`: signing engine and output resolver
State: `published` (partially signed transactions that callers pass around),
`signed`, `results`, `reply`, `calls`. One action,
`SignRawTransaction(variants, keyArg, locked, hints, sighash)`, is one whole
call of `signrawtransaction` (cpp 592-770). It decodes the variants, warms
the view (`WarmView`), takes the given private keys (failing on one that
does not decode) or checks that the wallet is unlocked, applies the hints in
order (`ApplyHints`/`InjectHint`: a negative vout, a script that contradicts
an available output, and, with given keys, a P2SH hint without
`redeemScript` each throw; with given keys a hint's redeem script goes into
the temporary keystore), chooses the keystore (cpp 710-714), parses the
sighash (`HashTypeOf`), and then, for each input, signs, merges
every variant and verifies (`SignInput`). The call replies with an error,
returns a result, or crashes (the short-variant read). The model computes
the whole call in one step because the handler holds no lock after warming
and shares nothing with other requests (spec §5).

| run | checks | shows |
|---|---|---|
| `sign_merge` | `CompleteImpliesValid`, `NoSignatureLost` | merging stale, ANYONECANPAY and NONE signatures from two variants into either base transaction never yields a false `complete` and never drops a valid signature |
| `sign_params` | `TypeOK`, `CompleteImpliesValid`, `NoSignatureLost` | over every caller parameter (wallet or given keys, a bad key, a locked wallet, sighash strings of each base type, absent and unknown, hints that contradict the chain, revive a spent output, supply a P2SH redeem script or omit it, or have a negative vout), a complete result is valid, and no signature is lost across P2SH outputs too |
| `sign_short_variant` (violation) | `SignReturnsResult` | a variant with fewer inputs makes the loop read `txv.vin[i]` past its end |

Bounds: 3 keys, 2 previous transactions (t1: a P2PKH output and a 2-of-3
multisig output; t2: a spent output and a P2SH output whose redeem script is
a 2-of-2 multisig), base transactions of 1-2 inputs, at most 2 variants, and 2-3
calls. Every merge case needs at least two calls by different keystores (one
to publish, one to merge), and the multisig needs two signers, so these are
the smallest bounds where the cases occur.

### `TokenCommit` / `MCTokenCommit`: token commitment
State: `tokens` (one record per call) and `charSigned` (whether `char` is
signed in the build, which is implementation-defined). The action
`createtoken` reads the file into a C string (`ReadFile`, `CString`), appends
the anchor, hashes `WINDOW` bytes (`Window`), and encodes the signature
(`GetHexStringFromBytes`). Each undefined read is a nondeterministic choice:
the memory after the buffer (`Tails`), bytes read past a short preimage
(`Overreads`), and the garbage buffer of a missing file.

| run | checks | shows |
|---|---|---|
| `token_hex` | `TokenIdIsHexOfSignature` | the if/else hex encoder equals a reference encoding for all 256 bytes and two-byte strings at the signed-char edges, under signed and unsigned `char` |
| `token_window` (violation) | `CommitmentBinding` | two different files give the same digest: the file ends at its first NUL, and only the window is hashed |

The window is scaled from 64 bytes to 2 (`MCWindow`). Anchors of length 2
play inittoken's 64-digit txid, and anchors of length 1 play a shorter caller
string of `createtoken`.

### `Submit` / `MCSubmit`: submission gateway
State: `chainCoins` (pcoinsTip's unspent outpoints), `confirmed`, `mempool`,
`synced`, `accepted`, and `call` (this step's gateway call and reply).
`sendrawtransaction(tx, allowhighfees, cached)` is one whole call (cpp
772-835). `cached` says whether a fully spent confirmed transaction's pruned
entry is still in the tip cache, which decides what `GetCoins` answers. The
handler is not `threadSafe`, so it runs under `cs_main` and is atomic with
respect to `ConnectBlock` and `PeerTransaction`, which interleave between
calls. `AcceptToMemoryPool` follows Bitcoin 0.9 in its order of checks.

| run | checks | shows |
|---|---|---|
| `submit_gateway` | `GatewaySuccessIsPooled` | whatever blocks and a peer's double spend did, a success reply or a relay means the transaction is in the mempool |
| `submit_duplicate` (violation) | `SecondSubmitAlreadySubmitted` | a second submission is re-relayed and reported as success, not `AlreadySubmitted` |
| `submit_fee_flag` (violation) | `LowFeeNeedsOverride` | `allowhighfees` lifts the insane-fee limit, and low fees are admitted without it |

Bounds: one genesis transaction with two outputs; A and its low-fee child B
(confirming both leaves A fully spent, the pruned-coins case); D (bad
scripts) and E (insane fee) competing for the other output; and a peer's
double spend C of A's input. The state space is finite, so no call bound is
needed.

### `Builder` / `MCBuilder`: transaction builder
State: `call` (the latest call's arguments, reply and built transaction).
`createrawtransaction(inputs, sendTo)` is one whole call (cpp 317-432):
`BuildInputs` fails on a missing or negative `vout` or a negative sequence,
`BuildOutputs` fails on the first bad pair (invalid address, duplicate,
amount out of range), and an input error wins. JSON values are records
(`Absent`, `Junk`, `Num`). Widths are scaled: `int` is 8 bits (`INTW`) and
`int64_t` 16 bits (`I64W`), with `COIN` = 100. `get_int()` is a
two's-complement cast (`GetInt`), `strtoll` saturates (`Strtoll`), and the
`data` value `max(0, amount) * COIN` wraps modulo 2^`I64W` (`DataValue`).
Signed overflow is undefined; the build compiles it to a wrapping multiply.

| run | checks | shows |
|---|---|---|
| `builder_amounts` (violation) | `BuiltAsRequested` | a `vout` of 2^`INTW` is built as output index 0 (`get_int` truncation); without that input, a `data` amount of 400 coins becomes a negative output value (the product overflows) |
| `builder_sequence` (violation) | `ValidRequestBuilds` | a request whose indices and sequences all fit the unsigned fields is refused: the final sequence 0xFFFFFFFF (2^`INTW` - 1) reads back as -1 through `get_int` and fails "sequence must be positive", while spec 4.3 allows any sequence >= 0 |

The scaled widths keep the same shape of edge: a value that fits in the
JSON `int64` but not in `int`, and an amount whose product with `COIN`
leaves the `int64` range.

### `InitToken` / `MCInitToken` / `AbstractMint`: the wallet's calls
State: `coins` (unspent outputs as `[tx, n, value, owner, fromToken]`),
`calls`, and `call` (the latest reply, the funding outputs, the index
picked). `inittoken(dest, sel, changeFirst)` is one
whole call (cpp 1192-1306), with the wallet locked or not. The handler is not `threadSafe`, so it holds
`cs_main` and the wallet lock and is one step. The step pays 1001 to the
first address-book entry (`makeInputTransactionForToken`, with the wallet's
coin choice `sel` and the random change position `changeFirst`). It scans
for the 1001 output (`FundingOutputIndex`), then checks the address. It
signs with the wallet (`SignsTokenInput`) and submits (`SubmitReply`,
whose checks follow Bitcoin 0.9's `AcceptToMemoryPool` order: missing
input, insane fee, value in below value out, missing signature). A
throw after the payment keeps the payment. The token id itself is
`TokenCommit`'s and is abstracted here.

Two more calls act on the same wallet. `lottery(amount, locked, sel,
changeFirst)` (cpp 837-865) refuses an amount `AmountFromValue` rejects,
then a locked wallet, then pays the amount to the fixed lottery address with
`SendMoneyToDestination`. `listunspent(minconf, maxconf, addresses)` (cpp
203-314) fails on the first undecodable or repeated address
(`AddressError`), and otherwise lists the wallet's coins within the
confirmation bounds, filtered by address only when the set is non-empty.
The wallet code is outside `src/` and follows Bitcoin 0.9. A payment fails,
spending nothing, when the wallet is locked or no selection of coins covers
amount and fee (`CanSend`); otherwise the selection (`sel`) is any covering
set of coins. `inittoken`'s `SendMoneyToDestination2` skips outputs of
OP_RETURN transactions (`Selectable2`, the comment at cpp 1154), while
`lottery`'s `SendMoneyToDestination` may take any coin (`Selectable`).
There are no blocks in this module: the genesis coins have one
confirmation and every later output none (`Depth`).

`AbstractMint` says what a call promises: it either mints one token to the
requested address at the fixed price (funding fee + 1 SMLY, plus the 1000
carried when the token goes to someone else), or it mints nothing and costs
at most the funding fee. A payment (`Pay`, the lottery) costs more than
the fee and may carry away tokens the wallet holds, never anyone else's.
`InitToken` instantiates it with the wallet's
balance and its OP_RETURN outputs (`Abstract == INSTANCE AbstractMint WITH
...`). `MintRefinesAbstract` checks `Abstract!Spec` as a temporal property.

| run | checks | shows |
|---|---|---|
| `init_token` | `MintRefinesAbstract` | with the first address-book entry the wallet's own, the wallet's calls implement `AbstractMint`: every mint spends the 1001 output and costs exactly its price, every failure costs at most the fee, no `inittoken` spends an earlier token's output, and a lottery payment costs more than the fee |
| `init_token_foreign` (violation) | `FundingIsSelfAddressed` | the 1001 goes to `mapAddressBook.begin()`, which can be someone else's send-to address; the token input is then unsigned and the 1001 is lost |

Bounds: coins of 3000 and 2003 SMLY and two calls. Funding from 2003 leaves
change of exactly 1001, so two outputs match the scan. Funding from 3000
leaves 1998, so a scan that picks the change still finds enough value. The
second call can spend the first one's change, or, as a lottery of 500, the
1000 output of a token the first call minted to the wallet. `listunspent`
is called with minconf 0 and 1, maxconf 0 and the default, and address
arrays that are empty, the wallet's, someone else's, repeated or invalid.

### Fairness
All properties are safety properties (`MintRefinesAbstract` is a temporal
formula, but a safety one: `[][Next]_vars` of the abstract module), and no
spec has a fairness conjunct. Nothing in the code guarantees progress: RPC calls happen when
callers make them, and blocks arrive when miners find them.

### Not modelled
* The signing view composed with the moving chain of `Submit` (the view
  `signrawtransaction` builds at cpp 632). The two modules describe transactions at different
  levels: scripts and signatures in `SignRaw`, outpoints and validity in
  `Submit`. `GatewaySuccessIsPooled` covers the consequence at the gateway:
  a stale but complete transaction is never reported as pending.
* The wallet-unlock check of `signrawtokentransaction` and the wallet's
  own lock inside `inittoken`: `InitToken` abstracts the signing step to
  "the wallet holds the key" (`SignsTokenInput`).
* A lottery payment that spends a token output the wallet holds (cpp 860):
  it is reached, but spec §3 says a token is not tracked once embedded, so
  `AbstractMint` allows it and no property forbids it.
* `listunspent`'s `get_int` reads of minconf and maxconf (cpp 244, 248) and
  its empty-array filter (cpp 273): the bounds have no width here (the
  truncation is checked in `Builder`), and the help text states nothing the
  empty array could be checked against.
* A second redeem script: the model has one, so two variants pushing
  different redeem scripts for one P2SH input (where `CombineSignatures`
  trusts the first) do not occur.
* The spec's optional `redeemScript` (spec 4.4) against the code, which
  requires it with given keys (cpp 698): modelled as the
  `MissingRedeemScript` reply, but not stated as a violation run.
* Parse errors of hex and txid strings (`ParseHashO`, `ParseHexV`): they
  throw before any state changes.
* The empty address book in `makeInputTransactionForToken`, where
  `begin()` is `end()`: the result is arbitrary memory.
* Liveness: no property needs fairness, and the code gives none (see Fairness).
