\* Caller parameters: wallet and given keys, sighash strings, prevout hints (contradicting, reviving a spent output, P2SH with and without redeem script, negative vout).
CONSTANTS
  k1 = k1
  k2 = k2
  k3 = k3
  t1 = t1
  t2 = t2
  o1 = o1
  o2 = o2
  NoCoins = NoCoins
  Spent = Spent
  Keys <- MCKeys
  TxIds <- MCTxIds
  Payloads <- MCPayloads
  Backend <- MCBackend
  BaseTxs <- ParamBaseTxs
  KeyArgs <- ParamKeyArgs
  HintLists <- ParamHints
  SigHashParams <- ParamSigHash
  MaxVariants = 2
  MaxCalls = 2
SPECIFICATION Spec
INVARIANT TypeOK
INVARIANT CompleteImpliesValid
INVARIANT NoSignatureLost
