\* A variant with fewer inputs than the merge target.
CONSTANTS
  k1 = k1
  k2 = k2
  k3 = k3
  t1 = t1
  t2 = t2
  o1 = o1
  o2 = o2
  NoCoins = NoCoins
  Spent = Spent
  Keys <- MCKeys
  TxIds <- MCTxIds
  Payloads <- MCPayloads
  Backend <- MCBackend
  BaseTxs <- ShortBaseTxs
  KeyArgs <- ShortKeyArgs
  HintLists <- ShortHints
  SigHashParams <- ShortSigHash
  MaxVariants = 2
  MaxCalls = 2
SPECIFICATION Spec
INVARIANT SignReturnsResult
