\* Multi-party merging of partial signatures over stale and current variants.
CONSTANTS
  k1 = k1
  k2 = k2
  k3 = k3
  t1 = t1
  t2 = t2
  o1 = o1
  o2 = o2
  NoCoins = NoCoins
  Spent = Spent
  Keys <- MCKeys
  TxIds <- MCTxIds
  Payloads <- MCPayloads
  Backend <- MCBackend
  BaseTxs <- MergeBaseTxs
  KeyArgs <- MergeKeyArgs
  HintLists <- MergeHints
  SigHashParams <- MergeSigHash
  MaxVariants = 2
  MaxCalls = 3
SPECIFICATION Spec
INVARIANT CompleteImpliesValid
INVARIANT NoSignatureLost
