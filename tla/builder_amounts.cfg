\* createrawtransaction at the edges of int and int64_t (scaled widths).
CONSTANTS
  INTW = 8
  I64W = 16
  COIN = 100
  MAX_MONEY = 1000
  ValidAddresses <- MCValidAddresses
  InputLists <- MCInputLists
  SendTos <- MCSendTos
SPECIFICATION Spec
INVARIANT BuiltAsRequested
