\* createrawtransaction: a request whose every index and sequence fits the unsigned fields is built (spec 4.3).
CONSTANTS
  INTW = 8
  I64W = 16
  COIN = 100
  MAX_MONEY = 1000
  ValidAddresses <- MCValidAddresses
  InputLists <- MCInputLists
  SendTos <- MCSendTos
SPECIFICATION Spec
INVARIANT ValidRequestBuilds
