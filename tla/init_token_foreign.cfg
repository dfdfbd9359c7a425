\* inittoken with the wallet's first address-book entry owned by: foreign
CONSTANTS
  FirstEntryOwner = "foreign"
  Dests <- MCDests
  GenesisCoins <- MCGenesisCoins
  FEE = 1
  INSANE = 5000
  MAX_MONEY = 21000000
  LotteryAmounts <- MCLotteryAmounts
  MinConfs = {0, 1}
  MaxConfs = {0, 9999999}
  AddressArgs <- MCAddressArgs
  MaxCalls = 2
SPECIFICATION Spec
INVARIANT FundingIsSelfAddressed
