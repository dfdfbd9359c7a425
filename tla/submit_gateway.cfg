\* sendrawtransaction against blocks and a peer's double spend.
CONSTANTS
  g = g
  a = a
  b = b
  c = c
  d = d
  e = e
  UserTxs <- MCUserTxs
  PeerTxs <- MCPeerTxs
  GenesisCoins <- MCGenesisCoins
  GenesisIds <- MCGenesisIds
SPECIFICATION Spec
INVARIANT GatewaySuccessIsPooled
