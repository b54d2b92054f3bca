SPECIFICATION Spec
CONSTANTS
  BPS = 4
  Width = 64
  ChainId = 1
  V2Factory = "v2"
  V3Factory = "v3"
  PoolManager = "manager"
  Ids <- MCIds
  Claim <- MCClaim
  Genuine <- MCGenuine
  MaxFee = 8
  DynamicFee = 9
  MaxSpacing = 4
  MaxInt256 = 3
  MaxUint128 = 3
  Worlds <- MCWorlds
  Offered <- MCOffered
  Trades <- MCTrades
  Slippages = {0, 1}
  Tokens <- MCTokens
INVARIANTS
  LedgerInvariant
  QuotedPoolIsReal
  LandsWithRecipient
