SPECIFICATION Spec
CONSTANTS
  BPS = 4
  Width = 1024
  ChainId = 1
  V2Factory = "v2"
  V3Factory = "v3"
  PoolManager = "manager"
  Ids <- MCIds
  Claim <- MCClaim
  Genuine <- MCIds
  MaxFee = 8
  DynamicFee = 9
  MaxSpacing = 4
  MaxInt256 = 100
  MaxUint128 = 100
  Worlds <- MCWorlds
  MaxBlocks = 3
  Router <- MCRouter
  Requests <- MCRequests
  Settings <- MCSettings
  Usdc = {}
  Tiers <- MCTiers
  Slippages = {0, 2, 5}
  Writes <- MCWrites
INVARIANTS
  OneBlock
  BestFunding
  WouldLand
  LandsAsShown
