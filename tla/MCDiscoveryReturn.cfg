SPECIFICATION Spec
CONSTANTS
  ChainId = 1
  V2Factory = "v2"
  V3Factory = "v3"
  PoolManager = "manager"
  Ids <- MCIds
  Claim <- MCClaim
  Genuine <- MCIds
  MaxFee = 8
  DynamicFee = 9
  MaxSpacing = 4
  MaxInt256 = 3
  MaxUint128 = 3
  Blocks <- MCBlocks
  Ancestry <- MCAncestry
  Born <- MCBorn
  Wiring <- MCWiring
  Prices <- MCPrices
  Queries <- MCQueries
  Noise <- MCNoise
  MaxReorgs = 2
INVARIANTS
  Complete
