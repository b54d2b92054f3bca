SPECIFICATION Spec
CONSTANTS
  BPS = 4
  Width = 32
  Hops <- MCHops
  MaxHops = 2
  Grosses = {1, 4, 12}
  Outputs = {0, 3, 8, 31}
  FeeBps = 1
  WideMax = 1023
  I32Max = 8
  PIPS = 4
  V2Pips = 1
  Scale = 4
  MaxProtocol = 2
  MaxHookFee = 2
  MaxHookSum = 3
INVARIANTS
  EstimateInvariant
  Exact
  CostsAtLeastImpact
  GivesUpOnlyIfItMust
  KnownCosts
CHECK_DEADLOCK FALSE
