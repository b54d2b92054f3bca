\* One run under fairness.
SPECIFICATION FairSpec
CONSTANTS
  MaxRuns = 1
  MaxReorgs = 0
PROPERTIES
  CallReturns
  SwapIsResolved
