\* Two runs, no reorgs: the full safety of the execution layer.
SPECIFICATION Spec
CONSTANTS
  MaxRuns = 2
  MaxReorgs = 0
INVARIANTS
  FinalityInvariant
  WriteAhead
  SwapAlwaysFindable
  FailureIsFinal
  ArchiveIsFinal
PROPERTIES
  SettledBeforeNextRun
  SwapFollowsAllowance
  ImplementsOutbox
