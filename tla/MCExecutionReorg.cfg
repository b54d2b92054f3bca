\* Two runs and a reorg: the guarantees that do not rest on finality.
SPECIFICATION Spec
CONSTANTS
  MaxRuns = 2
  MaxReorgs = 1
INVARIANTS
  SafetyInvariant
  RejectedNeverLands
PROPERTIES
  JournalOnlyLearns
