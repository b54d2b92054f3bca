SPECIFICATION Spec
CONSTANTS
  Broadcasts = {"run1", "run2"}
  Resumes = {"resume1"}
  Inodes <- MCInodes
  Alone = FALSE
INVARIANTS
  OneUnresolved
CHECK_DEADLOCK FALSE
