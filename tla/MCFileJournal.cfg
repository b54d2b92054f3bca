SPECIFICATION Spec
CONSTANTS
  Broadcasts = {"run1", "run2", "run3"}
  Resumes = {"resume1", "resume2"}
  Inodes <- MCInodes
  Alone = TRUE
INVARIANTS
  IInv
  NothingForgotten
  OneUnresolved
  ArchiveTrue
PROPERTIES
  ArchiveKept
CHECK_DEADLOCK FALSE
