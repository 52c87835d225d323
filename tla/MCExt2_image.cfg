SPECIFICATION Spec
CONSTANTS
  Blocks = 21
  FirstDataBlock = 1
  Reserved = {1, 2, 3}
  OldBlock = 4
  Inodes = 5
  Direct = 1
  P = 2
  Names = {"a", "b"}
  Data <- DataWords
  Dots <- DotsWord
  Targets = {0, 2, 5, 7}
  MaxCalls = 3
  MaxCrashes = 1
INVARIANTS
  BlocksOwned
CHECK_DEADLOCK FALSE
