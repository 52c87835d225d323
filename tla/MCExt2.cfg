SPECIFICATION Spec
CONSTANTS
  Blocks = 20
  FirstDataBlock = 0
  Reserved = {1, 2, 3}
  OldBlock = 4
  Inodes = 5
  Direct = 1
  P = 2
  Names = {"a", "b"}
  Data <- DataWords
  Dots <- DotsWord
  Targets = {0, 2, 5, 7}
  MaxCalls = 3
  MaxCrashes = 1
INVARIANTS
  BlocksOwned
  ReadBack
  EntriesInitialised
  FreeCounted
PROPERTIES
  CallReturns
CHECK_DEADLOCK FALSE
