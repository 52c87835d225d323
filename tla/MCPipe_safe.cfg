SPECIFICATION Spec
CONSTANTS
  kinit = kinit
  k1 = k1
  u = u
  None = None
  Tasks = {kinit, k1}
  Pollers = {kinit}
  Readers = {k1}
  Size = 3
  Sizes = {1, 2}
  MaxSent = 5
INVARIANTS
  TypeOK
  FifoUntilYield
  SleeperMissedByte
CHECK_DEADLOCK FALSE
