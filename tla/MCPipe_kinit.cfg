SPECIFICATION Spec
CONSTANTS
  kinit = kinit
  k1 = k1
  u = u
  None = None
  Tasks = {kinit, u}
  Pollers = {kinit}
  Readers = {}
  Size = 3
  Sizes = {1}
  MaxSent = 5
INVARIANTS
  PollerNeverSleeps
PROPERTIES
  EveryByteRead
  HandlerWakes
CHECK_DEADLOCK FALSE
