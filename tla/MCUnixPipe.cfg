SPECIFICATION PipeSpec
CONSTANTS
  r = r
  w = w
  c = c
  None = None
  NoByte = NoByte
  Tasks = {r, w, c}
  Readers = {r}
  Writers = {w}
  Closers = {w, c}
  Size = 2
  Bytes = {0, 1}
  NewLine = 0
  Sizes = {2}
INVARIANTS
  LoopExclusive
  SleepersHaveReason
PROPERTIES
  ImplementsFifo
  EofReached
  BrokenPipeSeen
CHECK_DEADLOCK FALSE
