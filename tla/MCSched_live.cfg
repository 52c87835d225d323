SPECIFICATION Spec
CONSTANTS
  kinit = kinit
  u1 = u1
  u2 = u2
  k1 = k1
  kbd = kbd
  pipe = pipe
  NoTask = NoTask
  Root = kinit
  Tasks = {kinit, u1, k1}
  KernelThreads = {k1}
  Queues = {kbd, pipe}
  IrqQueues = {kbd}
  Waker <- PipeWaker
  Sleeps <- SmallSleeps
  Throttles <- SomeThrottles
  MAX_TTL = 1
  Waiters = {u1}
  Delays = {u1, k1}
  RootExits = TRUE
INVARIANT
  ReadyOnce
PROPERTIES
  ReadyRuns
  WakeupReaches
