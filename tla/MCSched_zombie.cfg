SPECIFICATION Spec
CONSTANTS
  kinit = kinit
  u1 = u1
  u2 = u2
  k1 = k1
  kbd = kbd
  pipe = pipe
  NoTask = NoTask
  Root = kinit
  Tasks = {kinit, u1, k1}
  KernelThreads = {k1}
  Queues = {}
  IrqQueues = {}
  Waker <- NoWaker
  Sleeps <- NoSleeps
  Throttles = {}
  MAX_TTL = 1
  Waiters = {}
  Delays = {}
  RootExits = FALSE
PROPERTY
  ZombieNeverRuns
CHECK_DEADLOCK FALSE
