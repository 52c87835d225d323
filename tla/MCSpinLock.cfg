SPECIFICATION Spec
CONSTANT
  Tasks = {t1, t2, t3, t4}
INVARIANTS
  MutualExclusion
  WaitersExact
PROPERTIES
  SomebodyEnters
  ImplementsMutex
