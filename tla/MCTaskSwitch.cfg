SPECIFICATION Spec
CONSTANTS
  Tasks = {t1, t2}
  First = t1
  None = None
  t1 = t1
  t2 = t2
  Values = {0, 1, 2}
  Clean = 0
  MaxFrames = 3
  MaxDepth = 4
INVARIANTS
  SectionsClosed
  RegistersOwn
CONSTRAINT DepthBound
