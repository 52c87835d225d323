SPECIFICATION Spec
CONSTANTS
  PAGE_SIZE = 4096
  NUM_BINS = 11
  SMALLEST_BIN_LOG = 2
  SKIP_MAX_LEVEL = 1
  Header = 16
  BigHeader = 48
  MaxPages = 4
  MaxLive = 3
  Sizes = {1024, 3000, 5000}
  Resizes = {0, 2048, 5000}
  Nil = Nil
INVARIANTS
  NoOverlap
  CellsAccounted
  PagesListed
  SkipListSound
PROPERTIES
  BestFit
CHECK_DEADLOCK FALSE
