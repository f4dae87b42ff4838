SPECIFICATION Spec
CONSTANTS
  Indexes = {"index"}
  Plain = {"model"}
  Packed = {}
  Made = {}
  Source <- LitOfModel
  Stored <- LongIndex
  Whole <- Ones
  Own = {1}
  Lists = {l0, l1}
  Mems = {m1, m2, m3}
  Entries = {e1, e2, e3}
  HeapSize = 3
  AnswersSize = 2
  JobsSize = 1
  StaleAge = 0
  MaxDelay = 0
  MaxHeld = 2
  None = None
SYMMETRY CacheSymmetry
INVARIANTS
  WaitsAnswered
PROPERTIES
  ImplementsResourceStore
