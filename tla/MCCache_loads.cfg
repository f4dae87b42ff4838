SPECIFICATION Spec
CONSTANTS
  Indexes = {}
  Plain = {"model"}
  Packed = {"texture"}
  Made = {"lit"}
  Source <- LitOfModel
  Stored <- Ones
  Whole <- BigTexture
  Own = {}
  Lists = {}
  Mems = {m1, m2, m3}
  Entries = {e1, e2, e3}
  HeapSize = 3
  AnswersSize = 2
  JobsSize = 1
  StaleAge = 1
  MaxDelay = 1
  MaxHeld = 2
  None = None
SYMMETRY CacheSymmetry
INVARIANTS
  InFlightKept
  RecordsAgree
  LocksBalanced
PROPERTIES
  ImplementsResourceStore
