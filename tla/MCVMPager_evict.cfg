\* More pages than frames and two TLB entries: reclaiming and recycling, and a
\* region added while threads page.
SPECIFICATION Spec
CONSTANTS
  Threads = {t1, t2}
  NoThread = NoThread
  NumSlots = 4
  NumTLB = 2
  FirstTLB = 0
  NumJobs = 2
  NumPages = 6
  FirstRegionPages = 4
  Touched = {0, 1, 2, 3, 4}
ACTION_CONSTRAINT TouchedOnly
SYMMETRY ThreadSymmetry
INVARIANTS
  ResidencyConsistent
  ChainSound
  TranslationCorrect
PROPERTIES
  ImplementsDemandPaging
