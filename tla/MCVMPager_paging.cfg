\* Three threads, so that jobs queue and two may want one page, the expansion
\* pak (entry 0 wired to the first region, so that page 0 never faults), and
\* regions added while threads page; without symmetry for liveness.
SPECIFICATION FairSpec
CONSTANTS
  Threads = {t1, t2, t3}
  NoThread = NoThread
  NumSlots = 5
  NumTLB = 2
  FirstTLB = 1
  NumJobs = 3
  NumPages = 6
  FirstRegionPages = 2
  Touched = {0, 2, 3, 4}
ACTION_CONSTRAINT TouchedOnly
INVARIANTS
  TLBCoherent
  
PROPERTIES
  FaultServed
