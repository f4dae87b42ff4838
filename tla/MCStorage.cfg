\* A heap of 23 bytes, a table of three entries, a lock for four threads.
SPECIFICATION StorageSpec
CONSTANTS
  HeapSize = 23
  Header = 2
  Grain = 2
  Requests = {2, 3, 5}
  Keys = {"a", "b", "c", "d"}
  Values = {v, w}
  Capacity = 3
  Hash <- Collide
  NoKey = None
  Threads = {t1, t2, t3, t4}
INVARIANTS
  GapsFound
  ChainsSound
  MutualExclusion
  WakeUpOnItsWay
  WaitIsBarrier
PROPERTIES
  ImplementsArena
  ImplementsKeyMap
