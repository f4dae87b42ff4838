\* A reader, the main thread (through the cache) and the audio manager.
SPECIFICATION FairSpec
CONSTANTS
  PoolSize = 6
  QueueSize = 2
  SyncThreads = {reader}
  AsyncThreads = {main}
  Audio = audio
  Requests = {r1, r2}
  MaxChunks = 2
  ReplySize = 1
  Windows = 2
INVARIANTS
  PoolSuffices
  StackQueueAlive
  AnswerMeansLoaded
  AudioOwed
PROPERTIES
  LoadsFinish
