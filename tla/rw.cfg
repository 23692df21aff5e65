SPECIFICATION FairSpec
CONSTANTS
  Threads = {t1, t2, t3}
  TimedWriters = {"PREFER_READERS"}
INVARIANT MutualExclusion
 
INVARIANT WritersAlerted
PROPERTY ReaderProgress
PROPERTY WriterQueueProgress
PROPERTY ImplementsRWLock
