\* Each component of the libraries under any interleaving of its threads.
SPECIFICATION Spec
CONSTANTS
  Parts = {"level", "channel", "pipes", "sized", "timed", "cache", "cacheApart", "mutexes", "dbPool", "batches", "merging", "client", "lock", "stopped", "grown", "async"}
  None = None
  a1 = a1  a2 = a2  b1 = b1  b2 = b2  c1 = c1  c2 = c2  c3 = c3
SYMMETRY Symmetry
CHECK_DEADLOCK FALSE
INVARIANTS
  TypeOK LevelsAsIfAlone CacheSound ConnectionsCounted LockSound WorkersSound DoneOnceInOrder TablesFollowSubscriber LookupWrongOnlyByRenewal
PROPERTIES
  ActsAsKeyedLock CallsKept EvictsInOrder
