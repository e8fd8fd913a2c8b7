\* Fair threads in the libraries and in base.
SPECIFICATION FairSpec
CONSTANTS
  Parts = {"mutexes", "levelFair", "strandedFair", "pipeFair", "cacheFair", "batchesFair", "mergingFair", "lockFair", "shrunkFair", "stoppedFair", "asyncFair"}
  None = None
  a1 = a1  a2 = a2  b1 = b1  b2 = b2  c1 = c1  c2 = c2  c3 = c3
CHECK_DEADLOCK FALSE
PROPERTIES
  HandedOverIsDone WaitsEnd WritersFirst PostedIsRun StopsReturn
