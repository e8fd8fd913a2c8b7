\* Fair threads.
SPECIFICATION FairSpec
CONSTANTS
  Parts = {"notifyFair", "agentFair", "loaderFair", "fullFair"}
  None = None
  a1 = a1  a2 = a2  run = run
CHECK_DEADLOCK FALSE
PROPERTIES
  ClientsConverge 
