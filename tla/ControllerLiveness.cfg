\* Fair threads; servers start and crash.
SPECIFICATION FairSpec
CONSTANTS
  Cluster = 2
  Servers = {1, 2, 3}
  Mod <- MCMod
  Infos <- MCInfos
  Callers = {run}
  Run = run
  MaxAge = 2
  None = None
  IntervalFetch = 1
  IntervalNotify = 2
  Settable = {}
  Faults = {"crash"}
PROPERTIES GoneServerDropped EveryModServed
