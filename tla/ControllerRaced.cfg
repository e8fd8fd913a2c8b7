\* FetchServerState and NotifyClusterState are also called from outside.
SPECIFICATION Spec
CONSTANTS
  Cluster = 2
  Servers = {1, 2}
  Mod <- MCMod
  Infos <- MCInfos
  Callers = {run, remote}
  Run = run
  MaxAge = 2
  None = None
  IntervalFetch = 1
  IntervalNotify = 2
  Settable = {}
  Faults = {"timeout"}
INVARIANT DecisionsWellFormed
