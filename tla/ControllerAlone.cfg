\* The controller's thread alone; servers start and hang, the controller restarts.
SPECIFICATION Spec
CONSTANTS
  Cluster = 2
  Servers = {1, 2, 3}
  Mod <- MCMod
  Infos <- MCInfos
  Callers = {run}
  Run = run
  MaxAge = 2
  None = None
  IntervalFetch = 2
  IntervalNotify = 3
  Settable = {1}
  Faults = {"timeout", "restart"}
INVARIANTS TypeOK ChangesAnnounced
