\* Two backups, neither of which leaves.
SPECIFICATION Spec
CONSTANTS
  Cluster = 2
  Servers = {1, 4}
  Mod <- MCMod
  Infos <- MCInfos
  Callers = {run}
  Run = run
  MaxAge = 2
  None = None
  IntervalFetch = 1
  IntervalNotify = 2
  Settable = {}
  Faults = {}
PROPERTY BackupIsKept
