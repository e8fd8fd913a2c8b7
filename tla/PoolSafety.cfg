\* Two clients submit three tasks, cancel and reconfigure.
SPECIFICATION Spec
CONSTANTS
  Clients = {c1, c2}
  Workers = {w1, w2}
  Tasks = {t1, t2, t3}
  Core = 1
  Max = 2
  Calls = {"execute", "cancelAllTasks", "setCorePoolSize", "setMaximumPoolSize", "allowsCoreThreadTimeOut"}
  CoreSizes = {0, 2}
  MaxSizes = {1, 2}
  StartMayFail = TRUE
  None = None
SYMMETRY Symmetry
INVARIANTS TypeOK CountersExact EachTaskInOnePlace NoLostWakeup
PROPERTIES KeepsContract GrowthWithinSizes
CHECK_DEADLOCK FALSE
