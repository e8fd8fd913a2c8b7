\* Every order of the reports of five servers, and every earlier decision.
SPECIFICATION SelectionSpec
CONSTANTS
  Cluster = 3
  Servers = {1, 2, 3, 4, 5}
  Mod <- MCMod
  Infos = {any}
INVARIANTS SelectionWellFormed NoIdleBackup LoopsDecide
CHECK_DEADLOCK FALSE
