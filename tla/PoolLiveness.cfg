\* Fair threads, no failing start: what becomes of every submitted task.
SPECIFICATION FairSpec
CONSTANTS
  Clients = {c1, c2}
  Workers = {w1, w2}
  Tasks = {t1, t2, t3}
  Core = 1
  Max = 2
  Calls = {"execute"}
  CoreSizes = {}
  MaxSizes = {}
  StartMayFail = FALSE
  None = None
PROPERTIES SubmittedTaskRuns StrandedTaskRescued IdleThreadsReleased
CHECK_DEADLOCK FALSE
