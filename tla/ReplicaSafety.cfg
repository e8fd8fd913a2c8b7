\* Notification, agent and loader under any interleaving of their threads.
SPECIFICATION Spec
CONSTANTS
  Parts = {"ordered", "asked", "agent", "loader", "threeIds"}
  None = None
  a1 = a1  a2 = a2  run = run
SYMMETRY Symmetry
CHECK_DEADLOCK FALSE
INVARIANTS
  TypeOK NothingDropped LoadsInRounds
PROPERTIES
  OlderOnlyWhenOvertaken
