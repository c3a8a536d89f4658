SPECIFICATION FairSpec
CONSTANTS
  Tasks = {t1, t2}
  NoTask = NoTask
  MaxThreads = 2
  MaxTasks = 1
  MaxPushes = 2
PROPERTIES JoinReturns
CHECK_DEADLOCK FALSE
