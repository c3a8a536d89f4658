SPECIFICATION Spec
CONSTANTS
  Tasks = {t1, t2}
  NoTask = NoTask
  MaxThreads = 2
  MaxTasks = 1
  MaxPushes = 2
INVARIANT JoinWaitsUntilFinished
CHECK_DEADLOCK FALSE
