SPECIFICATION FairSpec
CONSTANTS
  Tasks = {t1, t2}
  NoTask = NoTask
  MaxThreads = 2
  MaxTasks = 2
  MaxPushes = 3
INVARIANTS TypeOK ExactlyOnce IdleTaskIsDone NoUseAfterFree DeletedPoolIsDrained
PROPERTIES StatusGoesRound ImplementsTaskPool
PROPERTIES TakenTaskSettles JoinOfTakenTaskReturns TimedJoinReturns
CHECK_DEADLOCK FALSE
