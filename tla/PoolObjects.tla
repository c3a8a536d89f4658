----------------------------- MODULE PoolObjects -----------------------------
(***************************************************************************)
(* What the thread pool and its queue are both about.                      *)
(***************************************************************************)
EXTENDS Naturals

CONSTANTS Tasks,      \* places malloc can put a task object at
          NoTask,     \* the null pointer
          MaxTasks    \* TPOOL_MAX_TASKS

ASSUME ObjectsAssumption == NoTask \notin Tasks /\ MaxTasks \in Nat \ {0}
==============================================================================
