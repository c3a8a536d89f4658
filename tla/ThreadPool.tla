----------------------------- MODULE ThreadPool -----------------------------
(***************************************************************************)
(* The thread pool of 4/thread_pool.c: the worker threads, the task queue  *)
(* they share, and the one thread that uses the pool through the API of    *)
(* thread_pool.h.  A step is what runs between two points another thread   *)
(* can observe: a critical section of a mutex that makes no other thread   *)
(* wait inside it, or one access to an atomic.                             *)
(*                                                                         *)
(* No mutex has a variable of its own.  A thread that holds one between    *)
(* two steps is at a known program counter, so QueueMutexFree and          *)
(* TaskMutexFree read the program counters.                                *)
(*                                                                         *)
(* The pointers of the queue are modelled in TaskQueue; here it is the     *)
(* sequence they implement.                                                *)
(*                                                                         *)
(* pthread_cond_wait may return without a signal, and the client deletes   *)
(* tasks at any time, as 4/test.c does.  Both can make the code return a   *)
(* task to the client, or free it, while it is still in the pool; what the *)
(* program does after that is undefined, so the model ends there (`wild'). *)
(***************************************************************************)
EXTENDS PoolObjects, Sequences, FiniteSets, Functions

CONSTANTS MaxThreads,       \* the argument of thread_pool_new
          MaxPushes         \* bound: pushes of all tasks together

ASSUME ConstantsAssumption ==
  /\ MaxThreads \in Nat \ {0}
  /\ MaxPushes \in Nat

Workers == 1..MaxThreads    \* the slots of pool->threads

VARIABLES
  queue,      \* pool->tasks, oldest first
  running,    \* pool->running_tasks_count
  deleting,   \* pool->is_deleting
  threads,    \* pool->threads_count
  poolAlive,  \* the pool object is allocated
  status,     \* task->status
  alive,      \* the task object is allocated
  detached,   \* task->is_detached
  runs,       \* how often the task's function ran; its last run's number is task->result
  pushes,     \* history: how often the client pushed the task
  handle,     \* history: what the client knows of the task (see Handles)
  wpc,        \* where each worker is in worker_function
  wtask,      \* the local variable task of worker_function
  call,       \* the call the client is in
  ret,        \* what its last call returned
  wild        \* history: a join returned, or a delete freed, a task still in use

poolVars   == <<queue, running, deleting, threads, poolAlive>>
taskVars   == <<status, alive, detached, runs, pushes, handle>>
workerVars == <<wpc, wtask>>
clientVars == <<call, ret, wild>>
vars == <<poolVars, taskVars, workerVars, clientVars>>

Statuses == {"free", "pushed", "running", "finished"}

(* "none": no object, or one given away by detach; "idle": never pushed or
   joined since, so the client may push or delete it; "pushed": in between. *)
Handles == {"none", "idle", "pushed"}

(* A worker is created at "pop".  It holds the queue's mutex at "checked" and
   its task's mutex at "publish". *)
WorkerPcs ==
  {"none", "pop", "lock", "checked", "waiting", "woken", "start", "count",
   "exec", "settle", "reap", "publish", "uncount", "exited"}

Holding   == {"start", "count", "exec", "settle", "reap", "publish"}
Counted   == {"exec", "settle", "reap", "publish", "uncount"}
Unsettled == {"start", "count", "exec", "settle"}
NotRunYet == {"start", "count", "exec"}

Joins == {"join", "timed_join"}
Calls ==
  {[op |-> "none", at |-> "idle", task |-> NoTask]}
  \cup [op : {"push"}, at : {"enqueue", "spawn"}, task : Tasks]
  \cup [op : Joins, at : {"lock", "wait", "woken", "early", "store"}, task : Tasks]
  \cup [op : {"task_delete"}, at : {"second"}, task : Tasks]
  \cup [op : {"detach"}, at : {"lock", "free"}, task : Tasks]
  \cup [op : {"delete"}, at : {"running", "close", "broadcast", "reap"}, task : {NoTask}]
Codes == {"none", "ok", "too_many", "has_tasks", "not_pushed", "in_pool", "timeout"}

Idle == [op |-> "none", at |-> "idle", task |-> NoTask]

InQueue(t)  == \E i \in 1..Len(queue) : queue[i] = t
Holds(w, t) == wpc[w] \in Holding /\ wtask[w] = t

QueueMutexFree   == \A w \in Workers : wpc[w] # "checked"
TaskMutexFree(t) == \A w \in Workers : ~(wpc[w] = "publish" /\ wtask[w] = t)

(* pthread_cond_broadcast: every thread at the wait may go on. *)
WakeWorkers == [w \in Workers |-> IF wpc[w] = "waiting" THEN "woken" ELSE wpc[w]]
\* mutant: the worker does not broadcast
WakeNoJoiner(t) == call
WakeJoiner(t) ==
  IF call.op \in Joins /\ call.at = "wait" /\ call.task = t
  THEN [call EXCEPT !.at = "woken"] ELSE call

(* What was pushed is in use until its worker has stored FINISHED, broadcast *)
(* and unlocked.                                                             *)
InUse(t) == status[t] # "finished" \/ ~TaskMutexFree(t)

(* thread_pool_new has returned; its argument checks leave MaxThreads > 0. *)
Init ==
  /\ queue = <<>> /\ running = 0 /\ deleting = FALSE /\ threads = 0 /\ poolAlive = TRUE
  /\ status = [t \in Tasks |-> "free"]
  /\ alive = [t \in Tasks |-> FALSE]
  /\ detached = [t \in Tasks |-> FALSE]
  /\ runs = [t \in Tasks |-> 0]
  /\ pushes = [t \in Tasks |-> 0]
  /\ handle = [t \in Tasks |-> "none"]
  /\ wpc = [w \in Workers |-> "none"]
  /\ wtask = [w \in Workers |-> NoTask]
  /\ call = Idle
  /\ ret = "none"
  /\ wild = FALSE

-----------------------------------------------------------------------------
(* worker_function.  Every disjunct of a worker is a step of one thread.     *)

Goto(w, pc) == wpc' = [wpc EXCEPT ![w] = pc]

(* queue_pop_front: what it takes and what it leaves. *)
\* mutants: the newest task is popped; the head pointer stays
PopNewest(q) == q[Len(q)]
PopKeepsHead(q) == q
PopTask(q) == Head(q)
PopRest(q) == Tail(q)

Pop(w) ==
  /\ wpc[w] = "pop"
  /\ QueueMutexFree
  /\ queue # <<>>
  /\ queue' = PopRest(queue)
  /\ wtask' = [wtask EXCEPT ![w] = PopTask(queue)]
  /\ Goto(w, "start")
  /\ UNCHANGED <<running, deleting, threads, poolAlive, taskVars, clientVars>>

PopNothing(w) ==
  /\ wpc[w] = "pop"
  /\ QueueMutexFree
  /\ queue = <<>>
  /\ Goto(w, "lock")
  /\ UNCHANGED <<wtask, poolVars, taskVars, clientVars>>

(* The mutex was free between the pop and this step.  The worker leaves, or  *)
(* keeps the mutex on its way to pthread_cond_wait.                          *)
CheckDeleting(w) ==
  /\ wpc[w] = "lock"
  /\ QueueMutexFree
  /\ Goto(w, IF deleting THEN "exited" ELSE "checked")
  /\ UNCHANGED <<wtask, poolVars, taskVars, clientVars>>

WaitForTask(w) ==
  /\ wpc[w] = "checked"
  /\ Goto(w, "waiting")
  /\ UNCHANGED <<wtask, poolVars, taskVars, clientVars>>

WakeUp(w) ==
  /\ wpc[w] = "woken"
  /\ QueueMutexFree
  /\ Goto(w, "pop")
  /\ UNCHANGED <<wtask, poolVars, taskVars, clientVars>>

Start(w) ==
  /\ wpc[w] = "start"
  /\ status' = [status EXCEPT ![wtask[w]] = "running"]
  /\ Goto(w, "count")
  /\ UNCHANGED <<wtask, alive, detached, runs, pushes, handle, poolVars, clientVars>>

\* mutant: the task is not counted in
CountInForgotten(w) ==
  /\ wpc[w] = "count"
  /\ Goto(w, "exec")
  /\ UNCHANGED <<wtask, poolVars, taskVars, clientVars>>

CountIn(w) ==
  /\ wpc[w] = "count"
  /\ running' = running + 1
  /\ Goto(w, "exec")
  /\ UNCHANGED <<wtask, queue, deleting, threads, poolAlive, taskVars, clientVars>>

(* The task's function runs and returns; it does not call the pool. *)
Execute(w) ==
  /\ wpc[w] = "exec"
  /\ runs' = [runs EXCEPT ![wtask[w]] = @ + 1]
  /\ Goto(w, "settle")
  /\ UNCHANGED <<wtask, status, alive, detached, pushes, handle, poolVars, clientVars>>

(* A detached task is marked free and its mutex given back before the worker *)
(* deletes it; any other is marked finished with the mutex held.             *)
\* mutant: a detached task is treated like any other
SettlesAnyAlike(t) == "publish"
SettledPc(t) == IF detached[t] THEN "reap" ELSE "publish"

Settle(w) ==
  /\ wpc[w] = "settle"
  /\ TaskMutexFree(wtask[w])
  /\ Goto(w, SettledPc(wtask[w]))
  /\ status' = [status EXCEPT ![wtask[w]] = IF detached[wtask[w]] THEN "free" ELSE "finished"]
  /\ UNCHANGED <<wtask, alive, detached, runs, pushes, handle, poolVars, clientVars>>

(* Broadcast, then unlock: the last time the worker touches the task. *)
Publish(w) ==
  /\ wpc[w] = "publish"
  /\ call' = WakeJoiner(wtask[w])
  /\ wtask' = [wtask EXCEPT ![w] = NoTask]
  /\ Goto(w, "uncount")
  /\ UNCHANGED <<ret, wild, poolVars, taskVars>>

Reap(w) ==
  /\ wpc[w] = "reap"
  /\ alive' = [alive EXCEPT ![wtask[w]] = FALSE]
  /\ wtask' = [wtask EXCEPT ![w] = NoTask]
  /\ Goto(w, "uncount")
  /\ UNCHANGED <<status, detached, runs, pushes, handle, poolVars, clientVars>>

CountOut(w) ==
  /\ wpc[w] = "uncount"
  /\ running' = running - 1
  /\ Goto(w, "pop")
  /\ UNCHANGED <<wtask, queue, deleting, threads, poolAlive, taskVars, clientVars>>

Worker(w) ==
  /\ ~wild
  /\ \/ Pop(w) \/ PopNothing(w) \/ CheckDeleting(w) \/ WaitForTask(w) \/ WakeUp(w)
     \/ Start(w) \/ CountIn(w) \/ Execute(w) \/ Settle(w) \/ Publish(w) \/ Reap(w)
     \/ CountOut(w)

(* pthread_cond_wait may return without a signal; the worker looks again. *)
WakeUnsignalled(w) ==
  /\ ~wild
  /\ wpc[w] = "waiting"
  /\ QueueMutexFree
  /\ Goto(w, "pop")
  /\ UNCHANGED <<wtask, poolVars, taskVars, clientVars>>
-----------------------------------------------------------------------------
(* The client: one thread, which uses a task the way thread_pool.h tells it  *)
(* to.  It begins a call when it is in none and goes on until it returns.    *)

Begin(op, at, t) ==
  call' = [op |-> op, at |-> at, task |-> t] /\ ret' = "none" /\ UNCHANGED wild
At(op, at)   == call.op = op /\ call.at = at
GoOn(at)     == call' = [call EXCEPT !.at = at] /\ UNCHANGED <<ret, wild>>
End(code)    == call' = Idle /\ ret' = code
Return(code) == End(code) /\ UNCHANGED wild

(* thread_task_new: the object may lie where a deleted one lay. *)
TaskNew(t) ==
  /\ call = Idle
  /\ ~alive[t]
  /\ alive' = [alive EXCEPT ![t] = TRUE]
  /\ status' = [status EXCEPT ![t] = "free"]
  /\ detached' = [detached EXCEPT ![t] = FALSE]
  /\ handle' = [handle EXCEPT ![t] = "idle"]
  /\ Return("ok")
  /\ UNCHANGED <<runs, pushes, poolVars, workerVars>>

(* thread_task_delete loads the status twice.  A client that wants a task    *)
(* gone calls it and is told TASK_IN_POOL as long as the task is in the pool. *)
TaskDelete(t) ==
  /\ call = Idle
  /\ handle[t] # "none"
  /\ IF status[t] = "free"
     THEN /\ alive' = [alive EXCEPT ![t] = FALSE]
          /\ handle' = [handle EXCEPT ![t] = "none"]
          /\ Return("ok")
     ELSE Begin("task_delete", "second", t) /\ UNCHANGED <<alive, handle>>
  /\ UNCHANGED <<status, detached, runs, pushes, poolVars, workerVars>>

(* FINISHED is stored before the worker broadcasts and unlocks: what is freed *)
(* now may be freed under it.                                                 *)
TaskDeleteSecond ==
  /\ At("task_delete", "second")
  /\ IF status[call.task] = "finished"
     THEN /\ alive' = [alive EXCEPT ![call.task] = FALSE]
          /\ handle' = [handle EXCEPT ![call.task] = "none"]
          /\ End("ok")
          /\ wild' = InUse(call.task)
     ELSE Return("in_pool") /\ UNCHANGED <<alive, handle>>
  /\ UNCHANGED <<status, detached, runs, pushes, poolVars, workerVars>>

(* thread_pool_push_task, up to the status it stores. *)
PushBegin(t) ==
  /\ call = Idle
  /\ poolAlive
  /\ handle[t] = "idle"
  /\ FoldFunction(+, 0, pushes) < MaxPushes
  /\ IF Len(queue) = MaxTasks
     THEN Return("too_many") /\ UNCHANGED status
     ELSE /\ status' = [status EXCEPT ![t] = "pushed"]
          /\ Begin("push", "enqueue", t)
  /\ UNCHANGED <<alive, detached, runs, pushes, handle, poolVars, workerVars>>

(* queue_push_back: the broadcast comes first, under the same mutex. *)
Enqueue ==
  /\ At("push", "enqueue")
  /\ QueueMutexFree
  /\ wpc' = WakeWorkers
  /\ queue' = Append(queue, call.task)
  /\ pushes' = [pushes EXCEPT ![call.task] = @ + 1]
  /\ handle' = [handle EXCEPT ![call.task] = "pushed"]
  /\ GoOn("spawn")
  /\ UNCHANGED <<running, deleting, threads, poolAlive, status, alive, detached, runs, wtask>>

SpawnNeeded == Len(queue) > threads /\ threads < MaxThreads

Spawn ==
  /\ At("push", "spawn")
  /\ IF SpawnNeeded
     THEN threads' = threads + 1 /\ Goto(threads + 1, "pop")
     ELSE UNCHANGED <<threads, wpc>>
  /\ Return("ok")
  /\ UNCHANGED <<queue, running, deleting, poolAlive, taskVars, wtask>>

(* thread_task_join and thread_task_timed_join, which differ in Expire. *)
JoinBegin(op, t) ==
  /\ call = Idle
  /\ handle[t] # "none"
  /\ IF status[t] = "free" THEN Return("not_pushed") ELSE Begin(op, "lock", t)
  /\ UNCHANGED <<poolVars, taskVars, workerVars>>

\* mutants: only a running task is waited for; none is
JoinWaitsForRunning(t) == status[t] = "running"
JoinNeverWaits(t) == status[t] = "free"
JoinMustWait(t) == status[t] # "finished"

JoinLock ==
  /\ call.op \in Joins /\ call.at = "lock"
  /\ TaskMutexFree(call.task)
  /\ GoOn(IF JoinMustWait(call.task) THEN "wait" ELSE "store")
  /\ UNCHANGED <<poolVars, taskVars, workerVars>>

JoinWake ==
  /\ call.op \in Joins /\ call.at = "woken"
  /\ TaskMutexFree(call.task)
  /\ GoOn("store")
  /\ UNCHANGED <<poolVars, taskVars, workerVars>>

(* Awake, the joiner does not look at the status again, signal or none. *)
JoinWakeUnsignalled ==
  /\ call.op \in Joins /\ call.at = "wait"
  /\ TaskMutexFree(call.task)
  /\ GoOn("early")
  /\ UNCHANGED <<poolVars, taskVars, workerVars>>

(* The timeout may win over a broadcast that has come. *)
\* mutant: the wait has no timeout
NeverExpires == {}
Expirable == {"timed_join"}
Expire ==
  /\ call.op \in Expirable /\ call.at \in {"wait", "woken"}
  /\ TaskMutexFree(call.task)
  /\ Return("timeout")
  /\ UNCHANGED <<poolVars, taskVars, workerVars>>

JoinStore ==
  /\ call.op \in Joins /\ call.at \in {"early", "store"}
  /\ status' = [status EXCEPT ![call.task] = "finished"]
  /\ handle' = [handle EXCEPT ![call.task] = "idle"]
  /\ End("ok")
  /\ wild' = (call.at = "early" /\ InUse(call.task))
  /\ UNCHANGED <<alive, detached, runs, pushes, poolVars, workerVars>>

(* A negative timeout is refused before the task is looked at. *)
TimedJoinNegative(t) ==
  /\ call = Idle
  /\ handle[t] # "none"
  /\ Return("timeout")
  /\ UNCHANGED <<poolVars, taskVars, workerVars>>

DetachBegin(t) ==
  /\ call = Idle
  /\ handle[t] # "none"
  /\ IF status[t] = "free" THEN Return("not_pushed") ELSE Begin("detach", "lock", t)
  /\ UNCHANGED <<poolVars, taskVars, workerVars>>

\* mutant: a task that has been started is taken for finished
DetachFreesStarted(t) == status[t] # "pushed"
DetachFrees(t) == status[t] = "finished"

Detach ==
  /\ At("detach", "lock")
  /\ TaskMutexFree(call.task)
  /\ IF DetachFrees(call.task)
     THEN /\ status' = [status EXCEPT ![call.task] = "free"]
          /\ GoOn("free")
          /\ UNCHANGED detached
     ELSE /\ detached' = [detached EXCEPT ![call.task] = TRUE]
          /\ Return("ok")
          /\ UNCHANGED status
  /\ handle' = [handle EXCEPT ![call.task] = "none"]
  /\ UNCHANGED <<alive, runs, pushes, poolVars, workerVars>>

DetachFree ==
  /\ At("detach", "free")
  /\ alive' = [alive EXCEPT ![call.task] = FALSE]
  /\ Return("ok")
  /\ UNCHANGED <<status, detached, runs, pushes, handle, poolVars, workerVars>>

(* thread_pool_delete: two loads, a store, a broadcast without the mutex,    *)
(* and a pthread_join of every thread.                                       *)
PoolDeleteBegin ==
  /\ call = Idle
  /\ poolAlive
  /\ IF queue # <<>> THEN Return("has_tasks") ELSE Begin("delete", "running", NoTask)
  /\ UNCHANGED <<poolVars, taskVars, workerVars>>

PoolDeleteRunning ==
  /\ At("delete", "running")
  /\ IF running # 0 THEN Return("has_tasks") ELSE GoOn("close")
  /\ UNCHANGED <<poolVars, taskVars, workerVars>>

PoolDeleteClose ==
  /\ At("delete", "close")
  /\ deleting' = TRUE
  /\ GoOn("broadcast")
  /\ UNCHANGED <<queue, running, threads, poolAlive, taskVars, workerVars>>

PoolDeleteBroadcast ==
  /\ At("delete", "broadcast")
  /\ wpc' = WakeWorkers
  /\ GoOn("reap")
  /\ UNCHANGED <<poolVars, taskVars, wtask>>

\* mutant: the last thread is not joined
AllButLastJoined == \A w \in 1..(threads - 1) : wpc[w] = "exited"
ThreadsJoined == \A w \in 1..threads : wpc[w] = "exited"

PoolDeleteReap ==
  /\ At("delete", "reap")
  /\ ThreadsJoined
  /\ poolAlive' = FALSE
  /\ Return("ok")
  /\ UNCHANGED <<queue, running, deleting, threads, taskVars, workerVars>>

BeginCall ==
  /\ ~wild
  /\ \/ \E t \in Tasks :
          TaskNew(t) \/ TaskDelete(t) \/ PushBegin(t) \/ TimedJoinNegative(t) \/ DetachBegin(t)
     \/ \E op \in Joins, t \in Tasks : JoinBegin(op, t)
     \/ PoolDeleteBegin

InCall ==
  \/ TaskDeleteSecond
  \/ Enqueue \/ Spawn
  \/ JoinLock \/ JoinWake \/ Expire \/ JoinStore
  \/ Detach \/ DetachFree
  \/ PoolDeleteRunning \/ PoolDeleteClose \/ PoolDeleteBroadcast \/ PoolDeleteReap

Next ==
  \/ \E w \in Workers : Worker(w) \/ WakeUnsignalled(w)
  \/ BeginCall \/ InCall \/ JoinWakeUnsignalled

Spec == Init /\ [][Next]_vars

(* A thread that can move does, and every task's function returns.  The      *)
(* client need not begin a call, but goes on with one it began; a timed join *)
(* has a finite timeout.  No wakeup comes without a signal because it must.  *)
Fairness == WF_vars(InCall) /\ \A w \in Workers : WF_vars(Worker(w))
FairSpec == Spec /\ Fairness

-----------------------------------------------------------------------------
(* Properties.                                                               *)

TypeOK ==
  /\ queue \in Seq(Tasks)
  /\ running \in Nat
  /\ deleting \in BOOLEAN
  /\ threads \in 0..MaxThreads
  /\ poolAlive \in BOOLEAN
  /\ status \in [Tasks -> Statuses]
  /\ alive \in [Tasks -> BOOLEAN]
  /\ detached \in [Tasks -> BOOLEAN]
  /\ runs \in [Tasks -> Nat]
  /\ pushes \in [Tasks -> Nat]
  /\ handle \in [Tasks -> Handles]
  /\ wpc \in [Workers -> WorkerPcs]
  /\ wtask \in [Workers -> Tasks \cup {NoTask}]
  /\ call \in Calls
  /\ ret \in Codes
  /\ wild \in BOOLEAN

Pending(t) == InQueue(t) \/ \E w \in Workers : wpc[w] \in NotRunYet /\ wtask[w] = t

(* A push is run exactly once: at any moment a task is in the queue at most   *)
(* once or with at most one worker, never both, and it has run as often as it *)
(* was pushed, save for the one push that is pending.                         *)
ExactlyOnce ==
  /\ \A i, j \in 1..Len(queue) : queue[i] = queue[j] => i = j
  /\ \A w \in Workers, t \in Tasks : Holds(w, t) => ~InQueue(t)
  /\ \A w, v \in Workers, t \in Tasks : Holds(w, t) /\ Holds(v, t) => w = v
  /\ \A t \in Tasks : pushes[t] = runs[t] + (IF Pending(t) THEN 1 ELSE 0)

(* A task that was joined, or never pushed, is in nobody's hands and its last *)
(* push has run, so that the client may read the result, push the task again  *)
(* or delete it (thread_pool.h:104-106): the only join that gives back a task *)
(* still in use is one that woke up without a signal before the task was done *)
(* (272), which JoinWaitsUntilFinished shows it does.                         *)
IdleTaskIsDone ==
  ~wild => \A t \in Tasks : handle[t] = "idle" =>
    /\ runs[t] = pushes[t]
    /\ ~InQueue(t)
    /\ \A w \in Workers : ~Holds(w, t)

(* What thread_pool.h:104 says of every join, "If it is not finished, then     *)
(* wait until it is": a task given back by a join has run as often as it was   *)
(* pushed.                                                                     *)
JoinWaitsUntilFinished == \A t \in Tasks : handle[t] = "idle" => runs[t] = pushes[t]

(* No worker, queue or call refers to a task that has been freed, by whichever *)
(* of task_delete, detach and the worker that finishes a detached task.  The   *)
(* one exception is exactly this: a delete whose second look at the status     *)
(* (285) falls between the worker's store of FINISHED (151) and its unlock     *)
(* (153), against thread_pool.h:142-143; and the freed task is then the one    *)
(* that worker is about to broadcast on.                                       *)
Used(t) == InQueue(t) \/ (\E w \in Workers : Holds(w, t)) \/ call.task = t
NoUseAfterFree ==
  \A t \in Tasks : Used(t) /\ ~alive[t] =>
    /\ wild
    /\ ~InQueue(t) /\ call = Idle
    /\ \A w \in Workers : Holds(w, t) => wpc[w] = "publish"

(* When the pool is freed no thread can touch it any more, no task is left in *)
(* it and none is counted, although the broadcast that ends the threads is    *)
(* made without the mutex and the counter moves after the join.               *)
DeletedPoolIsDrained ==
  ~poolAlive =>
    /\ \A w \in Workers : wpc[w] \in {"none", "exited"}
    /\ queue = <<>>
    /\ running = 0

(* The status of a task goes free/finished, pushed, running, finished/free,  *)
(* with detach freeing what is finished: no store of one thread, the client's *)
(* late FINISHED included, overwrites a later status, unless the joiner woke  *)
(* up without a signal before the task was done (272).                       *)
StatusGoesRound ==
  [][\A t \in Tasks : status'[t] # status[t] =>
       \/ <<status[t], status'[t]>> \in
            {<<"free", "pushed">>, <<"finished", "pushed">>, <<"pushed", "running">>,
             <<"running", "finished">>, <<"running", "free">>, <<"finished", "free">>}
       \/ call.op \in Joins /\ call.at = "early" /\ call.task = t]_vars

(* The pool implements TaskPool: tasks start in the order of their pushes, at *)
(* most MaxThreads at once, each push at most once, and the pool goes away    *)
(* only when it is empty.                                                     *)
Phase(t) ==
  IF InQueue(t) THEN "waiting"
  ELSE IF \E w \in Workers : wpc[w] \in Unsettled /\ wtask[w] = t THEN "active"
  ELSE IF ~alive[t] \/ \E w \in Workers : wpc[w] = "reap" /\ wtask[w] = t THEN "absent"
  ELSE IF status[t] = "finished" THEN "done" ELSE "ready"

Contract ==
  INSTANCE TaskPool WITH phase <- [t \in Tasks |-> Phase(t)],
                         order <- queue,
                         closed <- ~poolAlive
ImplementsTaskPool == Contract!Spec

(* A worker that has taken a task finishes it, whatever the client does, and a *)
(* detached task that a worker has taken is freed in the end (nothing is said  *)
(* of what follows a task returned or freed while in use).                     *)
WorkersFinish == \A w \in Workers : (wpc[w] \in Holding) ~> (wpc[w] \notin Holding \/ wild)
DetachedAreFreed ==
  \A t \in Tasks :
    (detached[t] /\ alive[t] /\ \E w \in Workers : Holds(w, t)) ~> (~alive[t] \/ wild)
TakenTaskSettles == WorkersFinish /\ DetachedAreFreed

(* A join of a task some worker has taken returns: between the joiner's look at *)
(* the status and its wait the worker's broadcast cannot slip in.               *)
JoinOfTakenTaskReturns ==
  \A t \in Tasks :
    (call.op = "join" /\ call.task = t /\ \E w \in Workers : Holds(w, t)) ~> (call = Idle)

(* A timed join returns even when the task never runs. *)
TimedJoinReturns == (call.op = "timed_join") ~> (call = Idle)

(* What thread_pool.h:104 says of every join, "If it is not finished, then     *)
(* wait until it is": a join returns.                                          *)
JoinReturns == (call.op = "join") ~> (call = Idle)

(* thread_pool_delete returns once it has begun to end the threads. *)
PoolDeleteReturns == (call.op = "delete") ~> (call = Idle)
=============================================================================
